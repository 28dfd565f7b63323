SPECIFICATION Spec
CONSTANTS
  Outside = {"lock"}
  Faults = {}
  ByteBits = 3
  Counts = {3}
  MaxFrames = 4
  MaxTroubles = 1
INVARIANTS
  CookieIsTheSchemas
