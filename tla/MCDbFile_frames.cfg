SPECIFICATION Spec
CONSTANTS
  Outside = {"read"}
  Faults = {}
  ByteBits = 3
  Counts = {3}
  MaxFrames = 4
  MaxTroubles = 0
INVARIANTS
  FramesEndWithRead
