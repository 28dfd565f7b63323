SPECIFICATION Spec
CONSTANTS
  Outside = {"read", "ddl"}
  Faults = {}
  ByteBits = 3
  Counts = {3}
  MaxFrames = 4
  MaxTroubles = 1
INVARIANTS
  CachedSchemaIsRight
