SPECIFICATION Spec
CONSTANTS
  Outside = {"read", "lock", "ddl"}
  Faults = {"crash", "io"}
  ByteBits = 3
  Counts = {1, 2, 3, 4, 31, 32, 255, 256, 2047, 2048, 131071, 131072, 131073}
  MaxFrames = 5
  MaxTroubles = 2
INVARIANTS TypeOK OwedUntilRewritten NextRequestPays OneCopyInWal CookieCountsTroubles
