SPECIFICATION FairSpec
CONSTANTS
  p1 = p1  p2 = p2  p3 = p3
  Procs = {p1, p2, p3}
  Versions = {1, 2, 3}
  Shipped <- Branches
  Broken = {2}
  Faults = {"busy", "crash"}
  Nobody = Nobody
INVARIANTS TypeOK RecordedOnce ServingIsMigrated InOrder
PROPERTY FullBuildServes
CHECK_DEADLOCK FALSE
