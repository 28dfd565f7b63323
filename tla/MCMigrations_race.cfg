SPECIFICATION Spec
CONSTANTS
  p1 = p1  p2 = p2  p3 = p3
  Procs = {p1, p2, p3}
  Versions = {1, 2, 3}
  Shipped <- OneBuild
  Broken = {}
  Faults = {}
  Nobody = Nobody
PROPERTIES
  NobodyRaises
CHECK_DEADLOCK FALSE
