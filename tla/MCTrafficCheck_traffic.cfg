SPECIFICATION Spec
CONSTANTS
  Services = {"api", "web"}
  Paths <- SitePaths
  Sites <- SmallSites
  Limit = 4
  Filtered = {}
  Faults = {"drop", "observer", "call", "garble", "scanner"}
  MaxTraffic = 2
INVARIANTS TypeOK PassMeansNothingSent SeenLeaksFail InnocentIsNotAccused PassMeansPagesAreClean
CHECK_DEADLOCK FALSE
