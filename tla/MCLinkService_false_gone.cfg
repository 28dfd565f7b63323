SPECIFICATION Spec
CONSTANTS
  p1 = p1  p2 = p2
  Procs = {p1, p2}
  NumReqs = 2
  Names = {"a"}
  Generable = {"a"}
  Ops = {"create", "delete"}
  Spellings = {"a"}
  Lifetimes = {}
  Faults = {"connect", "busy", "settle", "crash"}
  Attempts = 1
  MaxTime = 0
  DayLength = 1
  Never = Never
  Empty = Empty
  Null = Null
INVARIANT GoneMeansDeleted
CHECK_DEADLOCK FALSE
