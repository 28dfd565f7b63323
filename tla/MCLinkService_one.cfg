SPECIFICATION Spec
CONSTANTS
  p1 = p1  p2 = p2
  Procs = {p1}
  NumReqs = 3
  Names = {"a", "b"}
  Generable = {"a", "b"}
  Ops = {"generate","follow","delete","page"}
  Spellings = {"a", Null}
  Lifetimes = {1}
  Faults = {"settle"}
  Attempts = 2
  MaxTime = 1
  DayLength = 1
  Never = Never
  Empty = Empty
  Null = Null
INVARIANTS TypeOK OneConnection BornUnexpired RedirectsAreCounted GoneMeansDeleted
PROPERTIES NeverRepointed Atomic
CHECK_DEADLOCK FALSE
