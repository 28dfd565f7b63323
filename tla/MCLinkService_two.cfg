SPECIFICATION Spec
CONSTANTS
  p1 = p1  p2 = p2
  Procs = {p1, p2}
  NumReqs = 3
  Names = {"a"}
  Generable = {"a"}
  Ops = {"create", "follow", "delete", "stats"}
  Spellings = {"a"}
  Lifetimes = {}
  Faults = {"connect", "busy", "crash"}
  Attempts = 1
  MaxTime = 0
  DayLength = 1
  Never = Never
  Empty = Empty
  Null = Null
SYMMETRY Interchangeable
INVARIANTS IInv TombstoneKeepsNothing RedirectsAreCounted OneWinner DeletedIsFinal
PROPERTY AlmostAtomic
CHECK_DEADLOCK FALSE
