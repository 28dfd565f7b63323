SPECIFICATION FairSpec
CONSTANTS
  c1 = c1  c2 = c2  c3 = c3
  Clients = {c1, c2, c3}
  Routes = {"create", "delete", "follow", "privacy", "nowhere"}
  Workers = 2
  Limit = 1
  Chunked = Chunked
  None = None
INVARIANTS TypeOK OneConnection WaitingHoldsNothing OnlyAdmittedTakeTurns OverLimitIsRefused
PROPERTIES FirstComeFirstServed EveryoneIsAnswered
