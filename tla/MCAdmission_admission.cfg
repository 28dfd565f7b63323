SPECIFICATION Spec
CONSTANTS
  Settings <- EnvironmentValues
  Requests <- AllRequests
  MAX_NAME_LENGTH = 2
  Base = 2
  MaxLinks = 1
  MaxTime = 7
  Null = Null
INVARIANTS TypeOK OneLinkPerSpelling RootIsForLinks OnlyTheKeyOpens ExpiresInTimeOrder
