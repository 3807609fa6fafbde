SPECIFICATION FairSpec
CONSTANTS
  None = None
  Automatic = Automatic
  Files <- MCFiles
  Rows = {0, 1, 2, 3, 4, 5, 6, 7}
  Calls <- MCCalls
  Blank = 0
  AutoWorkers = 8
  MaxFailures = 2
  MaxCalls = 2
INVARIANTS
  OutputsExact
  OpensAsPrefix
  OthersUntouched
  NothingLeftBehind
PROPERTIES
  EveryCallEnds
CHECK_DEADLOCK FALSE
