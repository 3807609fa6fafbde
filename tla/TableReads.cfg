CONSTANTS
  single = single
  pair = pair
  uniform = uniform
  wide = wide
  None = None
  NaN = NaN
  Missing = Missing
  Dataset = Dataset
  Files <- MCFiles
  Records <- MCRecords
  Columns <- MCColumns
  Preamble = 2
  HeaderCells = 1
  BodyAlign = 4
  Span = 100
  Handles <- MCHandles
  Modes <- MCModes
  Sources <- MCSources
  Requests <- MCRequests
  Environments <- MCEnvironments
  Keys <- MCKeys
  Narrowings <- MCNarrowings
  Values <- MCValues
  Queried = "a"
  Comparisons <- MCComparisons
  MaxReaders = 1
  MaxRows = 7
  MaxNarrowings = 1
  Peek = 2
SPECIFICATION Spec
ACTION_CONSTRAINT MCFocus
INVARIANTS
  ViewSelects
  ReadsExact
  MemoFresh
  SchemaInEveryChild
PROPERTIES
  OpenerCloses
CHECK_DEADLOCK FALSE
