CONSTANTS
  u1 = u1
  u2 = u2
  c1 = c1
  r1 = r1
  i1 = i1
  i2 = i2
  i3 = i3
  None = None
  Updaters <- MCTwoUpdaters
  Compactors <- MCOneCompactor
  Readers <- MCOneReader
  Inodes <- MCInodes
  Starts <- MCStarts
  Statistics = {TRUE, FALSE}
  MaxRows = 4
  MaxRecords = 4
  MaxPerRecord = 2
  WritersAvoidRename = TRUE
  ReadersAvoidRename = TRUE
  FiltersAvoidRename = TRUE
SPECIFICATION Spec
SYMMETRY MCSymmetry
ACTION_CONSTRAINT Scenario
INVARIANTS
  PathHoldsAcked
  CopiesWhole
  ReaderSnapshot
  SkippingExact
PROPERTIES
  MappedRowsStay
