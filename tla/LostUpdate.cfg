CONSTANTS
  u1 = u1
  u2 = u2
  c1 = c1
  r1 = r1
  i1 = i1
  i2 = i2
  i3 = i3
  None = None
  Updaters <- MCOneUpdater
  Compactors <- MCOneCompactor
  Readers <- MCNobody
  Inodes <- MCInodes
  Starts <- MCTwoRecords
  Statistics = {TRUE, FALSE}
  MaxRows = 3
  MaxRecords = 3
  MaxPerRecord = 1
  WritersAvoidRename = FALSE
  ReadersAvoidRename = TRUE
  FiltersAvoidRename = TRUE
SPECIFICATION Spec
SYMMETRY MCSymmetry
INVARIANTS
  PathHoldsAcked
