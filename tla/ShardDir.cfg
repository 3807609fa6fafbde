CONSTANTS
  w1 = w1
  w2 = w2
  r1 = r1
  x = x
  y = y
  None = None
  Writers <- MCWriters
  Readers <- MCReaders
  Schemas <- MCSchemas
  Limits <- MCLimits
  MaxBatches = 3
  MaxSource = 1
  Deletions = TRUE
  SourceQuiet = TRUE
  NamesNotReused = TRUE
SPECIFICATION Spec
SYMMETRY MCSymmetry
INVARIANTS
  OneSession
  RowsInOrder
  ShardsWhole
  ClosedIsStored
  DatasetWhole
PROPERTIES
  ShardsImmutable
