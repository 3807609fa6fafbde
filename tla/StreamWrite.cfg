CONSTANTS
  x = x
  y = y
  None = None
  Cols <- MCCols
  Sizes <- MCSizes
  Budgets <- MCBudgets
  Cuts <- MCCuts
  RowBytes = 2
SPECIFICATION FairSpec
INVARIANTS
  PublishedComplete
  BatchesInFlight
PROPERTIES
  Terminates
