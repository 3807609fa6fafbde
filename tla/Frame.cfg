SPECIFICATION Spec
CONSTANTS
  None = None
  Repr <- MCRepr
  Table <- MCTable
  More <- MCMore
  Openings <- MCOpenings
  Array <- MCArray
  Altered <- MCAltered
  Assignments <- MCAssignments
  Cuts <- MCCuts
  Renamings <- MCRenamings
  Projections <- MCProjections
  Drops <- MCDrops
  Casts <- MCCasts
  Params <- MCParams
  BatchRows = 2
  MaxEdits = 2
ACTION_CONSTRAINT Tried
INVARIANTS
  TerminalsAgree
  CutflowExact
  ReductionsExact
  BatchesExact
  WrittenExact
CHECK_DEADLOCK FALSE
