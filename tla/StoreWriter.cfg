CONSTANTS
  p1 = p1
  p2 = p2
  i1 = i1
  i2 = i2
  v1 = v1
  v2 = v2
  None = None
  NoStore = NoStore
  NoStat = NoStat
  Procs <- MCProcs
  Inodes <- MCInodes
  Vals <- MCVals
  MaxRecords = 3
  MaxChunks = 4
  FlockSupported = TRUE
  Exclusive = TRUE
  RetryAfterFailure = FALSE
  TornCounters = FALSE
  InterruptedAt <- MCNowhere
  LockMidClose = FALSE
SPECIFICATION Spec
INVARIANTS
  TypeOK
  ReadersSeeAcked
  CommittedReadable
  FooterMatchesRecords
PROPERTIES
  OnlyHolderWrites
  UnlinkSparesCommits
  ImplementsCommitLog
SYMMETRY Symmetry
