CONSTANTS
  p1 = p1
  p2 = p2
  i1 = i1
  i2 = i2
  v1 = v1
  v2 = v2
  None = None
  NoStore = NoStore
  NoStat = NoStat
  Procs <- MCProcs
  Inodes <- MCOneInode
  Vals <- MCVals
  MaxRecords = 2
  MaxChunks = 2
  FlockSupported = TRUE
  Exclusive = TRUE
  RetryAfterFailure = TRUE
  TornCounters = TRUE
  InterruptedAt <- MCAnywhere
  LockMidClose = FALSE
SPECIFICATION FairSpec
INVARIANTS
  VisibleWasCommitted
PROPERTIES
  LocksAreReleased
