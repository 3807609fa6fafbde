CONSTANTS
  single = single
  pair = pair
  uniform = uniform
  gapped = gapped
  None = None
  Files <- MCFiles
  Records <- MCRecords
  Columns <- MCColumns
  Preamble = 2
  HeaderCells = 2
  BodyAlign = 4
  Span = 100
  Stacks <- MCStacks
  Workers <- MCWorkers
  Gathers <- MCGathers
  Ranges <- MCRanges
  Masks <- MCMasks
  Faults <- MCFaults
  Buffers = {1, 2, 3, 7, 100}
  Lengths <- MCLengths
  Entries <- MCEntries
  Word = 2
  Bits = 5
SPECIFICATION Spec
INVARIANTS
  KernelsExact
  IndexExact
CHECK_DEADLOCK FALSE
