CONSTANTS
  NumPools = 2
  PoolSize = 4
  NSlots = 3
  BufCap = 2
  FetchWidth = 1
  IssueWidth = 5
  FetchLatency = 1
  UnitCap = 1
  Hints <- MCHints
  Kernel <- MCProgHint
  IssueMode = 0
SPECIFICATION Spec
INVARIANTS BuffersBounded ScoreboardExact UopConservation BuffersInFetchOrder
