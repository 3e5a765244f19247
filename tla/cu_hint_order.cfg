CONSTANTS
  NumPools = 2
  PoolSize = 3
  NSlots = 2
  BufCap = 2
  FetchWidth = 1
  IssueWidth = 5
  FetchLatency = 1
  UnitCap = 1
  Hints <- MCHintsBack
  Kernel <- MCProgHint
  IssueMode = 0
SPECIFICATION Spec
INVARIANT BuffersInFetchOrder
