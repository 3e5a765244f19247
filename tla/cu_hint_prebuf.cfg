CONSTANTS
  NumPools = 2
  PoolSize = 2
  NSlots = 1
  BufCap = 2
  FetchWidth = 1
  IssueWidth = 5
  FetchLatency = 1
  UnitCap = 1
  Hints <- MCHintsFar
  Kernel <- MCProgTwoWaits
  IssueMode = 0
SPECIFICATION Spec
INVARIANT BuffersBounded
