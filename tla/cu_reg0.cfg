CONSTANTS
  NumPools = 2
  PoolSize = 1
  NSlots = 1
  BufCap = 2
  FetchWidth = 1
  IssueWidth = 5
  FetchLatency = 1
  UnitCap = 1
  Hints <- NoHints
  Kernel <- MCProgReg0
  IssueMode = 0
SPECIFICATION Spec
INVARIANTS NoDoubleWrite
