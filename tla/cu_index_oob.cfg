CONSTANTS
  NumPools = 2
  PoolSize = 2
  NSlots = 2
  BufCap = 2
  FetchWidth = 1
  IssueWidth = 5
  FetchLatency = 1
  UnitCap = 1
  Hints <- NoHints
  Kernel <- MCProg
  IssueMode = 1
SPECIFICATION Spec
INVARIANT CandidateInPool
