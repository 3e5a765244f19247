\* Same instance; checks that a compute unit with a free slot is on the
\* GPU's available list.
CONSTANTS
  WorkGroups = {0, 1, 2, 3, 4}
  WGPerCU = 4
  NumPools = 2
  PoolCap = 2
  WavefrontsPerWG = 1
  NoWorkGroup = NoWorkGroup
SPECIFICATION Spec
INVARIANT AvailableWhenFree
