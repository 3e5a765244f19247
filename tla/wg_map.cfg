\* Five work-groups on a compute unit with four work-group slots over two
\* wavefront pools of two wavefronts each (one wavefront per work-group):
\* slots fill, free and are reused out of order, and each pool is exactly
\* as large as the slots that map to it.  The NDRange ends once every
\* work-group has been unmapped, so the final state has no successor;
\* AllWorkGroupsRun rules out every other stop.
CONSTANTS
  WorkGroups = {0, 1, 2, 3, 4}
  WGPerCU = 4
  NumPools = 2
  PoolCap = 2
  WavefrontsPerWG = 1
  NoWorkGroup = NoWorkGroup
SPECIFICATION Spec
INVARIANTS TypeOK SlotsExact PoolsFit
PROPERTIES AllWorkGroupsRun WorkGroupSlotsRefined
CHECK_DEADLOCK FALSE
