CONSTANTS
  Inputs <- LinkInputs
  MaxImports = 3
  MaxPools = 3
SPECIFICATION Spec
INVARIANTS CodeFollows SectionsFollow NamesFollow PoolZeroFits HelpersReachTheirPool
CHECK_DEADLOCK FALSE
