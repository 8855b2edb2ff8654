CONSTANTS
  PoolCounts = {1, 2, 3}
  InitialPages = 1
  PageLimits = {3, 4}
  PageSize = 2
  AddrSpace = 8
  Widths <- SmallWidths
  Lanes = 2
  ByteMod = 4
  StoreBytes = {1, 2}
  MaxCalls = 2
SPECIFICATION Spec
INVARIANTS RoutesAgree ReducersExact AutoGrowReaches
CHECK_DEADLOCK FALSE
