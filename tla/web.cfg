CONSTANTS
  PoolCount = 1
  PoolCapacity = 4
  PageBytes = 1
  Wanted <- TwoShapes
  Sizes = {2}
  Budgets = {2}
  NoBudget = none
  MaxRegions = 3
  MaxVersions = 1
  MaxCalls = 5
  MaxFaults = 1
SPECIFICATION WebSpec
INVARIANTS SpansTile WebBytesSurvive
CHECK_DEADLOCK FALSE
