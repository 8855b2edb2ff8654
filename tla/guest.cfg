CONSTANTS
  MaxU32 = 4
  PoolCount = 3
  PoolCapacity = 4
  Policies <- TwoPolicies
  Capacities = {1, 2, 4}
  Sizes = {1, 2}
  Values = {v1, v2}
  Unset = unset
  MaxId = 5
  LastGen = 2
  MaxHeld = 2
  MaxCompactions = 2
CONSTRAINT Bounds
SYMMETRY Symmetry
SPECIFICATION Spec
INVARIANTS TypeOK RegionsDisjoint PlacementComplete HandlesReadBack CacheCoherent
CHECK_DEADLOCK FALSE
