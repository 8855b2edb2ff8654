CONSTANTS
  MaxU32 = 4
  Capacity = 3
  Kinds <- AllKinds
  Sizes = {0, 1, 2, 3}
  Aligns = {0, 1, 2, 3, 4}
  Values = {v1, v2}
  Unset = unset
  LastGen = 2
  MaxHeld = 3
  MaxCompactions = 2
SYMMETRY Symmetry
SPECIFICATION Spec
INVARIANTS FreesOnlyLive FreelistTiles NoFalseFailure HandlesReadBack
PROPERTIES CompactionDefragments ImplementsPromise
CHECK_DEADLOCK FALSE
