CONSTANTS
  Contents = {z, a}
  Zero = z
  Torn = torn
  NoMemory = none
  NoEntry = noentry
  MaxRegions = 2
  LastGen = 1
  MaxEra = 0
  Policies <- TieringPolicies
SPECIFICATION Spec
INVARIANTS BytesSurvive LruSound EvictionFindsWarm
CHECK_DEADLOCK FALSE
