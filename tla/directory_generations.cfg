CONSTANTS
  Contents = {z, a}
  Zero = z
  Torn = torn
  NoMemory = none
  NoEntry = noentry
  MaxRegions = 1
  LastGen = 2
  MaxEra = 3
  Policies <- AllPolicies
SPECIFICATION Spec
INVARIANTS TypeOK BytesSurvive HandlesExact
PROPERTY PinnedStaysResident
CHECK_DEADLOCK FALSE
