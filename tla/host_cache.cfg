CONSTANTS
  Contents = {z, a}
  Zero = z
  Torn = torn
  NoMemory = none
  NoEntry = noentry
  MaxRegions = 2
  LastGen = 2
  MaxEra = 1
  Policies <- HostPolicies
  CacheSlots = 1
  NoSlot = noslot
  Troubled = {1}
SPECIFICATION HostSpec
INVARIANTS FastPathSound BytesSurvive
CHECK_DEADLOCK FALSE
