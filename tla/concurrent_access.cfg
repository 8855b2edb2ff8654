CONSTANTS
  Threads = {t1, t2}
  Contents = {z, a}
  Zero = z
  Torn = torn
  NoMemory = none
  MaxRegions = 2
  Created = {2}
  Policies <- WarmPolicies
  MaxUsed = 1
  MaxGen = 2
  Targets = {0}
  WithinTier = "SmallestFirst"
  Operations = {"write", "copy", "spill", "load", "compact", "dealloc", "demote_until"}
  MaxCalls = 2
  Nobody = nobody
SPECIFICATION Spec
INVARIANTS BytesSurvive
PROPERTIES CopyIsAtomic EveryCallReturns
CHECK_DEADLOCK FALSE
