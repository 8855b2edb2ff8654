CONSTANTS
  Threads = {t1, t2}
  Contents = {z, a}
  Zero = z
  Torn = torn
  NoMemory = none
  MaxRegions = 2
  Created = {1, 2}
  Policies <- TierPolicies
  MaxUsed = 1
  MaxGen = 1
  Targets = {0, 1}
  WithinTier = "LargestFirst"
  Operations = {"create", "destroy", "alloc", "pin", "unpin", "load", "demote_until", "alloc_or_demote"}
  MaxCalls = 2
  Nobody = nobody
SYMMETRY Symmetry
SPECIFICATION Spec
PROPERTIES PinnedStaysResident ReportExact NoNeedlessSpill
CHECK_DEADLOCK FALSE
