CONSTANTS
  MaxU32 = 15
  MaxU16 = 3
  Base = 4
  LaneBytes = 2
  Capacity = 4
  Stores = {a, b}
  Owner = a
  PageSize = 8
  MaxPages = 2
  MaxNeedle = 4
  MaxChanges = 1
  InitialBytes <- MCInitialBytes
  InitialMem <- MCInitialMem
  Moved = {2}
  Calls <- MCCalls
SPECIFICATION Spec
INVARIANTS SameEffect AnswersTrue GatherExact FailureNotForgotten
