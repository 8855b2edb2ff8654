CONSTANTS
  Ids = {1, 2}
  Contents = {a, b}
  Empty = empty
  NoFile = none
SPECIFICATION Spec
INVARIANT LoadsReadBack
CHECK_DEADLOCK FALSE
