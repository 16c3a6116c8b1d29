SPECIFICATION Spec
CONSTANTS
  MaxLen = 72
  Len8 = {0, 1, 3}
  Len16 = {0, 1, 2, 5, 18}
INVARIANT NameIsServerName
CHECK_DEADLOCK FALSE
