SPECIFICATION Spec
CONSTANTS
  Sizes = {0, 13, 14, 15, 19, 20, 24, 33, 34, 35, 38, 41, 42, 53, 54, 55, 58, 74, 94, 114, 134, 140}
  At14 <- MCAt14
  At0 <- MCAt0
  At4 <- MCAt4
INVARIANTS
  TypeOK
  ReadsInFrame
  PayloadAgrees
  RowAgrees
CHECK_DEADLOCK FALSE
