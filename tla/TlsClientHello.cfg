SPECIFICATION FairSpec
CONSTANTS
  MaxLen = 72
  Len8 = {0, 1, 3}
  Len16 = {0, 1, 2, 5, 18}
INVARIANTS TypeOK ReadsInBounds NameInExtensions
PROPERTIES Returns WalkShrinks
CHECK_DEADLOCK FALSE
