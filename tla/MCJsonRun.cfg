SPECIFICATION MCSpec
CONSTANTS
  BufSize = 3
  ErrMax = 5
  ErrInit = 2
  MaxSize = 6
  MaxLines = 2
  Contexts = {1, 2}
  TypePlaces <- MCTypePlaces
INVARIANTS
  AddressesAgree
  NeverAborts
  CaretIsRight
  ContextIsWhole
  ReadsToTheEnd
\* The program ends.
CHECK_DEADLOCK FALSE
