SPECIFICATION MCSpec
CONSTANTS
  NullSym = 0
  Cmp <- IntCmp
  Syms = {1, 2, 3}
  MaxKeyLen = 2
  MaxKeys = 4
  Words <- MCWords
  MaxElems = 3
INVARIANTS
  LookupExact
  RebalancedIsFlat
  VisitsInOrder
  TreesAreSets
  BranchIsDecided
PROPERTIES
  WalkEnds
\* A walk ends, and a list at its bound grows no more.
CHECK_DEADLOCK FALSE
