SPECIFICATION MCSpec
CONSTANTS
  Nodes <- MCNodes
  Types <- DictsInLists
  Names <- MCNames
  Plains <- MCPlains
  Words <- MCWords
  Values <- MCValues
INVARIANTS
  AcceptsMatching
\* A text that is complete, or refused, goes no further.
CHECK_DEADLOCK FALSE
