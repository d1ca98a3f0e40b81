SPECIFICATION MCSpec
CONSTANTS
  Nodes <- MCNodes
  Types <- OpenBesideType
  Names <- MCNames
  Plains <- MCPlains
  Words <- MCWords
  Values <- MCValues
INVARIANTS
  RejectsOthers
\* A text that is complete, or refused, goes no further.
CHECK_DEADLOCK FALSE
