SPECIFICATION MCSpec
CONSTANTS
  Nodes <- MCNodes
  Types <- MCTypes
  Names <- MCNames
  Plains <- MCPlains
  Words <- MCWords
  Values <- MCValues
INVARIANTS
  FramesMatchCalls
  OpenNodeIsSimple
  AcceptsMatching
  RejectsOthers
PROPERTIES
  ImplementsHandlers
\* A text that is complete, or refused, goes no further.
CHECK_DEADLOCK FALSE
