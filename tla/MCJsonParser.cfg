SPECIFICATION FairSpec
CONSTANTS
  StackMax = 4
  MaxRoom = 2
INVARIANTS
  Consistent
PROPERTIES
  StickyStatus
  ImplementsEvents
  CallReturns
\* ENSURE ends the process when the stack is at its limit.
CHECK_DEADLOCK FALSE
