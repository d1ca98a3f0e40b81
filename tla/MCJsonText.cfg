SPECIFICATION TextSpec
CONSTANTS
  StackMax = 5
  MaxRoom = 1
  MaxSeen = 6
  AstSeen = 9
  Kinds = {"number", "string"}
INVARIANTS
  DecidesGrammar
  TreeIsText
  AstNeverFails
\* A text that has ended or failed goes no further.
CHECK_DEADLOCK FALSE
