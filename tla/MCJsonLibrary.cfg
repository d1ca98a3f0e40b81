SPECIFICATION MCSpec
CONSTANTS
  ObjStackMax = 4
  Words <- MCWords
  Lines <- MCLines
  Names <- MCNames
  MaxWraps = 3
  CallWraps = 2
  Leaves <- MCLeaves
  Partners <- MCPartners
INVARIANTS
  BuildsItsType
  RulesNeverFail
  ErrorIsFirst
  AnswersExplained
  VerdictsAgree
  PrintsTheText
  PathsNameLeaves
  TypeOfValue
PROPERTIES
  ErrorIsFinal
\* A library that was loaded is called no more.
CHECK_DEADLOCK FALSE
