SPECIFICATION StringsSpec
CONSTANTS
  MaxBytes = 4
  StringBytes = {65, 127, 128, 143, 144, 159, 160, 191, 192, 193, 194, 223, 224, 225, 237, 239, 240, 241, 243, 244, 245}
  UnitDigits = {0, 1, 7, 8, 13, 14, 15}
INVARIANTS
  AcceptsTable37
\* A string of MaxBytes bytes goes no further.
CHECK_DEADLOCK FALSE
