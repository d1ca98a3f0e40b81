SPECIFICATION MCSpec
CONSTANTS
  Chars <- MCChars
  Confs <- MCConfs
  MaxText = 8
  MaxBuf = 2
  Alphabets <- MCAlphabets
  MaxBytes = 4
  StringBytes = {65, 127, 128, 143, 144, 159, 160, 191, 192, 193, 194, 223, 224, 225, 237, 239, 240, 241, 243, 244, 245}
  UnitDigits = {0, 1, 7, 8, 13, 14, 15}
INVARIANTS
  TokensOfText
  Utf8Exact
\* A text that has ended or failed goes no further.
CHECK_DEADLOCK FALSE
