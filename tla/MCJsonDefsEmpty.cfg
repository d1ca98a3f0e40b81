SPECIFICATION Spec
CONSTANTS
  FirstPriority = 7
  Golden = 19
  WordMod = 32
  MaxReloads = 1
  Libraries <- OfTexts
INVARIANTS
  EveryReloadIsAccepted
CHECK_DEADLOCK FALSE
