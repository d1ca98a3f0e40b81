SPECIFICATION Spec
CONSTANTS
  FirstPriority = 7
  Golden = 19
  WordMod = 32
  MaxReloads = 1
  Libraries <- MCLibraries
INVARIANTS
  ValidIsTree
  RefusalNamesTheFault
  SpaceIsMap
  GenDefNeverAborts
  WritesWhatItHolds
  ReloadIsAccepted
CHECK_DEADLOCK FALSE
