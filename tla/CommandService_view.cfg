SPECIFICATION FairSpec
CONSTANTS
  Codes = {0, 1}
  MaxExecs = 3
  MaxStops = 1
  MaxOthers = 1
INVARIANTS
  RivalsNeedStops
  OneAtATime
  ReportsOwnExit
PROPERTY
  ViewIsFreed
CHECK_DEADLOCK FALSE
