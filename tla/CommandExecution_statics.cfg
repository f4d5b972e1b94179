SPECIFICATION FairSpec
CONSTANTS
  Threads = {main, worker}
  Main = main
  MaxProcs = 2
INVARIANTS
  UndisturbedCallsAreTheirOwn
  StrayServersNeedRaces
PROPERTY
  UndisturbedCallsReturn
CHECK_DEADLOCK FALSE
