SPECIFICATION FairSpec
CONSTANTS
  MaxServers = 2
  MaxEvents = 2
  MaxLooper = 2
INVARIANTS
  DrawsOnOpenConnection
  StaleSurfaceNeedsRace
  FloatIsHiddenAtRest
  TouchCrashNeedsLastClient
PROPERTIES
  StopsEndDrawing
  ClientsAreDrawn
CHECK_DEADLOCK FALSE
