SPECIFICATION ClipFairSpec
CONSTANTS
  MaxInputs = 2
  MaxRivals = 2
INVARIANT WindowKeepsConnection
PROPERTIES
  CopiesEnd
  ConnectionIsClosedAtLast
CHECK_DEADLOCK FALSE
