SPECIFICATION Spec
CONSTANTS
  Sizes <- ColumnsChange
  TotalRows = 5
  TabWidth = 8
  MaxInt = 15
  Args = {2}
  Modes = {3, 7, 69, 1049}
  TabColumns <- LeftOfScreen
  MaxLeft = 1
INVARIANTS MarginsOnScreen
PROPERTY FaultsStartAtTheLeft
CHECK_DEADLOCK FALSE
