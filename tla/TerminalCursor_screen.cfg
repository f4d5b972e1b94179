SPECIFICATION Spec
CONSTANTS
  Sizes <- RowsChange
  TotalRows = 5
  TabWidth = 1
  MaxInt = 15
  Args = {1, 4}
  Modes = {3, 6, 1049}
  TabColumns = {}
  MaxLeft = 0
INVARIANTS CursorOnScreen EditsInside BufferFits
PROPERTY MainCursorComesBack
CHECK_DEADLOCK FALSE
