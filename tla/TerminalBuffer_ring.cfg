SPECIFICATION Spec
CONSTANTS
  a = a
  Texts = {a}
  Blank = Blank
  Null = Null
  TotalRows = 4
  Heights = {2, 3}
  MaxScrolls = 1
  Reflows <- MCReflows
INVARIANTS RowsAreTheirOwn
PROPERTY ImplementsScreen
