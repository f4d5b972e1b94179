SPECIFICATION Spec
CONSTANTS
  Sessions = {s1, s2}
  Limit = 6
INVARIANTS
  MastersArePrivate
  ShellHasItsTerminal
