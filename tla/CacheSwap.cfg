SPECIFICATION Spec
CONSTANTS
  None = None
  Scripts = {a, b, c}
  MaxParsers = 9
  Worlds <- TwoEdits
SYMMETRY Renamings
INVARIANTS
  BasesEnd
CHECK_DEADLOCK FALSE
