SPECIFICATION Spec
CONSTANTS
  None = None
  Scripts = {a, b, c}
  MaxParsers = 9
  Worlds <- CircleOfMentions
SYMMETRY Renamings
INVARIANTS
  BuiltAnswer
CHECK_DEADLOCK FALSE
