SPECIFICATION Spec
CONSTANTS
  None = None
  Scripts = {a, b, c}
  MaxParsers = 9
  Worlds <- AllWorlds
SYMMETRY Renamings
INVARIANTS
  CyclesRefused AnswersRight SeesFiles
CHECK_DEADLOCK FALSE
