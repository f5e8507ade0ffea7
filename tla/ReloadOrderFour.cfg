SPECIFICATION Spec
INVARIANT ParentsFirst
CONSTANTS
  Scripts = {a, b, c, d}
  NoBase = NoBase
CHECK_DEADLOCK FALSE
