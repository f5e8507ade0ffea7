CONSTANTS
  Versions = {1, 2, 3}
  First = 1
  NoTree = NoTree
  NoRecord = NoRecord
CONSTANTS
  Editors = {e1, e2}
  StageIds = {s1, s2}
  Pinning = FALSE
  MaxFaults = 1
SPECIFICATION Spec
INVARIANT NoPartialPlugin
CHECK_DEADLOCK FALSE
