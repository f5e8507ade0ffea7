CONSTANTS
  Versions = {1, 2, 3}
  First = 1
  NoTree = NoTree
  NoRecord = NoRecord
CONSTANTS
  Editors = {e1, e2}
  StageIds = {s1, s2}
  Pinning = TRUE
  MaxFaults = 2
SPECIFICATION FairSpec
INVARIANTS IntactCopy NoPartialPlugin IntactSomewhere NoOrphanBackup OneSwap
PROPERTIES Atomic BackupSpent PendingResolved
CHECK_DEADLOCK FALSE
