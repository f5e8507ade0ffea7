SPECIFICATION Spec
CONSTANTS
  States = {s1, s2, s3}
  Calls = {c1, c2}
  Scripts = {x1}
  Instances = {i1}
  Lineage <- MCLineage
  Signals = {timeout}
  MaxHeld = 1
  None = None
SYMMETRY Symmetry
INVARIANTS TypeOK Intact StackOwned OneCurrent NoLeak Awaited
PROPERTIES Implements
