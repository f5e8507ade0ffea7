SPECIFICATION Spec
CONSTANT Setups <- RandomEnds
INVARIANTS SameNodes
CHECK_DEADLOCK FALSE
