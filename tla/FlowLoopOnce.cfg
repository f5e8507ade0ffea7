SPECIFICATION Spec
CONSTANT Setups <- Once
INVARIANTS SameNodes
CHECK_DEADLOCK FALSE
