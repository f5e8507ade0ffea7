SPECIFICATION Spec
CONSTANT Setups <- Body
INVARIANTS SameNodes
CHECK_DEADLOCK FALSE
