SPECIFICATION Spec
CONSTANT Setups <- Ends
INVARIANTS SameNodes
CHECK_DEADLOCK FALSE
