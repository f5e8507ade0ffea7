SPECIFICATION Spec
CONSTANT Setups <- OwnLoop
INVARIANTS SameNodes
CHECK_DEADLOCK FALSE
