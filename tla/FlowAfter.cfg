SPECIFICATION Spec
CONSTANT Setups <- After
INVARIANTS NoneUnreachable
CHECK_DEADLOCK FALSE
