SPECIFICATION Spec
CONSTANT Setups <- Breaks
INVARIANTS CyclesOnly
CHECK_DEADLOCK FALSE
