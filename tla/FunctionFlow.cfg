SPECIFICATION Spec
CONSTANT Setups <- AllSetups
INVARIANTS SameNodes WrittenOnce CyclesOnly
CHECK_DEADLOCK FALSE
