SPECIFICATION Spec
CONSTANTS
    Ops = {"print", "alloc", "serve"}
    MaxTicks = 5
INVARIANT IrqNeverSpins
CHECK_DEADLOCK FALSE
