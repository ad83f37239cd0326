SPECIFICATION Spec
CONSTANTS
    Ops = {"print", "alloc", "serve", "https"}
    MaxTicks = 4
INVARIANTS HandlerGoesOn TimeMovesForward
PROPERTIES PanicIsReported FaultIsReported
CHECK_DEADLOCK FALSE
