SPECIFICATION Spec
CONSTANTS
    Maps <- MCMaps
    HeapStart = 22
    HeapPages = 3
    Fan = 2
    Levels = 2
    PhysOffset = 16
    PfnSpace = 256
INVARIANT TypeOK
INVARIANT FramesDistinct
INVARIANT PanicsOnlyWhenExhausted
CHECK_DEADLOCK FALSE
