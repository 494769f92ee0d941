SPECIFICATION Spec
CONSTANTS
    HALF = 64
    STUBS = 100
    STUB_SIZE = 16
    Lines = {0, 1, 9}
    Exceptions = {3, 14}
    Waits = {2, 4}
    TICKS = 3
    PIT_FREQUENCY = 1
    SECOND = 1
    MAX_CALLS = 3
INVARIANTS
    TypeOK
    FramesTrue
    ControllersInStep
PROPERTIES
    RequestsServed
    WaitsLongEnough
    WaitEnds
