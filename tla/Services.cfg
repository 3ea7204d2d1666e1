SPECIFICATION Spec
CONSTANTS
    CAP_POOL_SIZE = 2
    MAX_PLATFORM_DEVICES = 2
    MAX_PLATFORM_DRIVERS = 2
    CPUs = {0, 1}
    SPIs = {48}
    MaxIpis = 1
    Boards <- MCBoards
INVARIANTS
    IrqHandled
    ProbedOnce
    CapsExact
PROPERTIES
    TimerKeepsTicking
