SPECIFICATION FairSpec
CONSTANTS
    MAX_TASKS = 4
    CPUs = {0, 1}
    Startable = {}
    BootTasks = 3
    FRAME_TICKS = 3
INVARIANTS
    RunningIffCurrent
    ResumesWhereItLeft
    OwnAddressSpace
    HaltsOnlyWhenDone
PROPERTIES
    ReadyRuns
    EndsHalted
