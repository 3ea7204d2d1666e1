SPECIFICATION Spec
CONSTANTS
    MAX_TASKS = 2
    CPUs = {0, 1}
    Startable = {1}
    BootTasks = 2
    FRAME_TICKS = 3
PROPERTY
    NoOtherCpuPicksIt
