SPECIFICATION Spec
CONSTANTS
    MAX_PAGES = 8
    KernelPages = 2
    MAX_TASKS = 2
    StackPages = 2
    ASID_MAX = 3
    FanOut = 2
    Vaddrs = {0, 2, 8, 12}
    Frames = {7}
    PageUnits = 2
    Sizes = {1, 2}
    ClientSizes = {2}
    MaxClients = 1
    MaxObjects = 2
    KfreeSmall = FALSE
INVARIANTS
    Exclusive
    BitmapExact
PROPERTIES
    MapIsLocal
