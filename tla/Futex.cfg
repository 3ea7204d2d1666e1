SPECIFICATION FutexSpec
CONSTANTS
    MAX_TASKS = 3
    WQ_POOL_SIZE = 3
    Queues = {0, 1, 2}
    TaskCPUs = {0}
    FUTEX_MAX = 1
    Addrs = {1, 2}
    Values = {0, 1}
    Timeouts = {1}
    Millis = {5, 20}
    Counts = {2}
INVARIANTS
    QueuesWellFormed
    WaiterFindable
    CheckAndBlockAtomic
    OnTime
