SPECIFICATION Spec
CONSTANTS
    MAX_TASKS = 2
    MAX_ENDPOINTS = 1
    Clients = {0}
    Servers = {1}
    MaxSends = 3
    MaxDestroys = 0
INVARIANT
    NothingLost
