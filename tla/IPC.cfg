SPECIFICATION RpcSpec
CONSTANTS
    MAX_TASKS = 3
    MAX_ENDPOINTS = 2
    Clients = {0}
    Servers = {2}
    MaxSends = 3
    MaxDestroys = 1
INVARIANTS
    NothingLost
    InOrderOnce
    NobodyForgotten
PROPERTIES
    CallAnswered
