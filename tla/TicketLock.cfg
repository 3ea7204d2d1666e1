SPECIFICATION FairSpec
CONSTANTS
    CPUs = {0, 1, 2}
    HandlerCPUs = {0}
    TicketModulus = 4
INVARIANTS
    MutualExclusion
    NoSelfDeadlock
PROPERTIES
    FairFifo
    TicketServed
