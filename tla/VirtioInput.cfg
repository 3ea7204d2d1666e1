SPECIFICATION Spec
CONSTANTS
    VIRTQ_SIZE = 2
    IndexModulus = 4
    VIRTIO_MAX_DEVS = 2
    KEY_RING_SIZE = 3
    Machines <- MCMachines
    KbdEvents <- MCKbdEvents
    TabletEvents <- MCTabletEvents
    UartChars = {"ESC", "[", "A"}
INVARIANTS
    BuffersConserved
    EventsIntact
    RingIsFifo
