CONSTANTS
    Disks <- AllDisks
    Flashes <- SignedFlashes
    BLOCK_LENGTH = 2
    INTERNAL_SRAM_SIZE = 16
    SECONDBOOT_STACK = 4
    FAULTS = {TRUE, FALSE}
    MAX_RESETS = 1
SPECIFICATION FairSpec
CHECK_DEADLOCK FALSE
INVARIANTS LaunchedWhole
PROPERTIES KeepsPromise EndsRight
