CONSTANTS
    Disks <- BootableDisks
    Flashes <- SignedFlashes
    BLOCK_LENGTH = 2
    INTERNAL_SRAM_SIZE = 16
    SECONDBOOT_STACK = 4
    FAULTS = {FALSE}
    MAX_RESETS = 0
SPECIFICATION FairSpec
CHECK_DEADLOCK FALSE
INVARIANTS StackReserved
