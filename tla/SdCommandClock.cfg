CONSTANTS
    NX_SDMMC_TIMEOUT = 1
    FIFO_DEPTH = 1
    WORDS = 2
    MAX_CALLS = 3
SPECIFICATION FairSpec
CHECK_DEADLOCK FALSE
INVARIANTS ClockStopsIdle
