CONSTANTS
    BLOCK_LENGTH = 4
    NX_SDMMC_TIMEOUT = 2
    WORD = 16
    FIFO_DEPTH = 4
    RX_WMARK = 2
    LAG = FALSE
    Sectors = {0, 1, 2}
    MAX_READS = 3
SPECIFICATION FairSpec
CHECK_DEADLOCK FALSE
INVARIANTS InOrder CleanBeforeRead
PROPERTIES EarlyErrorFails ReadReturns
