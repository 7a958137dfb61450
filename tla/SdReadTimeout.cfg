CONSTANTS
    BLOCK_LENGTH = 4
    NX_SDMMC_TIMEOUT = 2
    WORD = 16
    FIFO_DEPTH = 3
    RX_WMARK = 2
    LAG = TRUE
    Sectors = {1}
    MAX_READS = 1
SPECIFICATION FairSpec
CHECK_DEADLOCK FALSE
INVARIANTS FifoEmptyAfterData
