CONSTANTS
    NX_SDMMC_TIMEOUT = 2
    FIFO_DEPTH = 1
    WORDS = 2
    MAX_CALLS = 3
SPECIFICATION FairSpec
CHECK_DEADLOCK FALSE
INVARIANTS OwnAnswer
PROPERTIES CallReturns KeepsCommandPromise
