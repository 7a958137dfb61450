CONSTANTS
    BITS = 2
    DEV <- Dev
    BYTES <- Bytes
    LENGTHS = {1, 2}
    STRETCHING_TIMEOUT = 1
    CALLS = 2
SPECIFICATION I2cFairSpec
INVARIANTS TransferFaithful
PROPERTIES NoStrayCondition FailsForAReason CallReturns
CHECK_DEADLOCK FALSE
