CONSTANTS
    HEADER = 2
    SIZES = {1, 2}
    DESC = 4
    HIGH_MAX_PKT_SIZE_EP0 = 5
    FULL_MAX_PKT_SIZE_EP0 = 2
    NPTX_FIFO_SIZE = 20
    WANTS = {3, 5}
    REQUESTS = 2
    SESSIONS = 1
SPECIFICATION FairSpec
PROPERTY Downloads
CHECK_DEADLOCK FALSE
