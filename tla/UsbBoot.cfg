CONSTANTS
    HEADER = 2
    SIZES = {1, 2}
    DESC = 4
    HIGH_MAX_PKT_SIZE_EP0 = 5
    FULL_MAX_PKT_SIZE_EP0 = 2
    NPTX_FIFO_SIZE = 40
    WANTS = {3, 5}
    REQUESTS = 1
    SESSIONS = 2
SPECIFICATION FairSpec
INVARIANTS BodyIsFile
PROPERTIES HeaderOfOneFile DescriptorWhole Downloads
CHECK_DEADLOCK FALSE
