CONSTANTS
    CS_NUM = 2
    RTT_NOM = 3
    ATTEMPTS = 3
    RESETS = 2
    POLLS = 2
    CYCLES = 2
SPECIFICATION Spec
INVARIANT AsleepUntilExit
CHECK_DEADLOCK FALSE
