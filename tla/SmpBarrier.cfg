CONSTANTS
    NUM_HARTS = 4
    MAX_HARTS = 5
    NONSMP_HART = 0
SPECIFICATION SmpFairSpec
INVARIANTS Barrier NoStaleIpi
PROPERTIES WokenOnce AllStart
CHECK_DEADLOCK FALSE
