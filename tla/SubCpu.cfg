CONSTANTS
    N = 4
    DELAY = 2
    RETRY = 1
SPECIFICATION FairSpec
INVARIANTS CountsNoGhost LaunchedByKernel
PROPERTIES BringupReturns
