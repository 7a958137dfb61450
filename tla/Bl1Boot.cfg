CONSTANTS
    GENERATIONS = 3
    RESETS = 3
SPECIFICATION FairSpec
INVARIANTS WarmMemoryTrue NoResumeLoop CleanSuspendResumes
PROPERTIES RecordUsedOnce HandsOver
CHECK_DEADLOCK FALSE
