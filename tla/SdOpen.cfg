CONSTANTS
    Kinds = {"none", "SDv1", "SDv2", "SDHC", "MMC", "MMCHC"}
    NX_SDMMC_TIMEOUT_IDENTIFY = 3
    FAULTS = {TRUE, FALSE}
SPECIFICATION FairSpec
CHECK_DEADLOCK FALSE
INVARIANTS OpenedReady AddressingAgrees WidthAgreesClean FailsForAReason
PROPERTIES OpenReturns
