CONSTANTS
    Schedule <- RecheckSchedule
    StallAfter = 12
    MaxTime = 20
    RecheckEnv = {"death", "slow_download"}
SPECIFICATION RecheckSpec
INVARIANTS
    EarlyDeathIsNoticed
PROPERTIES
    LivingImportIsSpared
CHECK_DEADLOCK FALSE
