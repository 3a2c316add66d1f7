CONSTANTS
    Tabs = {t1, t2}
    Jobs = {j}
    Original = Original
    MaxEdits = 2
    MaxFaults = 1
    Env = {"drop", "record_failure", "timeout", "deploy", "reset", "seed_lost"}
SPECIFICATION FairSpec
INVARIANTS
    SeededOnce
    SavedIsInRows
    Consistent
PROPERTIES
    Converges
    ImplementsSharedDocument
CHECK_DEADLOCK FALSE
