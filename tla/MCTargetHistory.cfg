CONSTANTS
    NBuilds = 3
    Flagged = {2, 3}
    Procs = {p1, p2}
    KeptSuccesses = 1
    None = None
    Env = {"delete", "prune_error"}
SPECIFICATION Spec
SYMMETRY Symmetry
INVARIANTS
    ServedIsReviewed
    StorageBounded
    PointersSettle
PROPERTIES
    PruneSpares
CHECK_DEADLOCK FALSE
