CONSTANTS
    s1 = s1
    s2 = s2
    hang = hang
    bad = bad
    d1 = d1
    d2 = d2
    NoInput = NoInput
    Inputs <- Typed
    Hangs <- Hanging
    Bad <- Refused
    NCalls = 3
    MaxEdits = 2
    MaxFaults = 1
    Watchdog = TRUE
    Env = {"load_failure", "worker_error", "upload_failure", "dispose", "no_engine"}
SPECIFICATION FairSpec
INVARIANTS
    NewestWins
    Consistent
    RestIsCurrent
PROPERTIES
    RenderSettles
CHECK_DEADLOCK FALSE
