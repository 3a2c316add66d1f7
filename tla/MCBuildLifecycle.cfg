CONSTANTS
    Jobs = {j1}
    Hooks = {h1, h2}
    Checks = {c1}
    Imports = {i1, i2}
    NFiles = 2
    NoJob = NoJob
    NoImport = NoImport
    Env = {"crash", "no_status_url", "lost_cancel_answer", "truncated_log"}
SPECIFICATION FairSpec
INVARIANTS
    SuccessIsComplete
    NoMixedOutput
PROPERTIES
    ImplementsPublishedOutput
    InFlightResolves
CHECK_DEADLOCK FALSE
