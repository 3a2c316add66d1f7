CONSTANTS
    Root = root
    Others = {b}
    Records = {s}
    Gone = Gone
    MaxEdits = 2
    MaxFaults = 1
    MaxRequests = 2
    Env = {"deploy", "answer_lost"}
SPECIFICATION FairSpec
INVARIANTS
    NothingIsLost
    Consistent
PROPERTIES
    SavesSettle
CHECK_DEADLOCK FALSE
