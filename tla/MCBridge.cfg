CONSTANTS
    root = root
    d1 = d1
    d2 = d2
    s1 = s1
    s2 = s2
    None = None
    Tabs = {1, 2}
    Root = root
    DivisionKeys <- MCDivisionKeys
    RecordKeys <- MCRecordKeys
    Initial <- MCInitial
    Names = {"root", "x", "y", "f"}
    Typed = {"w"}
    Titles = {"T1", "T2"}
    MaxTx = 3
    Env = {"offline", "answer_lost"}
SPECIFICATION Spec
INVARIANTS
    StoreIsDoc
    Consistent
    TypedIsKept
CHECK_DEADLOCK FALSE
