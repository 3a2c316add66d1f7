CONSTANTS
    Divisions = {chapter, sheet}
    Texts = {t1, t2, bad}
    Broken = {bad}
    Pages = {intro, body}
    Top = intro
    Unnarrowed = {sheet}
    Worksheets = {sheet}
    Whole = Whole
    None = None
    MaxChanges = 3
    Env = {"no_worker", "worker_error", "render_failure"}
SPECIFICATION FairSpec
INVARIANTS
    Consistent
    RestIsCurrent
PROPERTIES
    RebuildSettles
CHECK_DEADLOCK FALSE
