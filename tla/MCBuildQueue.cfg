CONSTANTS
    Users = {u1, u2}
    NBuilds = 3
    Handlers = {h1, h2}
    Limits = {1, 2}
    None = None
    Env = {"cancel", "cancel_pending", "delete", "collaborator", "subscribe", "lapse", "transfer"}
    MaxEnqueued = 2
SPECIFICATION Spec
CONSTRAINT EnqueuedBound
SYMMETRY Symmetry
INVARIANTS
    PendingHasStarter
    CapRespected
    NoStranded
PROPERTIES
    PromotionIsFifo
CHECK_DEADLOCK FALSE
