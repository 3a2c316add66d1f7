CONSTANTS
    Users = {ann, bob, cy}
    Addresses = {a1, a2, a3}
    Founder = ann
    Requests = {r1, r2}
    MaxRequests = 6
    Pending = Pending
    None = None
SPECIFICATION Spec
SYMMETRY Symmetry
INVARIANTS
    Consistent
    DocumentNeedsSharing
CHECK_DEADLOCK FALSE
