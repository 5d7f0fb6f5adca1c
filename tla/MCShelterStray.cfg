CONSTANTS
    ShelterId = {s1, s2}
    Ptr = {p1, p2}
    Handle = {h1, h2, h3}
    MaxObjects = 3
    MaxRequests = 2
    MaxNest = 2
    MaxStrays = 1
    None = None
SYMMETRY Interchangeable
SPECIFICATION Spec
INVARIANTS
    NotDeletedWhileSheltered
CHECK_DEADLOCK FALSE
