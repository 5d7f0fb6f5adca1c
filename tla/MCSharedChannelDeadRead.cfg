CONSTANTS
    Line = {l1}
    Request = {r1}
    Event = {}
    MaxInterrupts = 1
    MaxDepth = 3
    MaxCalls = 4
    None = None
SPECIFICATION Spec
INVARIANTS
    IdleReadIsLive
CHECK_DEADLOCK FALSE
