CONSTANTS
    Line = {l1}
    Request = {r1, r2}
    Event = {e1}
    MaxInterrupts = 0
    MaxDepth = 4
    MaxCalls = 5
    None = None
SPECIFICATION Spec
PROPERTIES
    RequestSettles
CHECK_DEADLOCK FALSE
