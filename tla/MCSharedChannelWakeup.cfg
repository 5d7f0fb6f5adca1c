CONSTANTS
    Line = {l1}
    Request = {}
    Event = {e1}
    MaxInterrupts = 1
    MaxDepth = 3
    MaxCalls = 4
    None = None
SPECIFICATION Spec
PROPERTIES
    EventsNoticed
CHECK_DEADLOCK FALSE
