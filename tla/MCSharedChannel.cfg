CONSTANTS
    Line = {l1}
    Request = {r1, r2}
    Event = {e1}
    MaxInterrupts = 1
    MaxDepth = 5
    MaxCalls = 6
    None = None
SPECIFICATION Spec
INVARIANTS
    TypeOK
    ConsumedInOrder
    RequestAccounted
    EventAccounted
    QuietReads
CHECK_DEADLOCK FALSE
