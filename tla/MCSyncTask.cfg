CONSTANTS
    MaxTasks = 4
    MaxDepth = 3
    Small = {line}
    Large = {blob}
    Unencodable = {function}
    NODE = FALSE
    None = None
SPECIFICATION Spec
INVARIANTS
    TypeOK
    WokenTaskKnown
    SlotFreeToSignal
    WriterOwnsBuffer
    ResponseFitsBuffer
PROPERTIES
    EveryCallEnds
    ImplementsBlockingCall
CHECK_DEADLOCK FALSE
