CONSTANTS
    MaxTasks = 3
    MaxDepth = 3
    Small = {line}
    Large = {blob}
    Unencodable = {}
    NODE = TRUE
    None = None
SPECIFICATION Spec
PROPERTIES
    EveryCallEnds
CHECK_DEADLOCK FALSE
