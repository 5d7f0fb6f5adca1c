CONSTANTS
    MaxRequests = 2
    MaxNest = 2
    MaxPlots = 1
    Interactive = TRUE
    InputLine <- MCInputLine
    Evaluated <- MCEvaluated
    MaxWritten = 2
    Socket = {s}
    Peer = {w}
    MaxSends = 1
    MaxPosts = 2
    MaxSystem = 4
    ReplFile = {f}
    MaxActs = 3
    f = f
    g = g
    u = u
    File = {f, g, u}
    FirstTabs <- MCFirstTabs
    DataFile = data
    MaxObjects = 8
    MaxEdits = 1
    MaxFileRequests = 2
    MaxStray = 1
SPECIFICATION Spec
INVARIANT
    ViewShowsActiveFile
CHECK_DEADLOCK FALSE
