CONSTANTS
    MaxRequests = 3
    MaxNest = 1
    MaxPlots = 0
    Interactive = TRUE
SPECIFICATION EvalSpec
INVARIANTS
    ReferenceNotDeleted
CHECK_DEADLOCK FALSE
