CONSTANTS
    Sources = {"github"}
    Shapes <- MCShapes
    Uncounted = TRUE
    MaxCalls = 2
    MaxPages = 4
SPECIFICATION Spec
INVARIANT FullSync
CHECK_DEADLOCK FALSE
