CONSTANTS
    Mode = "sync"
    Producers = {p1}
    Detached = {}
    Selecting = {}
    SyncSteps = 2
    StreamSteps = 1
    Extras = 2
    Catalog = TRUE
    Count <- MCCount
    Fate <- MCFate
    NumExtras <- MCNumExtras
SPECIFICATION FairSpec
CHECK_DEADLOCK FALSE
PROPERTY CancelledReturns
