CONSTANTS
    Mode = "stream"
    Producers = {p1, p2}
    Detached = {p2}
    Selecting = {}
    SyncSteps = 1
    StreamSteps = 2
    Extras = 1
    Catalog = FALSE
    Count <- MCCount
    Fate <- MCFate
    NumExtras <- MCNumExtras
SPECIFICATION FairSpec
INVARIANTS OnceInOrder
PROPERTIES ReturnIsFinal EverySendIsReceived
CHECK_DEADLOCK FALSE
