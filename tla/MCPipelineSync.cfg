CONSTANTS
    Mode = "sync"
    Producers = {p1}
    Detached = {}
    Selecting = {p1}
    SyncSteps = 4
    StreamSteps = 1
    Extras = 2
    Catalog = TRUE
    Count <- MCCount
    Fate <- MCFate
    NumExtras <- MCNumExtras
SPECIFICATION FairSpec
INVARIANTS TypeOK ExtraAfterParent NoSilentLoss CleanSyncIsSettled
PROPERTIES ImplementsDelivery UncancelledReturns CancelledReturns
CHECK_DEADLOCK FALSE
