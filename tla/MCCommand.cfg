CONSTANTS
    Types = {"repo", "other"}
    Keys = {"a", "b"}
    Versions = {1, 2}
    Identifiers <- MCIdentifiers
    MaxEvents = 4
    PathLists <- MCPathLists
SPECIFICATION Spec
INVARIANTS TypeOK AuthAsConfigured  NoOrphans
PROPERTY StoreFollowsEvents
CHECK_DEADLOCK FALSE
