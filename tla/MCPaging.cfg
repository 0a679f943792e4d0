CONSTANTS
    Items <- MCItems
    Initial <- MCInitial
    PageSize = 2
    MaxChanges = 3
SPECIFICATION Spec
INVARIANTS TypeOK AtMostOneLossPerRemoval
CHECK_DEADLOCK FALSE
