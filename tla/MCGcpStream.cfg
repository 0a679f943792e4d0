CONSTANTS
    g1 = g1
    g2 = g2
    o1 = o1
    b1 = b1
    n1 = n1
    c1 = c1
    c2 = c2
    None = None
    Messages = {g1, g2, o1, b1, n1}
    Kind <- MCKind
    Callbacks = {c1, c2}
    MaxRestarts = 1
SPECIFICATION FairSpec
INVARIANTS TypeOK AckAfterHandOff OneLossPerCrash ClientClosedOnce
PROPERTY GoodMessagesSettle
CHECK_DEADLOCK FALSE
