CONSTANTS
    Callers = {c1, c2}
    Endpoints = {e1, e2}
    None = None
    Override = None
    HasIssuer = TRUE
    Lifetimes = {0, 3, 5}
    RequestTimeout = 2
    AssertionLifetime = 5
    ExpiryDelta = 1
    MaxTime = 8
SPECIFICATION FairSpec
INVARIANTS TypeOK ReusedTokenIsLive AssertionIsFresh ExchangeOnlyWithVetted
PROPERTIES EveryCallReturns
