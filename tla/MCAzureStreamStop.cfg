CONSTANTS
    r1 = r1
    r2 = r2
    p1 = p1
    Processes = {r1}
    Partitions = {p1}
    Log <- StopLog
    BatchSize = 2
SPECIFICATION Spec
INVARIANT NoPanic
CHECK_DEADLOCK FALSE
