CONSTANTS
    r1 = r1
    r2 = r2
    p1 = p1
    Processes = {r1, r2}
    Partitions = {p1}
    Log <- MCLog
    BatchSize = 2
SPECIFICATION FairSpec
INVARIANTS TypeOK  
 
CHECK_DEADLOCK FALSE
