CONSTANTS
    r1 = r1
    r2 = r2
    None = None
    Sources = {"github", "gitlab", "bitbucket", "nexus", "sysdig", "devops", "console"}
    Requests = {r1, r2}
    OddRequests = {r2}
    MaxClock = 2
SPECIFICATION FairSpec
INVARIANTS TypeOK OwnAndVerified SourceTimeIsSafe
PROPERTY AcceptedLands
CHECK_DEADLOCK FALSE
