CONSTANTS
    Sources = {"github", "gitlab", "bitbucket", "nexus", "sysdig", "azure", "devops", "gcp",
               "console"}
    Shapes <- MCShapes
    Uncounted = TRUE
    MaxCalls = 2
    MaxPages = 4
SPECIFICATION FairSpec
INVARIANTS TypeOK OutcomeIsHonest ParentFirstOnce
PROPERTY EverySyncReturns
CHECK_DEADLOCK FALSE
