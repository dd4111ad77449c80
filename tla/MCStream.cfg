SPECIFICATION FairSpec
CONSTANTS
    c1 = c1
    c2 = c2
    i1 = i1
    i2 = i2
    Client <- MCClient
    Instance <- MCInstance
    MaxXid = 4
    MaxId = 3
INVARIANTS
    NothingMissed
PROPERTIES
    NothingBehindAPage
    IdsFollowSteps
    CommittedIsRead
CHECK_DEADLOCK FALSE
