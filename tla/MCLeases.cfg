SPECIFICATION FairSpec
CONSTANTS
    i1 = i1
    o1 = o1
    o2 = o2
    NoOwner = NoOwner
    Item <- MCItem
    Owner <- MCOwner
    BareVerbs <- MCBareVerbs
    Attempts = 2
    Ttl = 2
    Gap = 1
    MaxWait = 1
    MaxLease = 2
    MaxCalls = 2
PROPERTIES
    LiveLeaseIsRespected
    ReplayFreesNoLaterClaim
    ItemsAreSettled
    AbandonedComesBack
CHECK_DEADLOCK FALSE
