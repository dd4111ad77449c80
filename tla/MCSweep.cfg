SPECIFICATION FairSpec
CONSTANTS
    i1 = i1
    i2 = i2
    i3 = i3
    key = key
    s1 = s1
    s2 = s2
    caller = caller
    Instance <- OneInstance
    Key <- OneKey
    KeyOf <- SameKey
    Sweeper <- TwoSweepers
    Caller <- OneCaller
    DefaultAge = "finite"
    MaxInstances = 1
    MaxEvents = 3
    MaxSteps = 2
    MaxNotes = 1
    MaxFailures = 1
INVARIANTS
    SweptWasDelivered
    ErasedAsDelivered
    OneSweepPerLease
PROPERTIES
    DeletesAsAllowed
    DueIsRetired
CHECK_DEADLOCK FALSE
