SPECIFICATION Spec
CONSTANTS
    i1 = i1
    i2 = i2
    i3 = i3
    key = key
    s1 = s1
    s2 = s2
    caller = caller
    Instance <- OneInstance
    Key <- OneKey
    KeyOf <- SameKey
    Sweeper <- OneSweeper
    Caller <- OneCaller
    DefaultAge = "finite"
    MaxInstances = 1
    MaxEvents = 3
    MaxSteps = 2
    MaxNotes = 0
    MaxFailures = 0
INVARIANTS
    LatestIsWhole
CHECK_DEADLOCK FALSE
