SPECIFICATION FairSpec
CONSTANTS
    i1 = i1
    i2 = i2
    i3 = i3
    key = key
    s1 = s1
    s2 = s2
    caller = caller
    Instance <- ThreeInstances
    Key <- OneKey
    KeyOf <- SameKey
    Sweeper <- OneSweeper
    Caller <- NoCaller
    DefaultAge = "finite"
    MaxInstances = 2
    MaxEvents = 2
    MaxSteps = 3
    MaxNotes = 0
    MaxFailures = 0
PROPERTIES
    DueIsRetired
CHECK_DEADLOCK FALSE
