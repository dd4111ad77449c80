SPECIFICATION FairSpec
CONSTANTS
    i1 = i1
    p1 = p1
    s1 = s1
    c1 = c1
    Instance <- OneInstance
    Scheduler <- OneScheduler
    Sender <- OneSender
    Caller <- OneCaller
    KeyOf <- SameKey
    Kinds <- DurationCycleMessage
    Length = 2
    Period = 2
    Anchors <- EvenAnchor
    Fires = 2
    Date = 1
    Poll = 2
    SkipBase = 1
    SkipMax = 1
    FailBase = 2
    FailMax = 4
    Forget = 1
    MaxTime = 4
    MaxWork = 1
    MaxArms = 2
    MaxFaults = 1
INVARIANTS
    WokenInTime
    OutagesAreNotCounted
PROPERTIES
    NeverFiresEarly
    CyclesKeepTheirGrid
    MessagesFollowTheWait
    DueIsFired
CHECK_DEADLOCK FALSE
