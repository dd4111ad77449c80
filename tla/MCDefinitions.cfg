SPECIFICATION SpecAll
CONSTANTS
    v1 = v1
    v2 = v2
    i1 = i1
    d1 = d1
    p1 = p1
    p2 = p2
    a = a
    b = b
    NoVersion = NoVersion
    NoBundle = NoBundle
    Version <- MCVersion
    Instance <- MCInstance
    RunsOn <- OnFirst
    Deleter <- MCDeleter
    Content <- MCContent
    BindsTopic <- MCBindsTopic
    DeclaresIndex <- MCBindsTopic
    Process <- MCProcess
    Operated <- MCOperated
    MaxDeploys = 2
    MaxFaults = 1
INVARIANTS
    RowsHaveTheirModel
    EarlierRecordsBlock
    NumbersAreUnique
    DeployedIsIndexed
    TopicsAreGuarded
PROPERTIES
    PolicyOutlivesVersions
CHECK_DEADLOCK FALSE
