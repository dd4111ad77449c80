SPECIFICATION Spec
CONSTANTS
    Node <- MCNode
    Flow <- MCFlow
    Kind <- MCKind
    Outgoing <- MCOutgoing
    Target <- MCTarget
    BodyStart <- MCBodyStart
    Boundaries <- MCBoundaries
    ErrorBoundaries <- MCErrorBoundaries
    Interrupting <- MCInterrupting
    Code <- MCCode
    Message <- MCMessage
    Reads <- MCReads
    Repeats <- MCRepeats
    Result <- MCResult
    Condition <- MCCondition
    Default <- MCDefault
    Name <- MCName
    Value <- MCValue
    Key <- MCKey
    Deadline <- MCDeadline
    ProcessStart = "start"
    Literal = Literal
    NoCode = NoCode
    NoKey = NoKey
    NoFlow = NoFlow
    MaxToken = 6
    MaxScope = 1
    MaxIncident = 2
INVARIANTS
    WorkEndsWithItsToken
    EveryWaitCanEnd
    NoAmbiguousSubscription
    JoinsStillFed
    NoStepErrors
CHECK_DEADLOCK FALSE
