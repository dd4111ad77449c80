SPECIFICATION Spec
CONSTANTS
    Process = Process
    NoFlow = NoFlow
    CatchAll = CatchAll
    Unresolved = Unresolved
    Absent = Absent
    Draft <- MCDraft
    Revision <- MCRevision
    MaxRevisions = 2
    Covered <- MCCovered
    MaxFires = 2
INVARIANTS
    AcceptedGraphsFit
    AcceptedModelsRun
    JoinsAreFed
    SurprisesAreWarned
    DeliveriesAreUnambiguous
CHECK_DEADLOCK FALSE
