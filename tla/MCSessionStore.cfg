SPECIFICATION Spec
CONSTANTS
    NoTurn = NoTurn
    NoID = NoID
    Sessions = {s1}
    Records <- MCRecords
    Inputs <- OneInput
    MaxTurns = 2
    MaxLines = 6
    MaxFaults = 2
INVARIANTS
    AcknowledgedIsDurable
    AlwaysDecodes
    CacheAgrees
    ResumeIsComplete
PROPERTIES
    HistoryOnlyGrows
CHECK_DEADLOCK FALSE
