SPECIFICATION Spec
CONSTANTS
    m1 = m1  m2 = m2  h1 = h1  i1 = i1  s1 = s1  c1 = c1  c2 = c2
    NoTurn = 0
    NoID = NoID
    External = {m1, m2}
    HardStops = {h1}
    IdleStops = {i1}
    Settings = {s1}
    Calls = {c1, c2}
    OpsPerCall = {1, 2}
    MaxHeartbeats = 1
    MaxStarts = 2
    InitialLog <- NewSession
CONSTRAINT InScenario
INVARIANTS
    TypeOK
    RecoveryIsExact
    DispatchedIsCommitted
    StoreAccepts
    MessageRecordedOnce
    TranslatedBeforeReconcile
    PendingIsUnanswered
    RequestIsComplete
    ResponseAnswersLatestTurn
PROPERTIES
    HardStopIsFinal
    StopLeavesNothingRunning
CHECK_DEADLOCK FALSE
