SPECIFICATION Spec
CONSTANTS
    NoTurn = NoTurn
    NoID = NoID
    Sessions = {s1, s2}
    Records <- MCRecords
    Inputs <- NoInputs
    MaxTurns = 1
    MaxLines = 5
    MaxFaults = 1
INVARIANTS
    ForkIsSound
CHECK_DEADLOCK FALSE
