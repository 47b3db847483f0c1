SPECIFICATION FairSpec
CONSTANTS
    Callers = {caller1, caller2}
    Inputs <- MCInputs
    Invalid <- MCInvalid
    SeenIDs <- MCSeenIDs
INVARIANTS
    AcknowledgedOnce
    SeenExact
PROPERTIES
    ImplementsFIFO
    NothingIsStuck
