SPECIFICATION Spec
CONSTANTS
    CR = CR  LF = LF  x = x
    alice = alice  bob = bob  none = none
CONSTRAINT InScenario
INVARIANTS
    TrueToTheModel
    ToolsTellTruth
PROPERTIES
    AgentEnds
CHECK_DEADLOCK FALSE
