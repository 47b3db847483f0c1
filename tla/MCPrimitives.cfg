SPECIFICATION Spec
CONSTANTS
    r1 = r1  r2 = r2
    a = a  b = b  d = d
CONSTRAINT InScenario
INVARIANTS
    ReportedIsTrue
PROPERTIES
    PrimitivesEnd
CHECK_DEADLOCK FALSE
