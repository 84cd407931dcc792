SPECIFICATION Spec
CONSTANTS
    Iterations = 4
    HeapSize = 2
    Values = {6, 7, 9}
    MaxBoxes = 2
    MaxCalls = 4
INVARIANTS
    TypeOK
    OnlyFailuresLeak
PROPERTIES
    WholeLoopOrNothing
CHECK_DEADLOCK FALSE
