SPECIFICATION Spec
CONSTANTS
    Keys = {k1, k2, k3}
    OtherClients = TRUE
INVARIANTS
    TypeOK
    ResultTellsWrites
PROPERTIES
    ReplacesOnlyNewcomers
CHECK_DEADLOCK FALSE
