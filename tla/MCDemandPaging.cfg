SPECIFICATION Spec
CONSTANTS
    K = 2
    M = 3
    F = 2
    IntMax = 7
INVARIANTS
    TablesAgree
    EndedHoldsNothing
PROPERTIES
    LocalLRU
CHECK_DEADLOCK FALSE
