SPECIFICATION Spec
CONSTANTS
    N = 3
    Graphs <- Dags
INVARIANTS
    NotifiedByAll
CHECK_DEADLOCK FALSE
