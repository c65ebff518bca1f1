SPECIFICATION Spec
CONSTANTS
    N = 4
    Graphs <- Dags
INVARIANTS
    TokenExact
    TopologicalOrder
    OrderlyEnd
PROPERTIES
    ListsInOrder
    Termination
CHECK_DEADLOCK FALSE
