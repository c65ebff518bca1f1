SPECIFICATION Spec
CONSTANTS
    n = 5
    parent <- MCparent
INVARIANTS
    SumsComplete
    NoCallAfterDestroy
    NobodyLeftBehind
PROPERTY Termination
CHECK_DEADLOCK FALSE
