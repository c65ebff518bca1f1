SPECIFICATION Spec
CONSTANTS
    Thread = {t1, t2, t3, t4}
INVARIANTS
    TurnstilesSafe
PROPERTIES
    ImplementsRounds
    AllLeave
