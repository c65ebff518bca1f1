SPECIFICATION SysSpec
CONSTANTS
    K = 2
    M = 2
    F = 2
    IntMax = 2147483647
    RefString <- ShortRefs
INVARIANTS
    MessagesInStep
    OneTurn
    GrantIsCurrent
    CleanShutdown
PROPERTIES
    RetryFinds
    Termination
    FirstComeFirstServed
CHECK_DEADLOCK FALSE
