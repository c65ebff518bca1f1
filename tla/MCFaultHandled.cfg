SPECIFICATION SysSpec
CONSTANTS
    K = 2
    M = 2
    F = 1
    IntMax = 2147483647
    RefString <- MixedRefs
INVARIANTS
    ScheduledWithPage
CHECK_DEADLOCK FALSE
