SPECIFICATION SysSpec
CONSTANTS
    K = 2
    M = 2
    F = 2
    IntMax = 2147483647
    RefString <- OnePageRefs
INVARIANTS
    PrintedIsLegal
CHECK_DEADLOCK FALSE
