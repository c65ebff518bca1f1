SPECIFICATION MutexSpec
CONSTANTS
    Locker = {t1, t2, t3}
    Rogue = {t4}
    NoThread = NoThread
INVARIANTS
    LockExact
    OnlyHolderUnlocks
PROPERTIES
    Progress
CHECK_DEADLOCK FALSE
