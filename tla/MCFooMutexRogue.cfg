SPECIFICATION MutexSpec
CONSTANTS
    Locker = {t1, t2}
    Rogue = {t1}
    NoThread = NoThread
INVARIANTS
    OnlyHolderUnlocks
CHECK_DEADLOCK FALSE
