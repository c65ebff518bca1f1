SPECIFICATION Spec
CONSTANTS
    Quota <- SmallQuota
    Files <- SmallFiles
INVARIANTS
    QueueInOrder
    LocksNeverCross
    OwnToken
    ServedInOrder
PROPERTIES
    KeepsHouse
    SessionEnds
