SPECIFICATION Spec
CONSTANTS
    Capacity = 2
    MaxCommands = 7
INVARIANTS
    OneCommander
PROPERTIES
    ImplementsLog
    ExitEndsAll
CHECK_DEADLOCK FALSE
