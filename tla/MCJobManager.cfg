SPECIFICATION Spec
CONSTANT MaxJobs = 4
INVARIANT TableTruthful
PROPERTIES
    OthersUntouched
    PromptReturns
CHECK_DEADLOCK FALSE
