SPECIFICATION Spec
CONSTANT MaxJobs = 2
PROPERTY PromptAlwaysReturns
CHECK_DEADLOCK FALSE
