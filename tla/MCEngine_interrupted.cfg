SPECIFICATION Spec
CONSTANTS
    a = a
    b = b
    Features <- TwoFeatures
    DependsOn <- BAfterA
    RowLists <- SortedLists
    StartStatuses = {"pending"}
    MaxRetries = 1
    Timeouts = {TRUE}
    KeyKinds = {"pause", "resume", "terminate", "quit"}
    MaxPresses = 1
    MaxLimits = 1
    MaxFaults = 0
INVARIANTS
    InterruptedRunIsPersisted
