SPECIFICATION FairSpec
CONSTANTS
    a = a
    b = b
    Features <- TwoFeatures
    DependsOn <- BAfterA
    RowLists <- SortedLists
    StartStatuses = {"failed", "implemented"}
    MaxRetries = 1
    Timeouts = {TRUE, FALSE}
    KeyKinds = {"pause", "resume", "terminate", "quit"}
    MaxPresses = 2
    MaxLimits = 1
    MaxFaults = 1
INVARIANTS
    DependenciesFirst
    FailedOnlyAfterRetries
    NoOrphanProvider
    CompletedRunIsSettled
    LossIsBounded
    SummaryMatchesTable
    UntriedOnlyIfBlocked
PROPERTIES
    NothingStartsAfterQuit
    ImplementsLifecycle
    RunEnds
    SignalEndsRun
