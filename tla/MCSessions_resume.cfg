SPECIFICATION InsertingSpec
CONSTANTS
    a = a
    b = b
    Features <- TwoFeatures
    DependsOn <- BAfterA
    SpecRows <- SpecOrder
    Options <- FullOptions
    Disturbed = {"planned", "engine"}
    MaxLaunches = 3
    RowLists <- NoLists
    StartStatuses = {}
    MaxRetries = 1
    Timeouts = {FALSE}
    KeyKinds = {}
    MaxPresses = 0
    MaxLimits = 0
    MaxFaults = 2
INVARIANTS
    CompletedRunLeavesNothingInProgress
PROPERTIES
    CompletedNeverReimplemented
