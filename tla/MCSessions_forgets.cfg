SPECIFICATION SessionsSpec
CONSTANTS
    a = a
    b = b
    Features <- TwoFeatures
    DependsOn <- BAfterA
    SpecRows <- SpecOrder
    Options <- MaxOptions
    Disturbed = {"upserting"}
    MaxLaunches = 3
    RowLists <- NoLists
    StartStatuses = {}
    MaxRetries = 0
    Timeouts = {FALSE}
    KeyKinds = {}
    MaxPresses = 0
    MaxLimits = 0
    MaxFaults = 0
PROPERTIES
    CompletedNeverReimplemented
