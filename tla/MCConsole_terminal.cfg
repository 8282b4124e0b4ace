SPECIFICATION FairSpec
CONSTANTS
    Rows <- ThreeRows
    Terminals = {TRUE, FALSE}
    Bytes = {"q", "x"}
    MaxKeys = 2
    MaxRetries = 1
INVARIANTS
    KeysConserved
    CleanScreen
    ScreenTellsRun
    FrameIsCurrent
PROPERTIES
    KeysGetThrough
    StopReturns
