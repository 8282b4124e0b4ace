SPECIFICATION FairSpec
CHECK_DEADLOCK FALSE
CONSTANTS
    Fallbacks = {TRUE}
    Timeouts = {TRUE}
    KeyKinds = {"pause", "resume", "terminate", "quit"}
    Leftovers = {"nobody"}
    MaxKeys = 1
PROPERTIES
    SignalEndsAttempt
