SPECIFICATION Spec
CONSTANTS
    Rows <- ThreeRows
    Terminals = {TRUE}
    Bytes = {"q"}
    MaxKeys = 1
    MaxRetries = 0
INVARIANT TerminalRestored
