SPECIFICATION FairSpec
CONSTANTS
    MaxId = 3
    Afters = {0, 1}
    Grace = 4
    MaxFaults = 2
    MaxConnections = 3
INVARIANTS
    StreamIsInOrder
PROPERTIES
    ClosedStreamIsComplete
    EndedStreamCloses
    LineIsShown
