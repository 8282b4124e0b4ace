SPECIFICATION Spec
CONSTANTS
    BackoffInitial = 4
    BackoffMax = 12
    ResetBuffer = 1
    Day = 16
    Hours = {0, 9}
    Percents = {75, 100, 124}
    MaxDuration = 15
    MaxStrikes = 4
    MaxFaults = 2
INVARIANTS
    CooldownSurvivesRestarts
PROPERTIES
    CooldownRespected
    BackoffInRange
