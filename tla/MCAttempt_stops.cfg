SPECIFICATION FairSpec
\* With a fallback provider an attempt may be stuck for good: see the run
\* MCAttempt_stuck.
CHECK_DEADLOCK FALSE
CONSTANTS
    Fallbacks = {TRUE, FALSE}
    Timeouts = {TRUE, FALSE}
    KeyKinds = {"pause", "resume", "terminate", "quit"}
    Leftovers = {"nobody", "group", "daemon"}
    MaxKeys = 3
INVARIANTS
    OneSubprocessAtATime
    NothingOutlivesAttempt
PROPERTIES
    ImplementsCall
    StoppedAttemptEnds
    DeadlineEndsAttempt
