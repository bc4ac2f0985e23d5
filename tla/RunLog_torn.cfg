\* A viewer reads lines whose commit then fails.
SPECIFICATION Spec
CONSTANTS
    Viewers = {v1}
    MaxEvents = 1
    MaxLate = 0
    Refusals = FALSE
    CommitsFail = TRUE
INVARIANT EveryLineSent
CHECK_DEADLOCK FALSE
