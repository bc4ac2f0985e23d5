\* A viewer that comes and goes while two events and a status line are written,
\* under the fairness of transactions, streams and the reaper.
SPECIFICATION FairSpec
CONSTANTS
    Viewers = {v1}
    MaxEvents = 2
    MaxLate = 1
    Refusals = FALSE
    CommitsFail = FALSE
INVARIANTS NeverBehind ViewsExact
PROPERTIES StreamsEnd
CHECK_DEADLOCK FALSE
