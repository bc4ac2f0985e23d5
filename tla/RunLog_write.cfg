\* Three events over repeated and late calls, refused batches and failing commits.
SPECIFICATION Spec
CONSTANTS
    Viewers = {}
    MaxEvents = 3
    MaxLate = 2
    Refusals = TRUE
    CommitsFail = TRUE
INVARIANTS TypeOK LogExact
PROPERTIES CommittedNeverChanges
CHECK_DEADLOCK FALSE
