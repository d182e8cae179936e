\* The cleanup of a statement times out and says nothing; commit reads its answer.
CONSTANTS
    MaxCalls = 2
    MaxSent = 4
    MaxRows = 0
    FetchSize = 1
    Timeouts = TRUE
    ServerErrors = TRUE
    Drops = FALSE
SPECIFICATION Spec
INVARIANTS
    CommitMeansCommitted
CHECK_DEADLOCK FALSE
