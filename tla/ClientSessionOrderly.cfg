\* A server that answers, callers that close their Statements; results of up to
\* two batches more than the first.
CONSTANTS
    MaxCalls = 3
    MaxSent = 15
    MaxRows = 4
    FetchSize = 2
    Timeouts = FALSE
    ServerErrors = FALSE
    Drops = FALSE
SPECIFICATION FairSpec
INVARIANTS
    RowsComplete
PROPERTIES
    CallsReturn
    SessionEnds
CHECK_DEADLOCK FALSE
