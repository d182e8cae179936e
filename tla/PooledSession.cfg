\* Two callers in turn, both kinds of client, two connections.
CONSTANTS
    Callers = {"a", "b"}
    DsnAutoCommit = FALSE
    MaxSessions = 2
    MaxCalls = 2
    MaxRequests = 3
    NonsenseHandles = {1}
    MaxSent = 5
    MaxRows = 1
    FetchSize = 1
    Timeouts = TRUE
    ServerErrors = TRUE
    Drops = TRUE
SPECIFICATION PFairSpec
VIEW SessionView
INVARIANTS
    OwnAnswers
    WorkOfHolder
    StatementsResolve
PROPERTIES
    UndisturbedCallsReturn
    SessionsEnd
CHECK_DEADLOCK FALSE
