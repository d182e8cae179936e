\* Safety: late answers, error answers, a broken stream, dropped Statements.
CONSTANTS
    MaxCalls = 3
    MaxSent = 12
    MaxRows = 2
    FetchSize = 1
    Timeouts = TRUE
    ServerErrors = TRUE
    Drops = TRUE
SPECIFICATION Spec
INVARIANTS
    TypeOK
    InStep
    OkMeansDone
    HandlesAccounted
    CasInfoEchoed
CHECK_DEADLOCK FALSE
