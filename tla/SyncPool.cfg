\* Four callers compete for two places, one connection made up front; a third
\* identity lets a pool that opens one socket too many show it.
CONSTANTS
    Callers = {p1, p2, p3, p4}
    Conns = {c1, c2, c3}
    NoConn = NoConn
    MaxSize = 2
    MinIdle = 1
SPECIFICATION FairSpec
INVARIANTS
    TypeOK
    ActiveCountExact
    SocketBound
    ExclusiveOwnership
    SocketsAccounted
PROPERTIES
    ExhaustedOnlyWhenFull
    SocketsReleased
    ImplementsBoundedPool
CHECK_DEADLOCK FALSE
