\* Three callers compete for two places; futures are dropped at any await, and
\* clients closed by their holders.
CONSTANTS
    Callers = {p1, p2, p3}
    Conns = {c1, c2, c3}
    NoConn = NoConn
    MaxSize = 2
    MinIdle = 1
    Cancels = TRUE
    ClientCloses = TRUE
SPECIFICATION FairSpec
INVARIANTS
    TypeOK
    ActiveCountExplained
    SocketBound
    ExclusiveOwnership
    SocketsAccounted
PROPERTIES
    ExhaustedExplained
    SocketsReleased
    ImplementsBoundedPool
CHECK_DEADLOCK FALSE
