\* The future of get is dropped while it connects: the place is never given back.
CONSTANTS
    Callers = {p1, p2, p3}
    Conns = {c1, c2}
    NoConn = NoConn
    MaxSize = 2
    MinIdle = 0
    Cancels = TRUE
    ClientCloses = FALSE
SPECIFICATION Spec
PROPERTIES
    ExhaustedOnlyWhenFull
CHECK_DEADLOCK FALSE
