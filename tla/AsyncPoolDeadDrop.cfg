\* A holder closes its client, then drops it: the place is never given back.
CONSTANTS
    Callers = {p1, p2, p3}
    Conns = {c1, c2}
    NoConn = NoConn
    MaxSize = 2
    MinIdle = 0
    Cancels = FALSE
    ClientCloses = TRUE
SPECIFICATION Spec
INVARIANTS
    ActiveCountIsCheckedOut
CHECK_DEADLOCK FALSE
