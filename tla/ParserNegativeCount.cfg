\* The server announces a negative number of columns, or of result infos.
CONSTANTS
    UsizeTop = 1000000000
    Inputs <- NegativeCounts
SPECIFICATION Spec
INVARIANTS
    NoPanic
CHECK_DEADLOCK FALSE
