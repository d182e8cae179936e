\* Packets of every kind and every column type, every prefix of five of them, and
\* those five with any byte replaced by 0, 1, 128 or 255.
CONSTANTS
    UsizeTop = 1000000000
    Inputs <- Packets
SPECIFICATION Spec
INVARIANTS
    TypeOK
    RowsMatchHeader
    RoundTrip
    CutNoticed
CHECK_DEADLOCK FALSE
