CONSTANTS
    Radix = 4
    MaxPn = 20
    MaxRecv = 3
    MaxAcks = 3
SPECIFICATION Spec
INVARIANTS
    TypeOK
    LargestIsMax
    DecodesExactlyWithinWindow
    LongDecodesExactly
    AckExactIffContiguous
CHECK_DEADLOCK FALSE
