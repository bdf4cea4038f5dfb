SPECIFICATION Spec
CONSTANTS
    Quarter = 64
    Frames = {1, 20, 46, 47, 1140, 1160, 16366, 16367}
    ForeignCids = {0, 8, 21}
    Tokens = {0, 70}
    Bodies = {0, 17, 40}
    Extras <- MCExtras
INVARIANTS OpenedAsSealed LongNeverRejected ForeignOpensIff SampleInBounds InitialFillsDatagram
CHECK_DEADLOCK FALSE
