CONSTANTS
    Radix = 4
    MaxPn <- PnsData
    MaxAcks = 1
    MaxData <- ClientData
    MaxRecv = 2
    Rooms = {1}
    PeerCloses = {}
SPECIFICATION Spec
INVARIANTS
    ZeroOnlyIfIdle
CHECK_DEADLOCK FALSE
