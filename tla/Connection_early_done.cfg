CONSTANTS
    Radix = 8
    MaxPn <- PnsHandshake
    MaxAcks = 1
    MaxData <- NoData
    MaxRecv = 0
    Rooms = {4}
    PeerCloses = {}
SPECIFICATION Spec
INVARIANTS
    DoneAfterHandshake
CHECK_DEADLOCK FALSE
