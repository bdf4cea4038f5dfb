SPECIFICATION LoopSpec
CONSTANTS
    Radix = 8
    MaxPn <- Pns
    MaxAcks = 4
    MaxData <- NoData
    MaxRecv = 8
    Rooms = {2}
    PeerCloses = {}
    MaxFrames = 2
    MaxIngested = 1
INVARIANTS LastWordDecides EpochOfSpace
PROPERTIES LoopIsIngest
CHECK_DEADLOCK FALSE
