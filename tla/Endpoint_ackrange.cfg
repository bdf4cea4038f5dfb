SPECIFICATION EpSpec
CONSTANTS
    Radix = 8
    MaxPn <- Pns
    MaxAcks = 4
    MaxData <- NoData
    MaxRecv = 1
    Rooms = {2}
    PeerCloses = {}
    Lossy = FALSE
    Strict <- Sides
INVARIANTS AckRangesNatural
CHECK_DEADLOCK FALSE
