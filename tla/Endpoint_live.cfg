SPECIFICATION FairEpSpec
CONSTANTS
    Radix = 8
    MaxPn <- PnsData
    MaxAcks = 4
    MaxData <- OneByte
    MaxRecv = 1
    Rooms = {2}
    PeerCloses = {}
    Lossy = FALSE
    Strict <- Sides
INVARIANTS EpTypeOK NoErrorInOrder
PROPERTIES HandshakeCompletes FlightsLeave
CHECK_DEADLOCK FALSE
