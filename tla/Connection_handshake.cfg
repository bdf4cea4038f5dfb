CONSTANTS
    Radix = 8
    MaxPn <- PnsHandshake
    MaxAcks = 1
    MaxData <- NoData
    MaxRecv = 0
    Rooms = {0, 4}
    PeerCloses = {}
SPECIFICATION Spec
INVARIANTS
    TypeOK
    HandshakeInv
    NonceUnique
    TlsNeverFails
    OneFlightPerFrame
    EpochOfSpace
    EstablishedHasKeys
    HandshakeAgreement
PROPERTIES
    KeysNeverReplaced
CHECK_DEADLOCK FALSE
