CONSTANTS
    Radix = 8
    MaxPn <- PnsTraffic
    MaxAcks = 1
    MaxData <- SomeData
    MaxRecv = 2
    Rooms = {1, 4}
    PeerCloses = {"server"}
SPECIFICATION Spec
INVARIANTS
    StreamOffsetsRight
    ReceivedWasWritten
    CloseReasonGiven
PROPERTIES
    StateOnlyAdvances
    ImplementsAgreement
CHECK_DEADLOCK FALSE
