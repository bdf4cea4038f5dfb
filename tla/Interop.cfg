SPECIFICATION IoSpec
CONSTANTS
    Radix = 8
    MaxPn <- PnsFiles
    MaxAcks = 6
    MaxData <- Bytes
    MaxRecv = 4
    Rooms = {4}
    PeerCloses = {}
    Lossy = TRUE
    Strict <- None
    Chunks <- TwoFiles
    IdleLimit = 1
    SilenceLimit = 1
INVARIANTS NeverReordered AcksNumbersSent FilesInOrder RightSizeRightFile
CHECK_DEADLOCK FALSE
PROPERTIES Ends
