SPECIFICATION Spec
CONSTANTS
    Quarter = 64
    Frames <- SomeFrames
    MaxFrames = 2
    MinPayload = 6
    AnyBytes <- SomeBytes
    MaxBytes = 5
    Memory = 30
INVARIANTS ReadsBackUnlessSwallowed ConsumesWithinPayload AcceptedCanBeWritten
PROPERTIES EveryPayloadEnds
CHECK_DEADLOCK FALSE
