CONSTANTS
    Lengths <- WriteLengths
    PeerLength = 2
    NonceSize = 2
    BufferSize = 5
    SizeMod = 16
    Pools <- RoomForObjects
    MaxWrites = 2
    MaxSends = 2
    MaxFaults = 2
SPECIFICATION Spec
INVARIANTS
    IvRepeatedOnlyWhenRefused
    PlainInOrder
    ToldWholeArrives
PROPERTIES
    EachWayIsMessageChannel
CHECK_DEADLOCK FALSE
