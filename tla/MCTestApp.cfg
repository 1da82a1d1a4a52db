\* Three pairs in pieces of any size, with the garbage of one pair; three in messages of
\* any number of pairs, six shown twice each or five read one by one.
CONSTANTS
    Junk = junk
    SizeMax = 20
    MinAlloc = 1
    SmallBytes = 4
    TupleSize = 1
    VectorCapacity = 5
    MaxBatch = 5
    MaxReadings = 6
    Positions <- AllPositions
    MaxSent = 6
    BufferSize = 17
    LeftoverSize = 4
    Garbages = {0, 1, 5}
    MadeUp = {14}
SPECIFICATION MCSpec
INVARIANTS
    LastVehicleIsAReading
    StopIsJustified
    PairsParsedOnceInOrder
    CommandsFollowScript
    WholeStreamSpotsFound
PROPERTIES
    TextLeavesLessThanAFrame
    BuffersEnd
    ParkingEnds
CHECK_DEADLOCK FALSE
