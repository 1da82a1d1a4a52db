\* Two pairs, read in pieces: one may be cut.
CONSTANTS
    Junk = junk
    SizeMax = 20
    MinAlloc = 1
    SmallBytes = 4
    TupleSize = 1
    VectorCapacity = 4
    MaxBatch = 4
    MaxReadings = 2
    Positions <- ShortRoad
    MaxSent = 2
    BufferSize = 10
    LeftoverSize = 4
    Garbages = {0, 2}
    MadeUp = {14}
SPECIFICATION MCSpec
PROPERTIES
    IncompletePairsAreKept
CHECK_DEADLOCK FALSE
