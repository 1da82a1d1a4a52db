\* Any readings in buffers of up to 4 pairs.
CONSTANTS
    Junk = junk
    SizeMax = 20
    MinAlloc = 1
    SmallBytes = 4
    TupleSize = 1
    VectorCapacity = 4
    MaxBatch = 4
    MaxReadings = 4
    Positions = {0, 2, 6, 14, 22}
SPECIFICATION DetectorSpec
INVARIANTS
    FindsDocumentedSpots
CHECK_DEADLOCK FALSE
