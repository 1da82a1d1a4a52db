\* Two vectors, element sizes 0 (refused) to 3, every argument up to 7.
CONSTANTS
    Junk = junk
    Null = null
    Values = {a}
    Names = {v, w}
    ObjSizes = {0, 1, 2, 3}
    MaxRequest = 7
    SizeMax = 7
    MinAlloc = 2
    SmallBytes = 3
SPECIFICATION MCSpec
VIEW Memory
INVARIANTS
    AllocationInRange
PROPERTIES
    FailedCallChangesNothing
    GrowthIsGeometric
    ImplementsSequence
