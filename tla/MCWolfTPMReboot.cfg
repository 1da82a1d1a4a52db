\* Nothing fails: two boots that each store a key.
CONSTANTS
    Parts = 2
    NvSize = 4
    CekTail = 1
    KeyLens <- Lengths
    MaxSetups = 1
    MaxStores = 2
    MaxBoots = 4
    MaxFaults = 0
SPECIFICATION MCSpec
INVARIANTS
    StoredKeysAreNonVolatile
CHECK_DEADLOCK FALSE
