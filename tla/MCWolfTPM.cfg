\* Four boots; up to three faults with any image, or two in the README's procedure.
CONSTANTS
    Parts = 3
    NvSize = 6
    CekTail = 1
    KeyLens <- Lengths
    MaxSetups = 3
    MaxStores = 3
    MaxBoots = 4
    MaxFaults = 3
SPECIFICATION MCSpec
INVARIANTS
    ServedKeyWhole
    PrintedKeySurvives
    HandlesReadBack
    FollowerGetsPrintedKey
PROPERTIES
    FollowerIsServed
CHECK_DEADLOCK FALSE
