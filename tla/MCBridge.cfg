\* Three ticks, chunks of one pair, room for one chunk; three commands, the second
\* with a time.
CONSTANTS
    MaxTicks = 3
    MAX_DATA_POINTS = 1
    Window = 1
    Commands = 3
    Timed = {2}
SPECIFICATION MCSpec
INVARIANTS
    PairsInOrder
    CommandsNotRepeated
    WholeProcedureFollowed
PROPERTIES
    CallbacksReturn
    CleanUpEnds
    CalmBridgeExits
CHECK_DEADLOCK FALSE
