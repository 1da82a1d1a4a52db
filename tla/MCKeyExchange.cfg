\* Three starts of each side, three failures.
CONSTANTS
    MaxBoots = 3
    MaxServers = 3
    MaxFaults = 3
SPECIFICATION MCSpec
INVARIANTS
    NoOldKey
    UndisturbedKeysAgree
PROPERTIES
    ExchangeEnds
    CalmChannelComesUp
CHECK_DEADLOCK FALSE
