SPECIFICATION WrapperSpec
CONSTANTS
    MAX_HANDLE_NUM = 2
    SessionIds <- MCSessions
    MaxFaults = 1
    Rounds <- MCRounds
INVARIANT
    NonceKept
PROPERTY
    HandlesAccountedFor
