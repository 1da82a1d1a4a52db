SPECIFICATION Spec
CONSTANTS
    CommandSizes <- MCCommandSizes
    AnswerSizes <- MCAnswerSizes
    Header = 2
    Frame = 3
    PacketSize = 5
    Tries = 2
    MaxCommands = 3
INVARIANT
    PromptTpmIsHeard
PROPERTIES
    ImplementsLink
    CallReturns
CHECK_DEADLOCK FALSE
