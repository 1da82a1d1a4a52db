SPECIFICATION Spec
CONSTANTS
    MaxSession = 3
    SlotChoices <- MCSlots
    ShapeChoices <- MCShapes
INVARIANTS
    CommandsArriveWhole
    FirstParameterIsSized
    AnswersReadInPlace
    SessionsInStep
