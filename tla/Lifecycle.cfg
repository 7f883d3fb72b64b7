CONSTANTS
    Options <- MCOptions
    QueueSpace = 4
    MaxPackets = 3
    Unanswered = "none"
    Answers <- MCAnswers
    Accepts <- MCAccepts
SPECIFICATION Spec
INVARIANT HandlerHasWhatItNeeds
CHECK_DEADLOCK FALSE
