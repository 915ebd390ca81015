SPECIFICATION StreamSpec
CONSTANTS
    Routes = 1
    MaxDeltas = 2
    FinalPages = 1
    MaxLost = 0
    MaxDeliveries = 1
INVARIANT AnswerIsShown
CHECK_DEADLOCK FALSE
