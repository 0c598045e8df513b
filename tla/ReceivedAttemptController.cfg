CONSTANTS
    Key = {1, 2}
    None = None
    MaxFaults = 1
    MaxMessages = 2
    QueueLimit = 2
SPECIFICATION Spec
CHECK_DEADLOCK FALSE
INVARIANTS 
    EvaluatedIsComplete
    OutcomeShownIsTrue
    NothingLeftOpen
    AppendsInOrder
PROPERTIES BusySettles
