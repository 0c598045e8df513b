SPECIFICATION Spec
CHECK_DEADLOCK FALSE
CONSTANTS
    None = None
    Envelopes <- MCEnvelopes
    MaxCalls = 2
    MaxSelections = 2
    MaxOpenings = 2
    MaxReceived = 3
    MaxRestarts = 1
INVARIANTS
    ChoiceIsBinding
    PractisedAsChosen
