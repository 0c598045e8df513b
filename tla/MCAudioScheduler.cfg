SPECIFICATION Spec
CHECK_DEADLOCK FALSE
CONSTANTS
    None = None
    Duration = 5
    Rate = {1, 2}
    Loop <- MCLoop
    Plan <- MCPlan
    Lookahead = 2
    Unit = 2
    MaxLate = 2
    MaxOps = 6
    MaxReps = 4
INVARIANTS
    ReadingsDoNotDrift
    SoundFollowsTransport
    EachNoteOnce
PROPERTIES
    EndsOrLoops
