CONSTANTS
    Lesson = {la, lb}
    Evidence = {e1, e2}
    SessionId = {s1, s2}
    Slot = {w1, w2}
    Errand = {x1, x2}
    None = None
    MaxFaults = 1
    MaxSwitches = 2
SPECIFICATION Spec
INVARIANTS
    LifecycleIsLawful
    LearnerDecides
    EvidenceFollowsRuntime
    PageMatchesStore
PROPERTY HistoryIsKept
SYMMETRY Interchangeable
CHECK_DEADLOCK FALSE
