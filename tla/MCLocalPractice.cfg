SPECIFICATION Spec
CHECK_DEADLOCK FALSE
CONSTANTS
    None = None
    Nothing = Nothing
    Lessons = {"l1", "l2"}
    LessonOf <- MCLessonOf
    Inputs <- MCInputs
    Step = 130000
    Gaps = {0, 1, 2}
    LoopSteps = 2
    PracticeRates = {2}
    Budgets <- MCBudgets
    MaxCalls = 2
    EarlyWindow = 250
    LateWindow = 250
    AllowPitchMismatch = TRUE
    PitchDistance = 2
    EarlyThreshold = 100
    LateThreshold = 100
    PitchThreshold = 1
    ClusterWindow = 4
    ClusterMin = 2
    SlowDownPercent = 30
    ContinueCount = 1
    MinimumExpected = 1
INVARIANTS
    EvidenceIsTrue
    JudgementIsSound
