SPECIFICATION Spec
CHECK_DEADLOCK FALSE
CONSTANTS
    None = None
    Duration = 12
    Rate = {1, 2}
    NormalRate = 2
    Loop <- MCLoops
    SyncedLimit = 0
    SeekLimit = 3
    Settle = 3
    Length <- MCLength
    Rigid = {"rigid"}
    Lessons = {"one", "two"}
    Catalogs <- MCCatalogs
    Files <- MCFiles
    Slips <- MCSlips
    MediaLoop <- MCMediaLoop
    Seeks = {0, 5, 11}
    Budgets <- MCBudgets
    MaxLate = 1
INVARIANTS
    FollowsTheLesson
    NoThrashing
