SPECIFICATION Spec
CHECK_DEADLOCK FALSE
CONSTANTS
    Configs <- MCConfigs
    CaptureIds = {"c1", "c2"}
    Scenarios <- AllScenarios
    Inputs <- MCInputs
    Steps <- MCSteps
    MaxFeeds = 2
    StartFeeds = 1
    LiveInputs <- MCLiveInputs
    LiveSteps <- MCLiveSteps
    MaxMessages = 4
    MaxTakes = 2
    Documents = {d1, d2}
    Authors = {ann, bob}
    Edits = {m1, m2}
    NoParent = NoParent
    MaxNumber = 2
    RequestIds = {q1, q2}
    Readings <- MCReadings
    NoRevision = NoRevision
    FaultFeeds = 1
    LateSteps = 2
    BusyFeeds = 2
SYMMETRY MCSymmetry
INVARIANTS
    OneOpenTake
    EveryEventAccounted
    HeadHistoryIsWhole
    RetryTellsTheSame
PROPERTIES
    RecordingIsKept
    FirstWriteWins
