SPECIFICATION Spec
CHECK_DEADLOCK FALSE
CONSTANTS
    None = None
    Keys <- MCKeys
    Deltas = {0, 96}
    Tempos = {500000, 100000}
    Signatures <- MCSignatures
    Ppqs = {96}
    MaxMessages = 5
    Profiles <- MCProfiles
    Instruments = {"guitar", "bass", "lute"}
    SupportedPpq = {96, 120, 192, 240, 384, 480, 960, 1920}
    Authored <- MCAuthored
    Overrides <- MCOverrides
    Guidances <- MCGuidances
    Playbacks <- MCPlaybacks
    TempoMaps <- MCTempoMaps
    MaxEdits = 1
INVARIANTS
    NothingFurtherIsRefused
    ImportedAsPlayed
    ArtifactsAgree
    TimeIsKept
PROPERTIES
    SameMusicSameRevision
