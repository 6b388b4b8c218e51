SPECIFICATION Spec
CONSTANTS
    v1 = v1
    BgCards = {}
    VoiceCards = {v1}
    Profiles = {"default"}
    LeaseTicks = 1
    RetryDelays = {1}
    AttemptsLimit = 1
    TriggerInstalled = TRUE
    MaxRev = 4
    MaxClaims = 99
    MaxTime = 1
    CommandLimit = 3
    MaxEpoch = 2
    MaxParallel = 1
    MaxChildren = 0
    Moves = {"archived"}
    EditCards = {v1}
CHECK_DEADLOCK FALSE
INVARIANTS DoubtBlocksWork NoOvertaking
PROPERTIES NoReplay ReconcileFenced
