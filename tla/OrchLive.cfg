SPECIFICATION FairSpec
CONSTANTS
    c1 = c1
    BgCards = {c1}
    VoiceCards = {}
    Profiles = {"default", "ada"}
    LeaseTicks = 1
    RetryDelays = {1}
    AttemptsLimit = 2
    TriggerInstalled = TRUE
    MaxRev = 6
    MaxClaims = 99
    MaxTime = 1
    CommandLimit = 0
    MaxEpoch = 2
    MaxParallel = 1
    MaxChildren = 0
    Moves = {"ready"}
    EditCards = {c1}
CHECK_DEADLOCK FALSE
PROPERTIES ClaimsEnd ReadyRuns CancelReturns
