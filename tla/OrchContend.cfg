SPECIFICATION FairSpec
CONSTANTS
    c1 = c1
    c2 = c2
    c3 = c3
    BgCards = {c1, c2, c3}
    VoiceCards = {}
    Profiles = {"default"}
    LeaseTicks = 1
    RetryDelays = {1}
    AttemptsLimit = 1
    TriggerInstalled = TRUE
    MaxRev = 3
    MaxClaims = 99
    MaxTime = 1
    CommandLimit = 0
    MaxEpoch = 1
    MaxParallel = 1
    MaxChildren = 2
    Moves = {}
    EditCards = {c1}
CHECK_DEADLOCK FALSE
INVARIANT OrchTypeOK
PROPERTY GoalsEnd
