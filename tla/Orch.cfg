SPECIFICATION Spec
CONSTANTS
    c1 = c1
    c2 = c2
    BgCards = {c1, c2}
    VoiceCards = {}
    Profiles = {"default", "ada"}
    LeaseTicks = 1
    RetryDelays = {1}
    AttemptsLimit = 2
    TriggerInstalled = TRUE
    MaxRev = 2
    MaxClaims = 99
    MaxTime = 1
    CommandLimit = 0
    MaxEpoch = 2
    MaxParallel = 2
    MaxChildren = 0
    Moves = {"ready"}
    EditCards = {c1, c2}
SYMMETRY Symmetry
CHECK_DEADLOCK FALSE
INVARIANTS OneWorkerPerCard RunningIsCancellable NoOrphanClaim
