SPECIFICATION StoreSpec
CONSTANTS
    c1 = c1
    c2 = c2
    c3 = c3
    BgCards = {c1, c2, c3}
    VoiceCards = {}
    Profiles = {"default"}
    LeaseTicks = 1
    RetryDelays = {0}
    AttemptsLimit = 1
    TriggerInstalled = FALSE
    MaxRev = 1
    MaxClaims = 2
    MaxTime = 1
SYMMETRY Symmetry
CHECK_DEADLOCK FALSE
INVARIANT LinksAcyclic
