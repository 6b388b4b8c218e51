SPECIFICATION StoreSpec
CONSTANTS
    c1 = c1
    BgCards = {c1}
    VoiceCards = {}
    Profiles = {"default"}
    LeaseTicks = 1
    RetryDelays = {0, 1}
    AttemptsLimit = 3
    TriggerInstalled = TRUE
    MaxRev = 7
    MaxClaims = 4
    MaxTime = 4
CHECK_DEADLOCK FALSE
INVARIANTS TypeOK ClaimMatchesRun ClaimedIsRunning AttemptsNumberRuns
PROPERTIES RevisionMoves RunsSettleOnce LiveLeaseKept
