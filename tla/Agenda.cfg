SPECIFICATION AgendaSpec
CONSTANTS
    a1 = a1
    a2 = a2
    k1 = k1
    k2 = k2
    w1 = w1
    w2 = w2
    w3 = w3
    Agents = {a1, a2}
    Convs = {k1, k2}
    Host <- Apart
    Items = {w1, w2, w3}
    Session <- ApartSession
    CheckIns = {w1}
    Kept = {}
    Levels = {"off", "low"}
    GlobalCap = 1
    MaxUnanswered = 2
    MaxAttempts = 2
    MaxWakes = 2
    DayTicks = 3
    TurnTimeout = 1
    ReviewTimeout = 1
    StaleAfter = 2
    RetryDelay = 1
    Backoff = 1
    MaxItems = 2
    MaxTime = 3
    QuietTicks = {0}
    AwakeTicks = 1
    MaxEdits = 1
    MaxEnds = 1
    MaxFails = 1
CONSTRAINT EditOrFail
CHECK_DEADLOCK FALSE
INVARIANTS AgendaTypeOK WithinLimits SlotsAccountedFor StrandedByFailureOnly
