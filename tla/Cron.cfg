SPECIFICATION CronSpec
CONSTANTS
    j1 = j1
    j2 = j2
    Jobs = {j1, j2}
    Limits = {1}
    Period = 1
    Grace = 1
    Backoff = 1
    RetryMax = 1
    Rivals = TRUE
    MaxTime = 3
    MaxEdits = 1
    MaxManual = 0
    MaxEpoch = 2
SYMMETRY Symmetry
CHECK_DEADLOCK FALSE
INVARIANTS CronTypeOK
PROPERTIES NoStaleStart
