SPECIFICATION CronFair
CONSTANTS
    j1 = j1
    Jobs = {j1}
    Limits = {0}
    Period = 1
    Grace = 1
    Backoff = 1
    RetryMax = 1
    Rivals = FALSE
    MaxTime = 3
    MaxEdits = 2
    MaxManual = 1
    MaxEpoch = 2
CHECK_DEADLOCK FALSE
INVARIANTS OneRunPerJob RunsAccounted
PROPERTIES FiresOnce StoppedStays DueRuns
