SPECIFICATION GoalsFair
CONSTANTS
    MaxTurns = 2
    MaxParse = 1
    MaxTransport = 2
    MaxCompaction = 2
    MaxRetries = 1
    Conditions = {"plan", "process"}
    Slots = {1, 2}
    MaxActs = 3
CHECK_DEADLOCK FALSE
INVARIANT GoalsTypeOK
PROPERTIES VerdictFits UserFirst NeverJustStops
