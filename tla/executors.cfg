SPECIFICATION Spec
CONSTANTS
    Tasks = {}
    OneTimes = {r1, r2}
    Offsets <- MCOffsets
    MaxGen = 2
    WeeklyDays = {}
    DayLength = 10
    WeeklyAt = 0
    Grace = 0
    Lease = 2
    Retries = 1
    RetryDelays <- MCOneRetry
    MaxTime = 2
    Workers = {w1, w2}
    Apps = {}
    Dues = {}
    Limit = 2
    RunLimit = 2
    MaxCrashes = 2
SYMMETRY MCSymmetry
INVARIANTS
    AtMostOnce
    SentWentOut
PROPERTIES
    IsOutbox
