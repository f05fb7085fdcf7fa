SPECIFICATION Spec
CONSTANTS
    Tasks = {t1}
    OneTimes = {}
    Offsets <- MCOffsets
    MaxGen = 1
    WeeklyDays = {}
    DayLength = 10
    WeeklyAt = 0
    Grace = 0
    Lease = 2
    Retries = 1
    RetryDelays <- MCOneRetry
    MaxTime = 4
    Workers = {w1}
    Apps = {a1}
    Dues = {3}
    Limit = 2
    RunLimit = 2
    MaxCrashes = 1
INVARIANTS
    CompletedMeansSent
    OneReminderPerTask
PROPERTIES
    MergedIntoLater
