SPECIFICATION FairSpec
CONSTANTS
    Tasks = {}
    OneTimes = {}
    Offsets <- MCOffsets
    MaxGen = 0
    WeeklyDays = {0, 1}
    DayLength = 3
    WeeklyAt = 0
    Grace = 2
    Lease = 2
    Retries = 1
    RetryDelays <- MCOneRetry
    MaxTime = 5
    Workers = {w1, w2}
    Apps = {}
    Dues = {3}
    Limit = 2
    RunLimit = 9
    MaxCrashes = 1
PROPERTIES
    NeverAfterGrace
    WrittenByHolder
    DueIsResolved
