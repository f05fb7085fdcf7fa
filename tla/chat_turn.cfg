CONSTANTS
  MaxJobs = 2
  MaxQueue = 1
SPECIFICATION FairSpec
INVARIANTS TypeOK FollowupEncodes EventHasJob LaneRuns
PROPERTIES LaneKeptByItsJob WaitingEnds
CHECK_DEADLOCK FALSE
