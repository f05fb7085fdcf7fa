CONSTANTS
  MaxJobs = 2
  MaxQueue = 1
SPECIFICATION Spec
PROPERTY QueuedReminderIsShown
