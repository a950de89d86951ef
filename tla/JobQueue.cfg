CONSTANTS
  a = a
  b = b
  Jobs = {a, b}
  Scheduled = {a, b}
  RunEvery <- TwoPeriods
  MaxAge = 2
  Runs = {r1, r2}
  None = None
  ChannelSize = 1
  NumWorkers = 1
  MayCrash = TRUE
SPECIFICATION JobsFairSpec
INVARIANTS OneRunAtATime MemoryAtLeastAsRecent AnnouncedOnlyWhileRunning
PROPERTIES CollectedWhenDue ScheduledJobsKeepRunning
