SPECIFICATION FairSpec
CONSTANTS
  j1 = j1  j2 = j2  o1 = o1  None = None
  Jobs <- TwoJobs
  Sched <- CronAndEvery
  Mode <- IsolatedAndHeartbeat
  Ops <- OneOp
  Interval = 1
  MaxTime = 2
  MaxCrashes = 1
  MaxPending = 1
  MaySaveFail = TRUE
INVARIANTS
  TypeOK
  FiresOnce
  NeverRunsOut
  EnabledIsArmed
PROPERTIES
  DueIsFired
CHECK_DEADLOCK FALSE
