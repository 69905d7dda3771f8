SPECIFICATION Spec
CONSTANTS
  j1 = j1  j2 = j2  o1 = o1  None = None
  Jobs <- OneJob
  Sched <- AtMain
  Mode <- AllMain
  Ops <- OneOp
  Interval = 3
  MaxTime = 4
  MaxCrashes = 1
  MaxPending = 1
  MaySaveFail = FALSE
PROPERTIES
  RestartMissesNothing
CHECK_DEADLOCK FALSE
