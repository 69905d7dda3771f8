SPECIFICATION FairSpec
CONSTANTS
  t1 = t1  t2 = t2  t3 = t3  t4 = t4  None = None
  Tasks <- FourTasks
  Limits <- SmallLimits
INVARIANTS
  WorkConserving
  ActiveCountsRunning
PROPERTIES
  ExecutorSpec
  EveryTaskSettles
CHECK_DEADLOCK FALSE
