SPECIFICATION FairSpec
CONSTANTS
  j1 = j1  j2 = j2  j3 = j3  None = None
  Jobs <- ThreeJobs
  Mode <- Modes
  Times <- TwoTwoOne
  ChatConfigured = FALSE
  Flaky = TRUE
  MaxCrashes = 1
INVARIANTS
  HistoryTellsRuns
  LaneWaitsForRun
  FirstMessageDropsOne
PROPERTIES
  EveryRunSettles
CHECK_DEADLOCK FALSE
