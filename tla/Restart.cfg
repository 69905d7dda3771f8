SPECIFICATION Spec
CONSTANTS
  j1 = j1  j2 = j2  claude = claude  droid = droid  None = None
  Procs <- TwoProcs
  Jobs <- TwoJobs
  Messages = {}
  Restarts = {}
  MaxCrashes = 1
  Clis <- TwoClis
  DefaultCli = claude
  MaxChanges = 2
SYMMETRY AllAlike
INVARIANTS
  FileIsItsOwners
PROPERTIES
  ResumesUnlessRestarted
CHECK_DEADLOCK FALSE
