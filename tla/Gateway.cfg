SPECIFICATION GatewaySpec
CONSTANTS
  j1 = j1  j2 = j2  j3 = j3  m1 = m1  m2 = m2  None = None
  Procs <- TwoProcs
  Jobs <- ThreeJobs
  Messages <- TwoMessages
  Restarts <- OneRestart
  MaxCrashes = 1
INVARIANTS
  PidFileNamesTheServer
  MessagesAreAccountedFor
PROPERTIES
  EverythingSettles
CHECK_DEADLOCK FALSE
