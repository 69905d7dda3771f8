SPECIFICATION FreshFairSpec
CONSTANTS
  m1 = m1  m2 = m2  claude = claude  droid = droid  pi = pi  n1 = n1  None = None
  Messages <- TwoMessages
  CronMsgs <- OneMessage
  Clis <- ThreeClis
  Manifests <- TwoClis
  Flaky <- OtherCli
  NewCmds <- OneNew
  MaxQueue = 1
  MaxToolDepth = 0
  MaxTools = 0
INVARIANTS
  EntryIsStoppable
  TokensBelongToTheirCli
  CronIsMarkedByItsRun
  FreshUnlessLate
PROPERTIES
  QueuedIsProcessed
CHECK_DEADLOCK FALSE
