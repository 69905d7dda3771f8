SPECIFICATION Spec
CONSTANTS
  m1 = m1  m2 = m2  m3 = m3  m4 = m4  claude = claude  droid = droid  n1 = n1  None = None
  Messages <- FourMessages
  CronMsgs = {}
  Clis <- OneCli
  Manifests <- OneCli
  Flaky = {}
  NewCmds = {}
  MaxQueue = 2
  MaxToolDepth = 1
  MaxTools = 1
SYMMETRY AllAlike
VIEW WithoutTokens
INVARIANTS
  StrandedOnlyBySpawnFailure
  RunsAreAccountedFor
PROPERTIES
  MailboxSpec
CHECK_DEADLOCK FALSE
