SPECIFICATION FairSpec
CONSTANTS
  s1 = s1  s2 = s2   c1 = c1  p1 = p1  None = None
  Subs <- TwoSubs
  Chats <- OneChat
  Sessions <- OneSession
  MayFail = TRUE
  MaxPerChat = 1
  MaxLane = 1
  KeepLast = 1
  MaxCrashes = 1
INVARIANTS
  TypeOK
  LaneIsFull
  OverIsNotActiveUnlessExcused
  ToldOnce
PROPERTIES
  WaitingIsStarted
  StatusIsFinal
CHECK_DEADLOCK FALSE
