SPECIFICATION Spec
CONSTANTS
  None = None
  MaxTurns = 2
  MaxNews = 1
  MaxNotes = 1
  MaxCrashes = 1
  MaxTime = 1
  MaxSyncs = 4
  Shown = 1
  Threshold = 2
  MinInterval = 1
  MayFail = TRUE
INVARIANTS
  MemoryOnlyGrows
  NewSavesTheSession
  FlushesAreApart
CHECK_DEADLOCK FALSE
