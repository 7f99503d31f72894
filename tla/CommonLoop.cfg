CONSTANTS
  MaxInLoop = 2
  MaxNext = 2
  MaxRuns = 2
  CleanupRounds = 2
SPECIFICATION FairSpec
INVARIANTS
  QueuedOnce
  Fifo
  NoLostWakeup
PROPERTIES
  PostedRuns
  ExitReturns
