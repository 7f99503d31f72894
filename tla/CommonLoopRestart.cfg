CONSTANTS
  MaxInLoop = 2
  MaxNext = 1
  MaxRuns = 2
  CleanupRounds = 2
SPECIFICATION Spec
INVARIANTS
  RestartWakeup
