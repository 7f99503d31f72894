CONSTANTS
  Workers = {w1, w2}
  MinNum = 2
  MaxNum = 2
  PrioMax = 2
  Prios <- MCPrios
  MaxTasks = 3
  HasMainCb = {1, 2}
  MaxInit = 1
  NoTask = NoTask
SPECIFICATION FairSpec
INVARIANTS
  MainCbOnce
PROPERTIES
  TaskSettled
  MainCbCalled
CHECK_DEADLOCK FALSE
