CONSTANTS
  Workers = {w1}
  MinNum = 1
  MaxNum = 1
  PrioMax = 2
  Prios <- MCPrios
  MaxTasks = 1
  HasMainCb = {1}
  MaxInit = 1
  NoTask = NoTask
SPECIFICATION FairSpec
PROPERTIES
  CleanupEnds
CHECK_DEADLOCK FALSE
