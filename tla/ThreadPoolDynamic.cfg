CONSTANTS
  Workers = {w1, w2, w3}
  MinNum = 1
  MaxNum = 2
  PrioMax = 2
  Prios <- MCPrios
  MaxTasks = 3
  HasMainCb = {1}
  MaxInit = 2
  NoTask = NoTask
SPECIFICATION Spec
SYMMETRY WorkerSymmetry
INVARIANTS
  IdleCount
  OnePlace
  AtMostMax
CHECK_DEADLOCK FALSE
