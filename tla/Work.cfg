SPECIFICATION Spec
CONSTANTS
  Trees <- MCTrees
  Timed <- MCTimed
  MaxQueue = 2
  MaxActions = 4
  MaxIds = 2
  CheckTimes = 2
  Loops = {"l1", "l2"}
  MaxInfos = 2
  MaxLives = 2
INVARIANTS
  SerialProgress
  NoOrphan
  ExecutorPriority
  RpcOnce
PROPERTIES
  RpcSettled
  BlockReported
CHECK_DEADLOCK FALSE
