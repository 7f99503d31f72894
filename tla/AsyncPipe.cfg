CONSTANTS
  w1 = w1
  w2 = w2
  Writers = {w1, w2}
  BuffSize = 2
  MinNum = 1
  MaxNum = 3
  MaxBytes = 9
  MaxInit = 2
  NoBuffer = NoBuffer
  NoThread = NoThread
SPECIFICATION FairSpec
INVARIANTS
  BufferAccounting
  WaiterHasSupplier
PROPERTIES
  AppendReturns
  EveryByteDelivered
  CleanupReturns
  ImplementsChannel
CHECK_DEADLOCK FALSE
