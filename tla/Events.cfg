SPECIFICATION Spec
CONSTANTS
  Events = {"t1", "t2", "x"}
  ExitEvent = "x"
  Configs <- MCConfigs
  ExitWaits = {2}
  MaxClock = 3
  IntBits = 3
  FdEvs = {"e1", "e2"}
  Fds = {"f1", "f2"}
  WatchSets = {{"read"}, {"read", "write"}}
  SigLoops = {"l1", "l2"}
  SigEvs = {"s1", "s2"}
  loopOf <- MCLoopOf
  Signos = {2, 3, 9}
  BadSignos = {9}
  SigSets = {{3}, {2, 3}, {2, 9}}
  PipeCap = 1
INVARIANTS
  TimerQueued
  FdRegistered
  SignalRouting
PROPERTIES
  TimerFires
