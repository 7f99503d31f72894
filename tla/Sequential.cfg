SPECIFICATION Spec
CONSTANTS
  TopStates = {1, 2}
  SubStates = {1}
  EventIds = {1}
  MaxRoutes = 2
  MaxEvents = 1
  CheckTimes = 2
  DnsServers = {"s1", "s2"}
  MaxReqs = 2
  MaxRequests = 2
  MaxBody = 2
  Bytes = {"x", "y"}
  MaxBlock = 2
  MaxMemory = 8
  Day = 2
  SearchDays = 8
  Wrap = 11
  MaxOffset = 1
  WeekMasks = {{}, {4, 6}}
  SpecialDays = {2}
  MaxNow = 6
  MaxTarget = 15
  Routines = {1, 2}
  MaxCount = 2
  MaxTokens = 3
  MaxStale = 1
  MaxWait = 2
  MaxPosted = 3
  MaxSockets = 3
  Modules = {"a", "b", "c"}
  MaxKids = 2
INVARIANTS
  MachineScope
  DnsSettledOnce
  FramingHolds
  BufferFaithful
  AlarmOnTime
  ReadyRuns
  JoinHonest
  ClientInStep
  MqttMoves
  ModulePaired
CHECK_DEADLOCK FALSE
