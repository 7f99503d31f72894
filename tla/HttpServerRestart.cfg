CONSTANTS
  NoObj = NoObj
  MaxConns = 2
  MaxReqs = 1
  Quota <- MCQuota
  MaxStarts = 2
SPECIFICATION Spec
INVARIANTS
  OwnConnection
CHECK_DEADLOCK FALSE
