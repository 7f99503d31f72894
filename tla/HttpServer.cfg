CONSTANTS
  NoObj = NoObj
  MaxConns = 2
  MaxReqs = 2
  Quota <- MCQuota
  MaxStarts = 1
SPECIFICATION FairSpec
INVARIANTS
  PipelineOrder
  ContextAlive
PROPERTIES
  Responded
CHECK_DEADLOCK FALSE
