CONSTANTS
  Asyncs = {}
  WriteCap = 1
  MaxReqs = 4
SPECIFICATION FairSpec
PROPERTIES RequestsGetThrough
CHECK_DEADLOCK FALSE
