CONSTANTS
  Asyncs = {a1, a2}
  WriteCap = 1
  MaxReqs = 2
SPECIFICATION FairSpec
INVARIANTS OneResultPerCaller NoRequestLost
PROPERTIES SendReturns RunEnds
CHECK_DEADLOCK FALSE
