CONSTANTS
  Conns = {c1}
  Opens = {o1}
  Paths = {p1}
  NotifyCap = 2
  WatchMayFail = TRUE
  MaxReqs = 2
  MaxEvents = 2
  MaxOutstanding = 2
SPECIFICATION FairSpec
PROPERTIES EventAnswered RequestsEnd
CHECK_DEADLOCK FALSE
