CONSTANTS
  Conns = {c1, c2}
  Opens = {o1, o2}
  Paths = {p1}
  NotifyCap = 1
  WatchMayFail = TRUE
  MaxReqs = 2
  MaxEvents = 2
  MaxOutstanding = 1
SYMMETRY Symmetry
CONSTRAINT Few
SPECIFICATION Spec
INVARIANTS TypeOK WatchesMatchHandles EventStreamIntact
PROPERTIES CancelReachesAll
CHECK_DEADLOCK FALSE
