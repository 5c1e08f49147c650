CONSTANTS
  Procs = {p1, p2, p3}
  Handles = {h1, h2}
SPECIFICATION FairSpec
INVARIANTS NoIoOnClosedFile TableMatchesFiles
PROPERTIES CloseReturns ImplementsFileLife
CHECK_DEADLOCK FALSE
