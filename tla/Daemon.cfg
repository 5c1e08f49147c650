SPECIFICATION FairSpec
CONSTANTS
  Pids = {p1, p2, p3}
  NoPid = NoPid
  MaxStarts = 3
  MaxInodes = 2
  MaxCommands = 2
CONSTRAINT Few
INVARIANTS OneDaemon FilesDescribe
PROPERTIES StopEndsDaemon
CHECK_DEADLOCK FALSE
