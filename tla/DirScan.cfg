CONSTANTS
  MaxFiles = 6
  MaxEntries = 2
  Patterns = {"*", "even"}
  OutLens = {1, 3}
  Hidden = {5}
  ReadMayFail = TRUE
SPECIFICATION Spec
INVARIANTS TypeOK ScanExact
PROPERTIES ScanProgress
CHECK_DEADLOCK FALSE
