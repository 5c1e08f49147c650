CONSTANTS
  Conns = {c1, c2}
  Dialects = {"SMB311"}
  Tokens = {"raw", "other"}
  AllowGuest = TRUE
  MaxMsgs = 6
  MaxPending = 2
SYMMETRY Symmetry
SPECIFICATION Spec
INVARIANTS HashesAgree
CHECK_DEADLOCK FALSE
