CONSTANTS
  Conns = {c1}
  Dialects = {"SMB210", "SMB311"}
  Tokens = {"ntlm", "raw", "other"}
  AllowGuest = FALSE
  MaxMsgs = 11
  MaxPending = 1
SPECIFICATION Spec
INVARIANTS KeysAgree GoodLogonSucceeds
PROPERTIES SessionsSurvive
CHECK_DEADLOCK FALSE
