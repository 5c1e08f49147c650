SPECIFICATION Spec
CONSTANTS
  s1 = s1
  s2 = s2
  None = None
  Sessions = {s1, s2}
  Frames <- MCFrames
  MaxMsgs = 4
INVARIANTS
  TypeOK
  ChainsAnswered
  AnsweredOnce
  FramesWellFormed
  NothingAfterFailure
  OwnSession
CHECK_DEADLOCK FALSE
