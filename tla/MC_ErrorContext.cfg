CONSTANTS
  t1 = t1
  ACCESS_DENIED = ACCESS_DENIED
  INVALID_VALUE = INVALID_VALUE
  f1 = f1
  f2 = f2
  Threads <- MCThreads
  Codes <- MCCodes
  Frames <- MCFrames
  NONE = NONE
  Msg = Msg
  NoFrame = NoFrame
  LevelDebug = LevelDebug
  LevelInfo = LevelInfo
  LevelWarning = LevelWarning
  LevelError = LevelError
  MaxDepth = 2
  MaxOutstanding = 4
  ContextEnabled = TRUE
SPECIFICATION Spec
INVARIANTS
  TypeOK
  ContextIsNewestSuffix
