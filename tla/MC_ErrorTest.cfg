CONSTANTS
  t1 = t1
  t2 = t2
  t3 = t3
  f1 = f1
  f2 = f2
  ErrorAccessDenied = ErrorAccessDenied
  ErrorInvalidValue = ErrorInvalidValue
  FrameErrorTest = f1
  FrameAnotherTest = f2
  Threads <- MCThreads
  Codes <- MCCodes
  Frames <- MCFrames
  NONE = NONE
  Msg = Msg
  NoFrame = NoFrame
  LevelDebug = LevelDebug
  LevelInfo = LevelInfo
  LevelWarning = LevelWarning
  LevelError = LevelError
  MaxDepth = 2
  MaxOutstanding = 2
  ContextEnabled = TRUE
  Passes = 2
SPECIFICATION TestSpec
CHECK_DEADLOCK FALSE
INVARIANTS
  TestTypeOK
  NoExpectFails
PROPERTIES
  AllThreadsReturnZero
