CONSTANTS
  l1 = l1
  cb1 = cb1
  Null = Null
  Loggers <- MCLoggers
  Callbacks <- MCCallbacks
SPECIFICATION Spec
INVARIANTS
  NoNullCallbackCall
