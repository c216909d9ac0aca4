CONSTANTS
  HeaderLens <- MCHeaderLens
  MsgLens <- MCMsgLens
  InitialSize = 383
  LocalBytes = 384
SPECIFICATION Spec
CHECK_DEADLOCK FALSE
INVARIANTS
  TypeOK
  
  ReturnsFreed
PROPERTIES
  LogLineSpec
  RetryGrows
