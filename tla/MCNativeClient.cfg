SPECIFICATION FairSpec
CONSTANTS
  q1 = q1
  r1 = r1
  e1 = e1
  k1 = k1
  k2 = k2
  None = None
  Queries <- MCQueries
  Registers <- MCRegisters
  Sends <- MCSends
  Closes <- MCCloses
  SerialCloses = TRUE
INVARIANTS
  TypeOK
  LiveSessionIsHeld
  MemoIsUsable
  ErrorThrownOnce
PROPERTIES
  CloseTearsDown
  CallsSettle
CHECK_DEADLOCK FALSE
