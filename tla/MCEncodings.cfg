SPECIFICATION Spec
CONSTANTS
  MaxSafeInteger = 15
  Undefined = Undefined
  Null = Null
  Threw = Threw
  NotANumber = NotANumber
  OtherType = OtherType
  Foreign = Foreign
  f1 = f1
  f2 = f2
  f3 = f3
  Texts <- MCTexts
  Parts <- MCParts
  SentMessages <- MCSentMessages
  Frames <- MCFrames
  Keys <- MCKeys
  Events <- MCEvents
  MaxSet = 2
  MaxSetNested = 1
  MaxRepeated = 2
  MaxAltered = 1
INVARIANTS
  DecodedIsSent
  JsonRoundTrips
  AuditRoundTrips
CHECK_DEADLOCK FALSE
