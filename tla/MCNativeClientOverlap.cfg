SPECIFICATION Spec
CONSTANTS
  q1 = q1
  r1 = r1
  e1 = e1
  k1 = k1
  k2 = k2
  None = None
  Queries <- MCQueries
  Registers <- MCRegisters
  Sends <- MCSends
  Closes <- MCCloses
  SerialCloses = FALSE
INVARIANTS
  OpenSessionIsHeld
CHECK_DEADLOCK FALSE
