SPECIFICATION Spec
CONSTANTS
  i1 = i1
  i2 = i2
  None = None
  Inits <- MCInits
  Timeout = 4
  ProbeTimeout = 2
  PollInterval = 1
  MaxNow = 12
INVARIANTS
  TypeOK
  OutcomeMatchesProbes
  SettlesInTime
CHECK_DEADLOCK FALSE
