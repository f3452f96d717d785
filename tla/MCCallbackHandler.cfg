SPECIFICATION Spec
CONSTANTS
  r1 = r1
  r2 = r2
  r3 = r3
  None = None
  Runs <- MCRuns
  MaxAge = 2
  MaxNow = 5
SYMMETRY MCSymmetry
INVARIANTS
  TypeOK
  AuditMatchesVerdict
  PendingIsLive
CHECK_DEADLOCK FALSE
