SPECIFICATION AssembliesSpec
CONSTANTS
  i1 = i1
  i2 = i2
  i3 = i3
  t1 = t1
  t2 = t2
  n1 = n1
  n2 = n2
  obj = obj
  None = None
  Inits <- MCInits
  Strict <- MCStrict
  Tools <- MCTools
  Turns <- MCTurns
  Objects <- MCObjects
SYMMETRY MCSymmetry
INVARIANTS
  AssembliesTypeOK
  CheckedOnce
  SignatureInEffect
  UnpatchRestores
  ActiveIsReachable
  FirstAgentStays
CHECK_DEADLOCK FALSE
