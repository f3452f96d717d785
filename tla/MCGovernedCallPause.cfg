SPECIFICATION Spec
CONSTANTS
  o1 = o1
  c1 = c1
  c2 = c2
  Ops <- MCOps
  Calls <- MCCalls
  Tracked <- MCOneTracked
  OpOf <- MCOpOf
  Depth = 2
  Stackings <- MCStackings
PROPERTIES
  PauseHoldsCall
