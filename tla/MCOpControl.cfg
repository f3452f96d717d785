SPECIFICATION FairSpec
CONSTANTS
  o1 = o1
  o2 = o2
  c1 = c1
  c2 = c2
  c3 = c3
  Ops <- MCOps
  Calls <- MCCalls
  OpOf <- MCOpOf
  Timed <- MCTimed
INVARIANTS
  TypeOK
  BlockedIffQueued
  NoLostWakeup
PROPERTIES
  WakesHaveCause
  OrphanedWaitNeedsClose
  TimedWaitSettles
  KillSwitchHolds
