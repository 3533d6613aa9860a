CONSTANTS
  Tasks = {t1, t2, t3}
  Idle = Idle
  MASK = 7
  Timeouts = {1}
  MAX = MAX
SPECIFICATION FairSpec
INVARIANTS CountExact NoLostWakeup
PROPERTIES ImplementsLock TimedWaitEnds
