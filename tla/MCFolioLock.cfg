CONSTANTS
  Tasks = {t1, t2, t3}
  Idle = Idle
  Folios = {1, 2}
  LockStates = {"KILLABLE"}
  Mortal = {t1}
  sysctl_page_lock_unfairness = 1
SPECIFICATION FairSpec
INVARIANTS OneOwner NoLostWakeup
PROPERTIES WaitEnds
