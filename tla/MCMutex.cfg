CONSTANTS
  Tasks = {t1, t2, t3}
  Idle = Idle
  NULL = NULL
  LockStates = {"INTERRUPTIBLE", "UNINTERRUPTIBLE"}
  Fatality = {FALSE}
  Blockers = {t1}
SPECIFICATION FairSpec
INVARIANTS IInv OwnerHolds NoLostWakeup
PROPERTIES NoStealAfterHandoff ImplementsLock NoStarvation
