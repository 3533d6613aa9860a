CONSTANTS
  Tasks = {t1, t2, t3}
  Idle = Idle
  MAX_READERS_WAKEUP = 1
  LockStates = {"UNINTERRUPTIBLE"}
  Fatality = {}
  Blockers = {}
SPECIFICATION FairSpec
PROPERTIES NoStarvation
