CONSTANTS
  Tasks = {t1, t2, t3}
  Idle = Idle
  MAX_READERS_WAKEUP = 1
  LockStates = {"KILLABLE", "UNINTERRUPTIBLE"}
  Fatality = {TRUE}
  Blockers = {t1, t2, t3}
SPECIFICATION Spec
SYMMETRY TaskSymmetry
INVARIANTS CountExact NoLostWakeup NoReaderLeftBehind
PROPERTIES NoStealAfterHandoff ImplementsLock
