CONSTANTS
  Tasks = {t1, t2, t3}
  Idle = Idle
  N = 2
SPECIFICATION FairSpec
INVARIANTS Conservation NoBarging NoLostWakeup
PROPERTIES FIFO DownReturns
