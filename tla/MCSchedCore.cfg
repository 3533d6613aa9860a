CONSTANTS
  Tasks = {t1, t2, t3}
  Idle = Idle
SPECIFICATION CoreSpec
INVARIANTS CoreInv RunnableQueued NoHaltWithWork
PROPERTIES DeadStaysDead IdleEnds
