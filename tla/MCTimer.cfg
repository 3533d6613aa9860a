CONSTANTS
  Timers = {a, b}
  None = None
  Width = 5
  LVL_CLK_SHIFT = 1
  LVL_BITS = 2
  LVL_DEPTH = 2
  TaskTimers = {a}
  Deltas <- MCDeltas
  MaxLag = 1
  MaxTicks = 1
SPECIFICATION TimerSpec
INVARIANTS NextExpirySafe BucketRight NoWarning
PROPERTIES NeverEarly
VIEW MCView
