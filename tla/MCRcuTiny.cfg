CONSTANTS
  Cbs = {a, b, c, d}
  MAX_SOFTIRQ_RESTART = 3
SPECIFICATION FairSpec
INVARIANTS GracePeriod CallbackOrder
PROPERTIES CallbackRuns SoftirqYields
