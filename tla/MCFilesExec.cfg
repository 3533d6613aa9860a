CONSTANTS
  Tasks = {init, t2}
  init = init
  KThreads = {}
  Structs = {A, B}
  Files = {f1, f2}
  NULL = NULL
  BITS_PER_LONG = 2
  sysctl_nr_open = 4
  NOFILE = 3
  OpenCloexec = {TRUE}
SPECIFICATION Spec
INVARIANTS AllocFindsEmptySlot
