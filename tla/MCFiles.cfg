CONSTANTS
  Tasks = {init, t2, k}
  init = init
  KThreads = {k}
  Structs = {A, B}
  Files = {f1, f2}
  NULL = NULL
  BITS_PER_LONG = 2
  sysctl_nr_open = 4
  NOFILE = 3
  OpenCloexec = {TRUE}
SPECIFICATION Spec
SYMMETRY Symmetry
INVARIANTS RefExact TableConsistent NoFileLeft
VIEW MCView
CONSTRAINT Bounded
