SPECIFICATION Spec
CONSTANTS
  NULL = NULL
  Procs = {p1, p2}
  Bufs <- TwoDisks
  NR_REQUEST = 2
INVARIANT SleeperIsQueued
CHECK_DEADLOCK FALSE
