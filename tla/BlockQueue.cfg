SPECIFICATION Spec
CONSTANTS
  NULL = NULL
  Procs = {p1, p2}
  Bufs <- TwoDisks
  NR_REQUEST = 2
INVARIANTS QueuesSound LockOwned
CHECK_DEADLOCK FALSE
