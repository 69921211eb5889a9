SPECIFICATION SleepSpec
CONSTANTS
  NIL = NIL
  Tasks = {a, b, c}
  Queues = {q, r}
INVARIANTS NoOrphan ProperChains
PROPERTIES WaitSetSpec ReleasedReturns
CHECK_DEADLOCK FALSE
