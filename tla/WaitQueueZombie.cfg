SPECIFICATION SleepSpec
CONSTANTS
  NIL = NIL
  Tasks = {a, b}
  Queues = {i}
INVARIANT ZombieStaysDead
CHECK_DEADLOCK FALSE
