SPECIFICATION Spec
CONSTANTS
  NR_TASKS = 4
  PID_MAX = 4
  FirstPid = 3
  PRIORITY = 1
  MaxForks = 1
  Named = {1, 2}
  Masks <- NoneOrChild
  NULL = NULL
INVARIANT FatherLives
PROPERTIES Reaped NoStarvation
