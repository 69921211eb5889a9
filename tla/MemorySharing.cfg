SPECIFICATION Spec
CONSTANTS
  NULL = NULL
  text = text
  stack = stack
  Tasks = {t1, t2}
  InitTask = t1
  Pages = {1, 2, 3, 4, 5, 6, 7, 8}
  Addrs = {text, stack}
  Loaded = {text}
  Stack = stack
  SysAddrs = {text, stack}
  Dirs = {0, 1}
  DirOf <- TwoTables
  Execs = {sh}
INVARIANT Isolation
CHECK_DEADLOCK FALSE
