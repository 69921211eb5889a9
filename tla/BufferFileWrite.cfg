SPECIFICATION Spec
CONSTANTS
  NULL = NULL
  k1 = k1
  k2 = k2
  k3 = k3
  Tasks = {p, q}
  Blocks = {k1}
  DevOf <- OneDevice
  AheadOf <- NoAhead
  NR_BUFFERS = 2
  NR_INODE = 0
  InodeBlock <- InodeBlocks
  Ops = {"file_write", "sys_sync"}
  MaxOps = 1
  MaxErrors = 0
  SlotsScarce = FALSE
INVARIANT NothingLost
CHECK_DEADLOCK FALSE
