SPECIFICATION Spec
CONSTANTS
  NULL = NULL
  k1 = k1
  k2 = k2
  k3 = k3
  Tasks = {p, q}
  Blocks = {k1, k2, k3}
  DevOf <- Devices
  AheadOf <- NextBlock
  NR_BUFFERS = 2
  NR_INODE = 1
  InodeBlock <- InodeBlocks
  Ops = {"block_write", "sync_dev", "sys_sync", "chmod"}
  MaxOps = 2
  MaxErrors = 0
  SlotsScarce = FALSE
INVARIANTS NothingLost ReadsLatest
PROPERTY EveryoneFinishes
CHECK_DEADLOCK FALSE
