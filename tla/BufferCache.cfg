SPECIFICATION Spec
CONSTANTS
  NULL = NULL
  k1 = k1
  k2 = k2
  k3 = k3
  Tasks = {p, q}
  Blocks = {k1, k2, k3}
  DevOf <- Devices
  AheadOf <- NextBlock
  NR_BUFFERS = 2
  NR_INODE = 1
  InodeBlock <- InodeBlocks
  Ops = {"file_read", "file_write", "block_write", "chmod"}
  MaxOps = 2
  MaxErrors = 1
  SlotsScarce = TRUE
INVARIANTS UniqueBlock CountExact HeldKeepsBlock LockHasOneOwner
SYMMETRY Symmetry
CHECK_DEADLOCK FALSE
