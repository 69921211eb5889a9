CONSTANTS
    Procs = {p1, p2, p3}
    NR_INODE = 2
    Nums = {1, 2}
    Zones = {1, 2, 3}
    Depth <- TwoWays
    MaxOps = 2
    NULL = NULL
SPECIFICATION Spec
SYMMETRY Perms
INVARIANTS CountExact InodeKept ZonesExact
CHECK_DEADLOCK FALSE
