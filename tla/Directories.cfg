CONSTANTS
    Procs = {p1, p2}
    Nums = {1, 2, 3, 4}
    Zones = {1, 2, 3, 4, 5}
    PerBlock = 2
    Calls <- MeetingCalls
    NR_OPEN = 2
    NR_FILE = 2
    MaxOps = 2
SPECIFICATION NamesSpec
SYMMETRY Perms
INVARIANTS Balanced TreeExact
CHECK_DEADLOCK FALSE
