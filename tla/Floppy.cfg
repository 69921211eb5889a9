SPECIFICATION Spec
CONSTANTS
  Blocks <- ThreeBlocks
  Drives = {0, 1}
  Size = 6
  Cyl = 2
  SpinUp = 3
  RunOn = 5
  Latency = 1
  MAX_ERRORS = 1
  MaxFaults = 1
  TIME_REQUESTS = 2
  MaxOvertaken = 1
  NULL = NULL
INVARIANTS DriveReady SelectReleased
PROPERTY EveryRequestServed
