SPECIFICATION PipeSpec
CONSTANTS
  NULL = NULL
  Readers = {r1, r2}
  Writers = {w1}
  PAGE_SIZE = 4
  MaxBytes = 4
  Total = 5
INVARIANTS RingExact InOrder NotBothAsleep
PROPERTIES NobodyForgotten CallsReturn
CHECK_DEADLOCK FALSE
