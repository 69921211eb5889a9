SPECIFICATION Spec
CONSTANTS
  Blocks <- FourBlocks
  start_sect <- Starts
  nr_sects <- Sizes
  Sect = 3
  Head_ = 2
  MAX_ERRORS = 3
  NULL = NULL
INVARIANTS Outstanding OneSweep
PROPERTIES Transferred EveryRequestServed
