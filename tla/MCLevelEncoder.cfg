SPECIFICATION Spec
CONSTANTS
  WORD = 2
  BLOCKS_IN_SUPERBLOCK = 2
  SELECT_NUM_SAMPLES = 3
  COUNTER_BITS = 3
  PIECE_ROWS = 2
  WRAP = 60
  Symbols = {0, 2}
  MaxRows = 12
INVARIANTS
  NoCounterError
  FilesMatchSupport
  AuxWithinBound
CHECK_DEADLOCK FALSE
