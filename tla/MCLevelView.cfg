SPECIFICATION SpecView
CONSTANTS
  WORD = 1
  BLOCKS_IN_SUPERBLOCK = 2
  SELECT_NUM_SAMPLES = 3
  COUNTER_BITS = 3
  Symbols = {0, 2}
  MaxLen = 12
  MaxStored = 8
  MaxAltered = 1
INVARIANTS
  TablesExact
  QueriesExact
  StoredIsAccepted
  AcceptedIsExact
  SelectAfterIsSelect
CHECK_DEADLOCK FALSE
