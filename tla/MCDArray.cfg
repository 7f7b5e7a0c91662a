SPECIFICATION Spec
CONSTANTS
  WORD_BITS = 3
  LINE_WORDS = 2
  Overwriting = FALSE
  MaxLen = 14
  SUPERBLOCK_LINES = 2
  NARROW_HINT = 4
  WIDE_HINT = 7
  BLOCK_SIZE = 4
  SUBBLOCK_SIZE = 2
  MAX_IN_BLOCK_DISTANCE = 6
INVARIANTS
  VectorExact
  QueriesExact
  BlocksExact
  SelectExactUnmixed
CHECK_DEADLOCK FALSE
