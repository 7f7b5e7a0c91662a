SPECIFICATION Spec
CONSTANTS
  Symbols = {0, 1, 2, 4, 6}
  MaxLen = 5
  SkewedSequences <- MCSkewed
  CodeWidths = {4, 8}
  MAX_QUAD_LEVELS = 64
  Stored <- MCStored
INVARIANTS
  NoPanic
  CodesPrefixFree
  CommonCodesShorter
  RoundTrip
  PointQueriesExact
  OccsRangeExact
CHECK_DEADLOCK FALSE
