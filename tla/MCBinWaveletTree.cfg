SPECIFICATION Spec
CONSTANTS
  Symbols = {0, 1, 2, 5}
  MaxLen = 5
  CODE_BITS = 4
  TYPE_BITS = 3
  MaxStored = 4
INVARIANTS
  BuiltIsAccepted
  PointQueriesExact
  OccsRangeExact
CHECK_DEADLOCK FALSE
