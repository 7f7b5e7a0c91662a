SPECIFICATION SpecIter
CONSTANTS
  T_BITS = 4
  USIZE_BITS = 4
  Symbols = {0, 1, 2, 3, 6, 13}
  Probes = {}
  MaxLen = 2
  PartLens = {}
  PartSigmas = {}
  STACK_SIZE = 7
  Targets = {0, 2, 5, 13}
INVARIANT NextValueExact
CHECK_DEADLOCK FALSE
