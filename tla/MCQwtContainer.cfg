SPECIFICATION SpecFile
CONSTANTS
  T_BITS = 6
  USIZE_BITS = 8
  Symbols = {0, 1, 6, 17, 33, 62}
  Probes = {0, 1, 2, 6, 17, 21, 33, 62, 63}
  MaxLen = 5
  PartLens = {0, 3}
  PartSigmas = {0, 3, 7, 15, 16}
  STACK_SIZE = 10
  Targets = {0, 2, 5, 18, 62}
  LINE = 1
  BLOCKS = 1
  SAMPLES = 1
  Widths = {6, 4}
  MaxSaved = 2
  MaxWalked = 4
  MaxAltered = 1
INVARIANTS
  LevelsExact
  PointQueriesExact
  SelectExact
  ExtractIsSort
  StackBounded
  YieldsInOrder
  NoRowLost
  NextValueExact
  SavedCanBeRead
  ReadersAgree
  ViewExact
  CursorExact
CHECK_DEADLOCK FALSE
