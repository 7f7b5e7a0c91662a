SPECIFICATION Spec
CONSTANTS
  b1 = b1
  b2 = b2
  p1 = p1
  p2 = p2
  o1 = o1
  s1 = s1
  s2 = s2
  Builders = {b1, b2}
  Procs = {p1}
  ProcOf <- OneProcess
  Pids = {101}
  PidOf <- OwnPid
  Outputs = {o1}
  Scratches = {s1, s2}
  SourceRows = {0, 1}
  Jobs <- MCJobs
  MaxLevels = 2
  MaxBuilds = 2
  MaxId = 3
  MaxFaults = 1
  MaxSourceWrites = 1
INVARIANTS
  TypeOK
  OutputComplete
  TmpIsMine
  NoLeftovers
  WorkspaceWithinBudget
PROPERTIES
  EveryCallReturns
  AtomicSpec
CHECK_DEADLOCK FALSE
