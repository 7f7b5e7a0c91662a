SPECIFICATION Spec
CONSTANTS
  b1 = b1
  b2 = b2
  p1 = p1
  p2 = p2
  o1 = o1
  s1 = s1
  s2 = s2
  Builders = {b1, b2}
  Procs = {p1, p2}
  ProcOf <- TwoProcesses
  Pids = {1}
  PidOf <- SamePid
  Outputs = {o1}
  Scratches = {s1, s2}
  SourceRows = {1}
  Jobs <- SharedOutputJobs
  MaxLevels = 1
  MaxBuilds = 3
  MaxId = 3
  MaxFaults = 1
  MaxSourceWrites = 0
INVARIANT
  OutputComplete
CHECK_DEADLOCK FALSE
