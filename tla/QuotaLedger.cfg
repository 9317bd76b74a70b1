SPECIFICATION Spec
CONSTANTS
  s1 = s1
  s2 = s2
  j1 = j1
  j2 = j2
  SyncRequests = {s1}
  JobRequests = {j1}
  SlidesOf <- MCSlidesOf
  Runners = {x1, x2}
  Backends = {"json", "sql"}
  Limits = {2, 3}
  Failures = TRUE
  QueueMayFill = TRUE
  Reopens = TRUE
  MaxRuns = 2
  MaxCrashes = 1
INVARIANTS TypeOK LedgerOK NothingPhantom
SYMMETRY Symmetry
CHECK_DEADLOCK FALSE
