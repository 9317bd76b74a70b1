SPECIFICATION FairSpec
CONSTANTS
  s1 = s1
  s2 = s2
  j1 = j1
  j2 = j2
  SyncRequests = {s1}
  JobRequests = {j1}
  SlidesOf <- MCSlidesOf
  Runners = {x1}
  Backends = {"json", "sql"}
  Limits = {2, 3}
  Failures = FALSE
  QueueMayFill = TRUE
  Reopens = FALSE
  MaxRuns = 2
  MaxCrashes = 1
PROPERTIES JobsSettle RequestsSettle
CHECK_DEADLOCK FALSE
