SPECIFICATION FairSpec
CONSTANTS
  NumJobs = 2
  Workers = {w1}
  Recoverers = {boot}
  Boot = boot
  Clients = {}
  QueueCap = 3
  ListLimit = 2
  SaveOutcomes = {"ok"}
  MaxCrashes = 1
  MayStall = FALSE
  MayExpire = FALSE
  RunnerNeedsServer = FALSE
PROPERTIES PollingEnds OpenJobsResume
