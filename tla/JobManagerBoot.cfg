SPECIFICATION FairSpec
CONSTANTS
  NumJobs = 1
  Workers = {w1}
  Recoverers = {boot}
  Boot = boot
  Clients = {}
  QueueCap = 2
  ListLimit = 1
  SaveOutcomes = {"ok"}
  MaxCrashes = 1
  MayStall = FALSE
  MayExpire = FALSE
  RunnerNeedsServer = TRUE
PROPERTIES OpenJobsResume
