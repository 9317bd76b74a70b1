SPECIFICATION Spec
CONSTANTS
  NumJobs = 2
  Workers = {w1}
  Recoverers = {boot}
  Boot = boot
  Clients = {}
  QueueCap = 1
  ListLimit = 1
  SaveOutcomes = {"ok", "applied"}
  MaxCrashes = 1
  MayStall = FALSE
  MayExpire = FALSE
  RunnerNeedsServer = TRUE
INVARIANTS TypeOK PayloadKept NoJobStranded KnownJobsPersisted
