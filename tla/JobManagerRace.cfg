SPECIFICATION Spec
CONSTANTS
  NumJobs = 1
  Workers = {w1, w2}
  Recoverers = {boot}
  Boot = boot
  Clients = {c1}
  QueueCap = 1
  ListLimit = 1
  SaveOutcomes = {"ok", "lost"}
  MaxCrashes = 0
  MayStall = TRUE
  MayExpire = TRUE
  RunnerNeedsServer = TRUE
INVARIANTS PayloadKept NoJobStranded
SYMMETRY Symmetry
