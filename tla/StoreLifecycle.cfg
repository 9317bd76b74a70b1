SPECIFICATION Spec
CONSTANTS
  Locations = {file, db}
  Files = {file}
  Nowhere = Nowhere
  Kinds = {"users", "usages", "settings", "concurrency", "jobs"}
  Requests = {r}
  Managers = {m1, m2}
  MaxOpens = 3
  MaxVersion = 2
  MaxWrites = 2
  MaxCrashes = 1
INVARIANTS TypeOK NothingElseLost RestartFindsStore
PROPERTIES OneInitial
CHECK_DEADLOCK FALSE
SYMMETRY Symmetry
CONSTRAINT FewWrites
