SPECIFICATION Spec
CONSTANTS
  Admins = {a1, a2}
  MaxRequests = 3
  Runs = {r1}
  p1 = p1
  Providers = {p1}
  None = None
  Workflows <- MCWorkflows
INVARIANTS FailuresExplained NotesReachOutline
PROPERTIES WorkflowPreserved
SYMMETRY Symmetry
CHECK_DEADLOCK FALSE
