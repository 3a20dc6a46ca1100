\* An approval run on two workers, restarts of the orchestrator included.
SPECIFICATION Spec
CONSTANTS
  Runs = {r1}
  WorkerIds = {c1, c2}
  None = None
  Conns = {c1, c2}
  WorkerOf <- OwnId
  MaxConcurrent = 1
  ToolRuns = {r1}
  Faults = {"drop", "hangup", "restart"}
  MaxFaults = 1
  NoteWindow = 1
INVARIANTS
  LeaseNamesHolder
PROPERTIES
  FinishedForever
  ImplementsLifecycle
\* Every run may end and every worker may be gone.
CHECK_DEADLOCK FALSE
