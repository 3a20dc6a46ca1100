\* Queued runs are served by the connected worker.
SPECIFICATION FairSpec
CONSTANTS
  Runs = {r1, r2}
  WorkerIds = {w1}
  None = None
  Conns = {c1}
  WorkerOf <- SameId
  MaxConcurrent = 1
  ToolRuns = {}
  Faults = {"drop"}
  MaxFaults = 1
  NoteWindow = 1
PROPERTIES
  QueuedServed
\* Every run may end and every worker may be gone.
CHECK_DEADLOCK FALSE
