\* A worker disconnects while the user is asked.
SPECIFICATION Spec
CONSTANTS
  Runs = {r1}
  WorkerIds = {w1}
  None = None
  Conns = {c1}
  WorkerOf <- SameId
  MaxConcurrent = 1
  ToolRuns = {r1}
  Faults = {"drop"}
  MaxFaults = 1
  NoteWindow = 1
INVARIANTS
  UnfinishedIsHeld
\* Every run may end and every worker may be gone.
CHECK_DEADLOCK FALSE
