\* A refused approval ends the stream of the worker.
SPECIFICATION Spec
CONSTANTS
  Runs = {r1}
  WorkerIds = {w1}
  None = None
  Conns = {c1}
  WorkerOf <- SameId
  MaxConcurrent = 1
  ToolRuns = {r1}
  Faults = {}
  MaxFaults = 0
  NoteWindow = 1
INVARIANTS
  StreamsStay
\* Every run may end and every worker may be gone.
CHECK_DEADLOCK FALSE
