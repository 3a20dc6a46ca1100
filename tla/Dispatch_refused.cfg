\* A refused approval fails the run and leaves its stream open.
SPECIFICATION FairSpec
CONSTANTS
  Runs = {r1}
  WorkerIds = {w1}
  None = None
  Conns = {c1}
  WorkerOf <- SameId
  MaxConcurrent = 1
  ToolRuns = {r1}
  Faults = {}
  MaxFaults = 0
  NoteWindow = 1
PROPERTIES
  FailedStreamEnds
\* Every run may end and every worker may be gone.
CHECK_DEADLOCK FALSE
