\* Finished runs give their slot back, and running runs end.
SPECIFICATION FairSpec
CONSTANTS
  Runs = {r1}
  WorkerIds = {w1}
  None = None
  Conns = {c1}
  WorkerOf <- SameId
  MaxConcurrent = 1
  ToolRuns = {r1}
  Faults = {"drop", "hangup"}
  MaxFaults = 2
  NoteWindow = 1
PROPERTIES
  SlotsFreed
  RunningEnds
\* Every run may end and every worker may be gone.
CHECK_DEADLOCK FALSE
