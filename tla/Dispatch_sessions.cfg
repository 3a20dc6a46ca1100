\* Two sessions of one worker id, one run, two disturbances.
SPECIFICATION Spec
CONSTANTS
  Runs = {r1}
  WorkerIds = {w1}
  None = None
  Conns = {c1, c2}
  WorkerOf <- SameId
  MaxConcurrent = 1
  ToolRuns = {r1}
  Faults = {"drop", "hangup"}
  MaxFaults = 2
  NoteWindow = 1
INVARIANTS
  OneHolder
  OneSessionPerId
PROPERTIES
  NeverDropped
\* Every run may end and every worker may be gone.
CHECK_DEADLOCK FALSE
