\* Two runs, one of which needs an approval, on a worker with one slot; they
\* stream nothing before they call, end or fail.
SPECIFICATION Spec
CONSTANTS
  Runs = {r1, r2}
  WorkerIds = {w1}
  None = None
  Conns = {c1}
  WorkerOf <- SameId
  MaxConcurrent = 1
  ToolRuns = {r1}
  Faults = {"drop", "hangup", "empty_answer"}
  MaxFaults = 1
  NoteWindow = 0
INVARIANTS
  TypeOK
  RunJobAgree
  TerminalEventOnce
  StartedPerAttempt
  CapacityRespected
\* Every run may end and every worker may be gone.
CHECK_DEADLOCK FALSE
