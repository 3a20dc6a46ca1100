\* A run that is executed twice, creating the same file; a worker with a tool job
\* and a model job; two orchestrators started on one database.
SPECIFICATION PartSpec
CONSTANTS
  r1 = r1
  Runs = {r1}
  Calls = {a1, a2}
  RunOf <- OneRun
  None = None
  Jobs = {j1, j2}
  ToolJobs = {j1}
  NoJob = NoJob
  Window = 1
  MaxText = 1
  Processes = {p1, p2}
  NoProcess = NoProcess
  Last = 2
  Handlers = {h1, h2, h3}
  Streams = {h1, h2}
  Internal = {h2}
INVARIANTS
  TypeOK
  RowsTellTheTruth
  WrittenByConsent
  WaitingIsAsked
  CreatedOncePerRun
  ProcessTypeOK
  TableIsTrue
  MigratedOnceInOrder
  DatabaseOutlivesHandlers
PROPERTIES
  CallsEnd
  ImplementsReports
  WorkEnds
  StopEnds
\* Every call and every job may be over.
CHECK_DEADLOCK FALSE
