\* A client lists a log while one goroutine appends and a subscriber follows; two
\* messages of one session are answered, each within two attempts; two requests meet
\* at one file.
SPECIFICATION PartSpec
CONSTANTS
  Writers = {w1}
  Subscribers = {s1}
  Chats = {}
  Listers = {l1}
  None = None
  Buffer = 4
  ReplayLimit = 4
  MaxSeq = 4
  Asked = {m1, m2}
  History = 3
  MaxPieces = 1
  MaxTries = 2
  Around = 1
  MaxText = 6
  Requests = {q1, q2}
  Texts <- FileTexts
  Nobody = Nobody
  MaxReadBytes = 3
  Exact = 4
  MaxInt = 5
  Largest = 7
  Lifetime = 1
INVARIANTS
  PartTypeOK
  PageComplete
  AnswerIsWhatWasHeard
  PromptIsAWindow
  UncrossedWritesAreTrue
  ReadsAreWhole
  TextsCutWhole
  ArgumentsSurvive
\* The log, the attempts and the requests are bounded.
CHECK_DEADLOCK FALSE
