\* A subscriber and a SendMessage stream, a channel and pages that overflow, and
\* two goroutines that publish: the chat handler and another.
SPECIFICATION FairSpec
CONSTANTS
  Writers = {w1}
  Subscribers = {s1}
  Chats = {c1}
  Listers = {}
  None = None
  Buffer = 2
  ReplayLimit = 2
  MaxSeq = 4
INVARIANTS
  TypeOK
  ChatComplete
PROPERTIES
  InOrder
  LostOnlyAtLimits
  ChatEndStreamed
\* The log is bounded.
CHECK_DEADLOCK FALSE
