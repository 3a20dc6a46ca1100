\* A subscriber further behind than two replays.
SPECIFICATION Spec
CONSTANTS
  Writers = {w1}
  Subscribers = {s1}
  Chats = {}
  Listers = {}
  None = None
  Buffer = 4
  ReplayLimit = 1
  MaxSeq = 4
INVARIANTS
  GapNeverSilent
\* The log is bounded.
CHECK_DEADLOCK FALSE
