-------------------------- MODULE ToolCalls_proofs --------------------------
(***************************************************************************)
(* The type invariant of ToolCalls and its safety invariants, for any runs *)
(* and any attempts to execute them.                                       *)
(***************************************************************************)
EXTENDS ToolCalls, SequenceTheorems, FiniteSetTheorems, TLAPS

(***************************************************************************)
(* The inductive invariant                                                 *)
(***************************************************************************)
\* The posts of one call the reader has not read, whatever it has read before.
Kinds == {"before", "after", "end"}
B   == <<"before">>
BAE == <<"before", "after", "end">>
AE  == <<"after", "end">>
A   == <<"after">>
E   == <<"end">>
Ups == {<< >>, B, BAE, AE, A, E}

\* An attempt that has begun and whose run has not been requeued since.
Live(c) == pc[c] \notin {"idle", "requeued"}

\* c and d are different attempts of one run.
Siblings(c, d) == c # d /\ RunOf[c] = RunOf[d]

Types ==
  /\ run \in [Runs -> RunStatus]
  /\ row \in [Calls -> RowStatus]
  /\ approval \in [Calls -> ApprovalStatus]
  /\ old \in SUBSET Calls
  /\ decider \in [Calls -> {"idle", "signed"}]
  /\ pc \in [Calls -> PC]
  /\ outcome \in [Calls -> Outcome]
  /\ up \in [Calls -> Ups]
  /\ reader \in [Calls -> Reader]
  /\ request \in [Calls -> Request]
  /\ file \in Calls \union {None}
  /\ wrote \in SUBSET Calls

\* Where the goroutine and the reader of one call are, and what is between them.
InStep(c) ==
  /\ outcome[c] = "none" => up[c] \in {<< >>, B} /\ reader[c] \notin {"after", "answered"}
  /\ pc[c] \in {"idle", "before", "waiting", "calling"} => outcome[c] = "none"
  /\ pc[c] \in {"idle", "waiting", "calling", "gone", "requeued"} => up[c] = << >> /\ reader[c] = "idle"
  /\ pc[c] = "after" => /\ outcome[c] # "none"
                        /\ up[c] \in {<< >>, A} /\ reader[c] \in {"idle", "after", "answered"}
                        /\ up[c] = << >> \/ reader[c] = "idle"
  /\ pc[c] = "before" => up[c] = B \/ reader[c] # "idle"
  /\ up[c] \in {B, BAE} => reader[c] = "idle"
  /\ reader[c] \in {"before", "recorded", "asked"} => up[c] \in {<< >>, AE}

\* An approval exists once the BEFORE beacon has been handled, and no sooner.
Asked(c) ==
  /\ approval[c] = "absent" =>
       /\ pc[c] \notin {"waiting", "calling", "after"}
       /\ reader[c] \in {"idle", "before", "recorded"}
       /\ reader[c] = "idle" => up[c] \in {<< >>, B, BAE}
       /\ row[c] \in {"absent", "requested"}
  /\ reader[c] \in {"before", "recorded"} \/ up[c] \in {B, BAE} \/ pc[c] = "idle"
       => approval[c] = "absent"

\* What the file server has done, and what the goroutine and the row say of it.
Told(c) ==
  /\ pc[c] \in {"idle", "before", "waiting"} => request[c] = "none"
  /\ request[c] # "none" => approval[c] \in {"approved", "consumed"}
  /\ request[c] \in {"consumed", "absent", "written"} => approval[c] = "consumed"
  /\ request[c] = "written" <=> c \in wrote
  /\ outcome[c] = "completed" => request[c] = "written"
  /\ outcome[c] = "denied" => request[c] = "none"
  /\ row[c] \in {"completed", "failed", "denied"} => row[c] = outcome[c]
  /\ reader[c] = "answered" => row[c] = outcome[c]
  /\ c \in wrote => file # None

CallInv == \A c \in Calls : InStep(c) /\ Asked(c) /\ Told(c)

\* A run has one live attempt at most, and none while it is queued.
OneAttempt ==
  /\ \A c \in Calls : StatusOf(c) = "queued" => ~Live(c)
  /\ \A c, d \in Calls : Siblings(c, d) => ~Live(c) \/ ~Live(d)

\* One undecided approval at most, and never another attempt beside it.
OneQuestion ==
  /\ \A c \in Calls :
       approval[c] = "pending" => StatusOf(c) \in {"waiting_approval", "failed",
            "cancelled"}
  /\ \A c, d \in Calls :
       Siblings(c, d) /\ approval[c] = "pending" => ~Live(d) /\ approval[d] # "pending"
  /\ \A r \in Runs :
       run[r] = "waiting_approval" => \E c \in CallsOf(r) : approval[c] = "pending"

\* The end of a run is on the stream once its call's row is final, or in vain.
EndInTurn(c) ==
  /\ up[c] \in {AE, BAE} => StatusOf(c) = "cancelled"
  /\ up[c] = E => StatusOf(c) = "cancelled" \/ row[c] = outcome[c]

\* An attempt that reports the file as created is the last one that can.
OneReport ==
  \A c, d \in Calls :
    Siblings(c, d) /\ row[c] = "completed" =>
      /\ row[d] # "completed"
      /\ pc[d] = "requeued" \/ request[d] \notin {"absent", "written"}

CompletedReported ==
  \A r \in Runs :
    run[r] = "completed" => \E c \in CallsOf(r) : row[c] = "completed"

CallsInv ==
  /\ Types /\ CallInv /\ OneAttempt /\ OneQuestion
  /\ \A c \in Calls : EndInTurn(c)
  /\ OneReport /\ CompletedReported

(***************************************************************************)
(* The posts                                                               *)
(***************************************************************************)

\* The posts that are appended in a step, in the states they are appended in.
LEMMA Appends ==
  /\ << >> \o B = B /\ B \o << >> = B /\ << >> \o << >> = << >>
  /\ << >> \o A = A /\ << >> \o E = E /\ << >> \o AE = AE
  /\ A \o E = AE /\ B \o AE = BAE
<1>1. << >> \o B = B
  BY DEF B
<1>2. B \o << >> = B
  BY DEF B
<1>3. << >> \o << >> = << >>
  OBVIOUS
<1>4. << >> \o A = A /\ << >> \o E = E /\ << >> \o AE = AE
  BY DEF A, E, AE
<1>5. A \o E = AE
  <2>1. A \o E \in Seq(Kinds) /\ AE \in Seq(Kinds)
    BY DEF A, E, AE, Kinds
  <2>2. Len(A \o E) = 2 /\ Len(AE) = 2
    BY DEF A, E, AE
  <2>3. (A \o E)[1] = "after" /\ (A \o E)[2] = "end"
    BY DEF A, E
  <2>4. AE[1] = "after" /\ AE[2] = "end"
    BY DEF AE
  <2>5. \A i \in 1 .. Len(A \o E) : (A \o E)[i] = AE[i]
    BY <2>2, <2>3, <2>4
  <2> QED BY <2>1, <2>2, <2>5, SeqEqual
<1>6. B \o AE = BAE
  <2>1. B \o AE \in Seq(Kinds) /\ BAE \in Seq(Kinds)
    BY DEF B, AE, BAE, Kinds
  <2>2. Len(B \o AE) = 3 /\ Len(BAE) = 3
    BY DEF B, AE, BAE
  <2>3. (B \o AE)[1] = "before" /\ (B \o AE)[2] = "after" /\ (B \o AE)[3] = "end"
    BY DEF B, AE
  <2>4. BAE[1] = "before" /\ BAE[2] = "after" /\ BAE[3] = "end"
    BY DEF BAE
  <2>5. \A i \in 1 .. Len(B \o AE) : (B \o AE)[i] = BAE[i]
    BY <2>2, <2>3, <2>4
  <2> QED BY <2>1, <2>2, <2>5, SeqEqual
<1> QED BY <1>1, <1>2, <1>3, <1>4, <1>5, <1>6

\* What the reader takes from each of them, and what is left.
LEMMA HeadsAndTails ==
  /\ Head(B) = "before" /\ Head(BAE) = "before"
  /\ Head(AE) = "after" /\ Head(A) = "after" /\ Head(E) = "end"
  /\ Tail(B) = << >> /\ Tail(BAE) = AE /\ Tail(AE) = E /\ Tail(A) = << >> /\ Tail(E) = << >>
<1>1. Head(B) = "before" /\ Head(BAE) = "before" /\ Head(AE) = "after" /\ Head(A) = "after" /\ Head(E) = "end"
  BY DEF A, B, AE, BAE, E
<1>2. Tail(B) = << >> /\ Tail(A) = << >> /\ Tail(E) = << >>
  BY DEF A, B, E
<1>3. Tail(AE) = E
  BY DEF AE, E
<1>4. Tail(BAE) = AE
  BY DEF AE, BAE
<1> QED BY <1>1, <1>2, <1>3, <1>4

\* No two of them are the same.
LEMMA Distinct ==
  /\ << >> # B /\ << >> # BAE /\ << >> # AE /\ << >> # A /\ << >> # E
  /\ B # BAE /\ B # AE /\ B # A /\ B # E
  /\ BAE # AE /\ BAE # A /\ BAE # E /\ AE # A /\ AE # E /\ A # E
BY DEF A, B, AE, BAE, E

(***************************************************************************)
(* Each part of the invariant is kept by every step                        *)
(***************************************************************************)

\* Goroutine, reader and the posts between them stay in step.
LEMMA InStepKept ==
  ASSUME Types, CallInv, NEW d \in Calls, [Next]_vars
  PROVE  InStep(d)'
<1>1. ASSUME NEW c \in Calls, Begin(c) PROVE InStep(d)'
  BY <1>1, Appends, Distinct DEF Begin, Goes, SetRun, StatusOf, rowVars, workerVars,
       fileVars, Types, CallInv, InStep, Ups, B, BAE, AE, A, E
<1>2. ASSUME NEW c \in Calls, PollApproved(c) PROVE InStep(d)'
  BY <1>2, Appends, Distinct DEF PollApproved, Goes, rowVars, workerVars, fileVars,
       Types, CallInv, InStep, Ups, B, BAE, AE, A, E
<1>3. ASSUME NEW c \in Calls, PollRefused(c) \/ PollTimesOut(c) \/ PollFails(c) \/
     CallAnswered(c) \/ CallLost(c)
      PROVE  InStep(d)'
  BY <1>3, Appends, Distinct DEF PollRefused, PostsAfter, Goes, PollTimesOut,
       PollFails, CallAnswered, CallLost, rowVars, workerVars, fileVars, Types,
       CallInv, InStep, Ups, B, BAE, AE, A, E
<1>4. ASSUME NEW c \in Calls, Interrupted(c) PROVE InStep(d)'
  <2>1. CASE pc[c] = "after"
    <3>1. up[c] \in {<< >>, A}
      BY <2>1 DEF CallInv, InStep
    <3>2. up'[c] = IF up[c] = A THEN AE ELSE E
      BY <1>4, <2>1, <3>1, Appends, Distinct DEF Interrupted, Goes, Types, A, E, AE
    <3>3. \A x \in Calls : x # c => up'[x] = up[x]
      BY <1>4 DEF Interrupted, Goes, Types
    <3>4. pc' = [pc EXCEPT ![c] = "done"] /\ UNCHANGED <<reader, approval, row>>
      BY <1>4 DEF Interrupted, Goes, rowVars
    <3> QED
      BY <1>4, <2>1, <3>1, <3>2, <3>3, <3>4, Distinct DEF Interrupted, Types,
           CallInv, InStep
  <2>2. CASE pc[c] # "after"
    <3>1. up[c] \in {<< >>, B}
      BY <1>4, <2>2 DEF Interrupted, CallInv, InStep
    <3>2. up'[c] = IF up[c] = B THEN BAE ELSE AE
      BY <1>4, <2>2, <3>1, Appends, Distinct DEF Interrupted, Goes, Types, B, AE, BAE
    <3>3. \A x \in Calls : x # c => up'[x] = up[x]
      BY <1>4 DEF Interrupted, Goes, Types
    <3>4. pc' = [pc EXCEPT ![c] = "done"] /\ pc[c] \in {"before", "waiting", "calling"}
          /\ UNCHANGED <<reader, approval, row>>
      BY <1>4, <2>2 DEF Interrupted, Goes, rowVars
    <3> QED
      BY <1>4, <2>2, <3>1, <3>2, <3>3, <3>4, Distinct DEF Interrupted, Types,
           CallInv, InStep
  <2> QED BY <2>1, <2>2
<1>5. ASSUME NEW c \in Calls, WorkerDrops(c) \/ ReaderRejects(c) PROVE InStep(d)'
  BY <1>5, Distinct DEF WorkerDrops, StreamEnds, Connected, ReaderRejects, ReadsNext,
       Active, StatusOf, rowVars, workerVars, fileVars, Types, CallInv, InStep, Ups,
       B, BAE, AE, A, E
<1>6. ASSUME NEW c \in Calls, Requeue(c) PROVE InStep(d)'
  BY <1>6, Distinct DEF Requeue, SetRun, StatusOf, rowVars, workerVars, fileVars,
       Types, CallInv, InStep, Ups, B, BAE, AE, A, E
<1>7. ASSUME NEW c \in Calls, ReadsBefore(c) PROVE InStep(d)'
  BY <1>7, HeadsAndTails, Distinct DEF ReadsBefore, Reads, ReadsNext, Connected,
       rowVars, workerVars, fileVars, Types, CallInv, InStep, Ups, B, BAE, AE, A, E
<1>8. ASSUME NEW c \in Calls, ReadsAfter(c) PROVE InStep(d)'
  BY <1>8, HeadsAndTails, Distinct DEF ReadsAfter, Reads, ReadsNext, Connected,
       rowVars, workerVars, fileVars, Types, CallInv, InStep, Ups, B, BAE, AE, A, E
<1>9. ASSUME NEW c \in Calls, ReadsEnd(c) PROVE InStep(d)'
  BY <1>9, HeadsAndTails, Distinct DEF ReadsEnd, ReadsNext, Connected, Active,
       Cancellable, SetRun, StatusOf, rowVars, workerVars, fileVars, Types, CallInv,
       InStep, Ups, B, BAE, AE, A, E
<1>10. ASSUME NEW c \in Calls, RecordToolCallBefore(c) PROVE InStep(d)'
  BY <1>10, Distinct DEF RecordToolCallBefore, rowVars, workerVars, fileVars, Types,
       CallInv, InStep, Ups, B, BAE, AE, A, E
<1>11. ASSUME NEW c \in Calls, CreateApproval(c) PROVE InStep(d)'
  BY <1>11, Distinct DEF CreateApproval, Cancellable, Active, SetRun, StatusOf,
       rowVars, workerVars, fileVars, Types, CallInv, InStep, Ups, B, BAE, AE, A, E
<1>12. ASSUME NEW c \in Calls, DecisionDelivered(c) PROVE InStep(d)'
  BY <1>12, Distinct DEF DecisionDelivered, rowVars, workerVars, fileVars, Types,
       CallInv, InStep, Ups, B, BAE, AE, A, E
<1>13. ASSUME NEW c \in Calls, RecordToolCallAfter(c) PROVE InStep(d)'
  BY <1>13, Distinct DEF RecordToolCallAfter, rowVars, workerVars, fileVars, Types,
       CallInv, InStep, Ups, B, BAE, AE, A, E
<1>14. ASSUME NEW c \in Calls, AfterAnswered(c) PROVE InStep(d)'
  BY <1>14, Appends, Distinct DEF AfterAnswered, Goes, rowVars, workerVars, fileVars,
       Types, CallInv, InStep, Ups, B, BAE, AE, A, E
<1>15. ASSUME NEW c \in Calls, UserStep(c) PROVE InStep(d)'
  BY <1>15, Distinct DEF UserStep, ApproveReads, ApproveCommits, ExpireApproval,
       DenyApproval, Decides, Waiting, SetRun, StatusOf, rowVars, workerVars,
       fileVars, Types, CallInv, InStep, Ups, B, BAE, AE, A, E
<1>16. ASSUME NEW c \in Calls, Ages(c) PROVE InStep(d)'
  BY <1>16, Distinct DEF Ages, rowVars, workerVars, fileVars, Types, CallInv, InStep,
       Ups, B, BAE, AE, A, E
<1>17. ASSUME NEW c \in Calls, ServerStep(c) PROVE InStep(d)'
  BY <1>17, Distinct DEF ServerStep, ConsumeApproval, ValidateFails, Stat, WriteFile,
       WriteFails, Serves, rowVars, workerVars, fileVars, Types, CallInv, InStep, Ups,
       B, BAE, AE, A, E
<1>18. ASSUME NEW r \in Runs, CancelRun(r) PROVE InStep(d)'
  BY <1>18 DEF CancelRun, rowVars, workerVars, fileVars, Types, CallInv, InStep
<1>19. CASE UNCHANGED vars
  BY <1>19 DEF vars, rowVars, workerVars, fileVars, Types, CallInv, InStep
<1> QED
  BY <1>1, <1>2, <1>3, <1>4, <1>5, <1>6, <1>7, <1>8, <1>9, <1>10, <1>11, <1>12, <1>13,
       <1>14, <1>15, <1>16, <1>17, <1>18, <1>19 DEF Next, WorkerStep, ReaderStep

\* The approval appears when the reader creates it, before anyone waits for it.
LEMMA AskedKept ==
  ASSUME Types, CallInv, NEW d \in Calls, [Next]_vars
  PROVE  Asked(d)'
<1>1. ASSUME NEW c \in Calls, Begin(c) PROVE Asked(d)'
  BY <1>1, Appends, Distinct DEF Begin, Goes, SetRun, StatusOf, rowVars, workerVars,
       fileVars, Types, CallInv, InStep, Asked, Ups, B, BAE, AE, A, E
<1>2. ASSUME NEW c \in Calls, PollApproved(c) PROVE Asked(d)'
  BY <1>2, Appends, Distinct DEF PollApproved, Goes, rowVars, workerVars, fileVars,
       Types, CallInv, InStep, Asked, Ups, B, BAE, AE, A, E
<1>3. ASSUME NEW c \in Calls, PollRefused(c) \/ PollTimesOut(c) \/ PollFails(c) \/
     CallAnswered(c) \/ CallLost(c)
      PROVE  Asked(d)'
  BY <1>3, Appends, Distinct DEF PollRefused, PostsAfter, Goes, PollTimesOut,
       PollFails, CallAnswered, CallLost, rowVars, workerVars, fileVars, Types,
       CallInv, InStep, Asked, Ups, B, BAE, AE, A, E
<1>4. ASSUME NEW c \in Calls, Interrupted(c) PROVE Asked(d)'
  <2>1. CASE pc[c] = "after"
    <3>1. up[c] \in {<< >>, A}
      BY <2>1 DEF CallInv, InStep
    <3>2. up'[c] = IF up[c] = A THEN AE ELSE E
      BY <1>4, <2>1, <3>1, Appends, Distinct DEF Interrupted, Goes, Types, A, E, AE
    <3>3. \A x \in Calls : x # c => up'[x] = up[x]
      BY <1>4 DEF Interrupted, Goes, Types
    <3>4. pc' = [pc EXCEPT ![c] = "done"] /\ UNCHANGED <<reader, approval, row>>
      BY <1>4 DEF Interrupted, Goes, rowVars
    <3> QED
      BY <2>1, <3>1, <3>2, <3>3, <3>4, Distinct DEF Types, CallInv, InStep, Asked
  <2>2. CASE pc[c] # "after"
    <3>1. up[c] \in {<< >>, B}
      BY <1>4, <2>2 DEF Interrupted, CallInv, InStep
    <3>2. up'[c] = IF up[c] = B THEN BAE ELSE AE
      BY <1>4, <2>2, <3>1, Appends, Distinct DEF Interrupted, Goes, Types, B, AE, BAE
    <3>3. \A x \in Calls : x # c => up'[x] = up[x]
      BY <1>4 DEF Interrupted, Goes, Types
    <3>4. pc' = [pc EXCEPT ![c] = "done"] /\ pc[c] \in {"before", "waiting", "calling"}
          /\ UNCHANGED <<reader, approval, row>>
      BY <1>4, <2>2 DEF Interrupted, Goes, rowVars
    <3> QED
      BY <2>2, <3>1, <3>2, <3>3, <3>4, Distinct DEF Types, CallInv, InStep, Asked
  <2> QED BY <2>1, <2>2
<1>5. ASSUME NEW c \in Calls, WorkerDrops(c) \/ ReaderRejects(c) PROVE Asked(d)'
  <2>1. pc' = [pc EXCEPT ![c] = "gone"] /\ up' = [up EXCEPT ![c] = << >>]
        /\ reader' = [reader EXCEPT ![c] = "idle"] /\ UNCHANGED <<row, approval>>
    BY <1>5 DEF WorkerDrops, ReaderRejects, StreamEnds, rowVars
  <2>2. pc[c] # "idle"
    BY <1>5 DEF WorkerDrops, ReaderRejects, ReadsNext, Connected, CallInv, InStep
  <2> QED
    BY <2>1, <2>2, Distinct DEF Types, CallInv, InStep, Asked
<1>6. ASSUME NEW c \in Calls, Requeue(c) PROVE Asked(d)'
  BY <1>6, Distinct DEF Requeue, SetRun, StatusOf, rowVars, workerVars, fileVars,
       Types, CallInv, InStep, Asked, Ups, B, BAE, AE, A, E
<1>7. ASSUME NEW c \in Calls, ReadsBefore(c) PROVE Asked(d)'
  BY <1>7, HeadsAndTails, Distinct DEF ReadsBefore, Reads, ReadsNext, Connected,
       rowVars, workerVars, fileVars, Types, CallInv, InStep, Asked, Ups, B, BAE, AE,
       A, E
<1>8. ASSUME NEW c \in Calls, ReadsAfter(c) PROVE Asked(d)'
  <2>1. up[c] = A \/ up[c] = AE
    BY <1>8, HeadsAndTails, Distinct DEF ReadsAfter, Reads, ReadsNext, Types, Ups,
         B, BAE, AE, A, E
  <2>2. up' = [up EXCEPT ![c] = IF up[c] = A THEN << >> ELSE E]
    BY <1>8, <2>1, HeadsAndTails, Distinct DEF ReadsAfter, Reads, Types
  <2>3. reader[c] = "idle" /\ reader' = [reader EXCEPT ![c] = "after"]
        /\ UNCHANGED <<pc, approval, row>>
    BY <1>8 DEF ReadsAfter, Reads, ReadsNext, rowVars
  <2> QED
    BY <2>1, <2>2, <2>3, Distinct DEF Types, CallInv, InStep, Asked
<1>9. ASSUME NEW c \in Calls, ReadsEnd(c) PROVE Asked(d)'
  <2>1. up[c] = E
    BY <1>9, HeadsAndTails, Distinct DEF ReadsEnd, ReadsNext, Types, Ups, B, BAE, AE, A, E
  <2>2. up' = [up EXCEPT ![c] = << >>]
    BY <1>9, <2>1, HeadsAndTails DEF ReadsEnd, Types
  <2> QED
    BY <1>9, <2>1, <2>2, Distinct DEF ReadsEnd, ReadsNext, Types, CallInv, InStep, Asked
<1>10. ASSUME NEW c \in Calls, RecordToolCallBefore(c) PROVE Asked(d)'
  BY <1>10, Distinct DEF RecordToolCallBefore, rowVars, workerVars, fileVars, Types,
       CallInv, InStep, Asked, Ups, B, BAE, AE, A, E
<1>11. ASSUME NEW c \in Calls, CreateApproval(c) PROVE Asked(d)'
  BY <1>11, Distinct DEF CreateApproval, Cancellable, Active, SetRun, StatusOf,
       rowVars, workerVars, fileVars, Types, CallInv, InStep, Asked, Ups, B, BAE, AE,
       A, E
<1>12. ASSUME NEW c \in Calls, DecisionDelivered(c) PROVE Asked(d)'
  BY <1>12, Distinct DEF DecisionDelivered, rowVars, workerVars, fileVars, Types,
       CallInv, InStep, Asked, Ups, B, BAE, AE, A, E
<1>13. ASSUME NEW c \in Calls, RecordToolCallAfter(c) PROVE Asked(d)'
  BY <1>13, Distinct DEF RecordToolCallAfter, rowVars, workerVars, fileVars, Types,
       CallInv, InStep, Asked, Ups, B, BAE, AE, A, E
<1>14. ASSUME NEW c \in Calls, AfterAnswered(c) PROVE Asked(d)'
  BY <1>14, Appends, Distinct DEF AfterAnswered, Goes, rowVars, workerVars, fileVars,
       Types, CallInv, InStep, Asked, Ups, B, BAE, AE, A, E
<1>15. ASSUME NEW c \in Calls, UserStep(c) PROVE Asked(d)'
  BY <1>15, Distinct DEF UserStep, ApproveReads, ApproveCommits, ExpireApproval,
       DenyApproval, Decides, Waiting, SetRun, StatusOf, rowVars, workerVars,
       fileVars, Types, CallInv, InStep, Asked, Ups, B, BAE, AE, A, E
<1>16. ASSUME NEW c \in Calls, Ages(c) PROVE Asked(d)'
  BY <1>16, Distinct DEF Ages, rowVars, workerVars, fileVars, Types, CallInv, InStep,
       Asked, Ups, B, BAE, AE, A, E
<1>17. ASSUME NEW c \in Calls, ServerStep(c) PROVE Asked(d)'
  BY <1>17, Distinct DEF ServerStep, ConsumeApproval, ValidateFails, Stat, WriteFile,
       WriteFails, Serves, rowVars, workerVars, fileVars, Types, CallInv, InStep,
       Asked, Ups, B, BAE, AE, A, E
<1>18. ASSUME NEW r \in Runs, CancelRun(r) PROVE Asked(d)'
  BY <1>18 DEF CancelRun, rowVars, workerVars, fileVars, Types, CallInv, InStep, Asked
<1>19. CASE UNCHANGED vars
  BY <1>19 DEF vars, rowVars, workerVars, fileVars, Types, CallInv, InStep, Asked
<1> QED
  BY <1>1, <1>2, <1>3, <1>4, <1>5, <1>6, <1>7, <1>8, <1>9, <1>10, <1>11, <1>12, <1>13,
       <1>14, <1>15, <1>16, <1>17, <1>18, <1>19 DEF Next, WorkerStep, ReaderStep

\* The request needs its approval, and outcome and row follow the request.
LEMMA ToldKept ==
  ASSUME Types, CallInv, NEW d \in Calls, [Next]_vars
  PROVE  Told(d)'
<1>1. ASSUME NEW c \in Calls, Begin(c) PROVE Told(d)'
  BY <1>1, Appends, Distinct DEF Begin, Goes, SetRun, StatusOf, rowVars, workerVars,
       fileVars, Types, CallInv, InStep, Asked, Told, Ups, B, BAE, AE, A, E
<1>2. ASSUME NEW c \in Calls, PollApproved(c) PROVE Told(d)'
  BY <1>2, Appends, Distinct DEF PollApproved, Goes, rowVars, workerVars, fileVars,
       Types, CallInv, InStep, Asked, Told, Ups, B, BAE, AE, A, E
<1>3. ASSUME NEW c \in Calls, PollRefused(c) \/ PollTimesOut(c) \/ PollFails(c) \/
     CallAnswered(c) \/ CallLost(c)
      PROVE  Told(d)'
  BY <1>3, Appends, Distinct DEF PollRefused, PostsAfter, Goes, PollTimesOut,
       PollFails, CallAnswered, CallLost, rowVars, workerVars, fileVars, Types,
       CallInv, InStep, Asked, Told, Ups, B, BAE, AE, A, E
<1>4. ASSUME NEW c \in Calls, Interrupted(c) PROVE Told(d)'
  BY <1>4, Appends, Distinct DEF Interrupted, Goes, StatusOf, rowVars, workerVars,
       fileVars, Types, CallInv, InStep, Asked, Told, Ups, B, BAE, AE, A, E
<1>5. ASSUME NEW c \in Calls, WorkerDrops(c) \/ ReaderRejects(c) PROVE Told(d)'
  BY <1>5, Distinct DEF WorkerDrops, StreamEnds, Connected, ReaderRejects, ReadsNext,
       Active, StatusOf, rowVars, workerVars, fileVars, Types, CallInv, InStep, Asked,
       Told, Ups, B, BAE, AE, A, E
<1>6. ASSUME NEW c \in Calls, Requeue(c) PROVE Told(d)'
  BY <1>6, Distinct DEF Requeue, SetRun, StatusOf, rowVars, workerVars, fileVars,
       Types, CallInv, InStep, Asked, Told, Ups, B, BAE, AE, A, E
<1>7. ASSUME NEW c \in Calls, ReadsBefore(c) PROVE Told(d)'
  BY <1>7, HeadsAndTails, Distinct DEF ReadsBefore, Reads, ReadsNext, Connected,
       rowVars, workerVars, fileVars, Types, CallInv, InStep, Asked, Told, Ups, B,
       BAE, AE, A, E
<1>8. ASSUME NEW c \in Calls, ReadsAfter(c) PROVE Told(d)'
  BY <1>8, HeadsAndTails, Distinct DEF ReadsAfter, Reads, ReadsNext, Connected,
       rowVars, workerVars, fileVars, Types, CallInv, InStep, Asked, Told, Ups, B,
       BAE, AE, A, E
<1>9. ASSUME NEW c \in Calls, ReadsEnd(c) PROVE Told(d)'
  BY <1>9, HeadsAndTails, Distinct DEF ReadsEnd, ReadsNext, Connected, Active,
       Cancellable, SetRun, StatusOf, rowVars, workerVars, fileVars, Types, CallInv,
       InStep, Asked, Told, Ups, B, BAE, AE, A, E
<1>10. ASSUME NEW c \in Calls, RecordToolCallBefore(c) PROVE Told(d)'
  BY <1>10, Distinct DEF RecordToolCallBefore, rowVars, workerVars, fileVars, Types,
       CallInv, InStep, Asked, Told, Ups, B, BAE, AE, A, E
<1>11. ASSUME NEW c \in Calls, CreateApproval(c) PROVE Told(d)'
  BY <1>11, Distinct DEF CreateApproval, Cancellable, Active, SetRun, StatusOf,
       rowVars, workerVars, fileVars, Types, CallInv, InStep, Asked, Told, Ups, B,
       BAE, AE, A, E
<1>12. ASSUME NEW c \in Calls, DecisionDelivered(c) PROVE Told(d)'
  BY <1>12, Distinct DEF DecisionDelivered, rowVars, workerVars, fileVars, Types,
       CallInv, InStep, Asked, Told, Ups, B, BAE, AE, A, E
<1>13. ASSUME NEW c \in Calls, RecordToolCallAfter(c) PROVE Told(d)'
  BY <1>13, Distinct DEF RecordToolCallAfter, rowVars, workerVars, fileVars, Types,
       CallInv, InStep, Asked, Told, Ups, B, BAE, AE, A, E
<1>14. ASSUME NEW c \in Calls, AfterAnswered(c) PROVE Told(d)'
  BY <1>14, Appends, Distinct DEF AfterAnswered, Goes, rowVars, workerVars, fileVars,
       Types, CallInv, InStep, Asked, Told, Ups, B, BAE, AE, A, E
<1>15. ASSUME NEW c \in Calls, UserStep(c) PROVE Told(d)'
  BY <1>15, Distinct DEF UserStep, ApproveReads, ApproveCommits, ExpireApproval,
       DenyApproval, Decides, Waiting, SetRun, StatusOf, rowVars, workerVars,
       fileVars, Types, CallInv, InStep, Asked, Told, Ups, B, BAE, AE, A, E
<1>16. ASSUME NEW c \in Calls, Ages(c) PROVE Told(d)'
  BY <1>16, Distinct DEF Ages, rowVars, workerVars, fileVars, Types, CallInv, InStep,
       Asked, Told, Ups, B, BAE, AE, A, E
<1>17. ASSUME NEW c \in Calls, ServerStep(c) PROVE Told(d)'
  <2>1. CASE ConsumeApproval(c) \/ ValidateFails(c) \/ Stat(c)
    BY <2>1 DEF ConsumeApproval, ValidateFails, Stat, Serves, workerVars, Types,
         CallInv, Told
  <2>2. CASE WriteFile(c)
    BY <2>2, ToolCallsAssumption DEF WriteFile, Serves, workerVars, Types, CallInv, Told
  <2>3. CASE WriteFails(c)
    BY <2>3, ToolCallsAssumption DEF WriteFails, Serves, workerVars, Types, CallInv, Told
  <2> QED BY <1>17, <2>1, <2>2, <2>3 DEF ServerStep
<1>18. ASSUME NEW r \in Runs, CancelRun(r) PROVE Told(d)'
  BY <1>18 DEF CancelRun, rowVars, workerVars, fileVars, Types, CallInv, InStep,
       Asked, Told
<1>19. CASE UNCHANGED vars
  BY <1>19 DEF vars, rowVars, workerVars, fileVars, Types, CallInv, InStep, Asked,
       Told
<1> QED
  BY <1>1, <1>2, <1>3, <1>4, <1>5, <1>6, <1>7, <1>8, <1>9, <1>10, <1>11, <1>12, <1>13,
       <1>14, <1>15, <1>16, <1>17, <1>18, <1>19 DEF Next, WorkerStep, ReaderStep

\* Types are kept.
LEMMA TypesKept ==
  ASSUME Types, CallInv, [Next]_vars
  PROVE  Types'
<1>1. ASSUME NEW c \in Calls, Begin(c) PROVE Types'
  BY <1>1, Appends, Distinct DEF Begin, Goes, SetRun, StatusOf, rowVars, workerVars,
       fileVars, Types, RunStatus, RowStatus, ApprovalStatus, PC, Outcome, Reader,
       Request, CallInv, InStep, Ups, B, BAE, AE, A, E
<1>2. ASSUME NEW c \in Calls, PollApproved(c) PROVE Types'
  BY <1>2, Appends, Distinct DEF PollApproved, Goes, rowVars, workerVars, fileVars,
       Types, RunStatus, RowStatus, ApprovalStatus, PC, Outcome, Reader, Request,
       CallInv, InStep, Ups, B, BAE, AE, A, E
<1>3. ASSUME NEW c \in Calls, PollRefused(c) \/ PollTimesOut(c) \/ PollFails(c) \/
     CallAnswered(c) \/ CallLost(c)
      PROVE  Types'
  <2>1. up[c] = << >>
    BY <1>3 DEF PollRefused, PollTimesOut, PollFails, CallAnswered, CallLost,
         CallInv, InStep
  <2>2. PICK status \in Outcome : PostsAfter(c, status) /\ UNCHANGED request
    BY <1>3 DEF PollRefused, PollTimesOut, PollFails, CallAnswered, CallLost, Outcome
  <2>3. up' = [up EXCEPT ![c] = A]
    BY <2>1, <2>2, Appends DEF PostsAfter, Goes, Types, A
  <2>4. up' \in [Calls -> Ups]
    BY <2>3 DEF Types, Ups
  <2> QED
    BY <2>2, <2>4 DEF PostsAfter, Goes, rowVars, Types, PC
<1>4. ASSUME NEW c \in Calls, Interrupted(c) PROVE Types'
  BY <1>4, Appends, Distinct DEF Interrupted, Goes, StatusOf, rowVars, workerVars,
       fileVars, Types, RunStatus, RowStatus, ApprovalStatus, PC, Outcome, Reader,
       Request, CallInv, InStep, Ups, B, BAE, AE, A, E
<1>5. ASSUME NEW c \in Calls, WorkerDrops(c) \/ ReaderRejects(c) PROVE Types'
  BY <1>5, Distinct DEF WorkerDrops, StreamEnds, Connected, ReaderRejects, ReadsNext,
       Active, StatusOf, rowVars, workerVars, fileVars, Types, RunStatus, RowStatus,
       ApprovalStatus, PC, Outcome, Reader, Request, CallInv, InStep, Ups, B, BAE, AE,
       A, E
<1>6. ASSUME NEW c \in Calls, Requeue(c) PROVE Types'
  BY <1>6, Distinct DEF Requeue, SetRun, StatusOf, rowVars, workerVars, fileVars,
       Types, RunStatus, RowStatus, ApprovalStatus, PC, Outcome, Reader, Request,
       CallInv, InStep, Ups, B, BAE, AE, A, E
<1>7. ASSUME NEW c \in Calls, ReadsBefore(c) PROVE Types'
  <2>1. up[c] = B \/ up[c] = BAE
    BY <1>7, HeadsAndTails, Distinct DEF ReadsBefore, Reads, ReadsNext, Types, Ups,
         B, BAE, AE, A, E
  <2>2. up' = [up EXCEPT ![c] = IF up[c] = B THEN << >> ELSE AE]
    BY <1>7, <2>1, HeadsAndTails, Distinct DEF ReadsBefore, Reads, ReadsNext, Types
  <2>3. up' \in [Calls -> Ups]
    BY <2>1, <2>2 DEF Types, Ups
  <2> QED
    BY <1>7, <2>3 DEF ReadsBefore, Reads, ReadsNext, Active, Cancellable, SetRun,
         StatusOf, rowVars, workerVars, fileVars,
         Types, RunStatus, RowStatus, ApprovalStatus, PC, Outcome, Reader, Request
<1>8. ASSUME NEW c \in Calls, ReadsAfter(c) PROVE Types'
  <2>1. up[c] = A \/ up[c] = AE
    BY <1>8, HeadsAndTails, Distinct DEF ReadsAfter, Reads, ReadsNext, Types, Ups,
         B, BAE, AE, A, E
  <2>2. up' = [up EXCEPT ![c] = IF up[c] = A THEN << >> ELSE E]
    BY <1>8, <2>1, HeadsAndTails, Distinct DEF ReadsAfter, Reads, ReadsNext, Types
  <2>3. up' \in [Calls -> Ups]
    BY <2>1, <2>2 DEF Types, Ups
  <2> QED
    BY <1>8, <2>3 DEF ReadsAfter, Reads, ReadsNext, Active, Cancellable, SetRun,
         StatusOf, rowVars, workerVars, fileVars,
         Types, RunStatus, RowStatus, ApprovalStatus, PC, Outcome, Reader, Request
<1>9. ASSUME NEW c \in Calls, ReadsEnd(c) PROVE Types'
  <2>1. up[c] = E
    BY <1>9, HeadsAndTails, Distinct DEF ReadsEnd, ReadsNext, Types, Ups, B, BAE, AE, A, E
  <2>2. up' = [up EXCEPT ![c] = << >>]
    BY <1>9, <2>1, HeadsAndTails DEF ReadsEnd, Types
  <2>3. up' \in [Calls -> Ups]
    BY <2>2 DEF Types, Ups
  <2>4. run' \in [Runs -> RunStatus]
    BY <1>9 DEF ReadsEnd, SetRun, Types, RunStatus
  <2> QED
    BY <1>9, <2>3, <2>4 DEF ReadsEnd, fileVars, Types
<1>10. ASSUME NEW c \in Calls, RecordToolCallBefore(c) PROVE Types'
  BY <1>10, Distinct DEF RecordToolCallBefore, rowVars, workerVars, fileVars, Types,
       RunStatus, RowStatus, ApprovalStatus, PC, Outcome, Reader, Request, CallInv,
       InStep, Ups, B, BAE, AE, A, E
<1>11. ASSUME NEW c \in Calls, CreateApproval(c) PROVE Types'
  BY <1>11, Distinct DEF CreateApproval, Cancellable, Active, SetRun, StatusOf,
       rowVars, workerVars, fileVars, Types, RunStatus, RowStatus, ApprovalStatus, PC,
       Outcome, Reader, Request, CallInv, InStep, Ups, B, BAE, AE, A, E
<1>12. ASSUME NEW c \in Calls, DecisionDelivered(c) PROVE Types'
  BY <1>12, Distinct DEF DecisionDelivered, rowVars, workerVars, fileVars, Types,
       RunStatus, RowStatus, ApprovalStatus, PC, Outcome, Reader, Request, CallInv,
       InStep, Ups, B, BAE, AE, A, E
<1>13. ASSUME NEW c \in Calls, RecordToolCallAfter(c) PROVE Types'
  BY <1>13, Distinct DEF RecordToolCallAfter, rowVars, workerVars, fileVars, Types,
       RunStatus, RowStatus, ApprovalStatus, PC, Outcome, Reader, Request, CallInv,
       InStep, Ups, B, BAE, AE, A, E
<1>14. ASSUME NEW c \in Calls, AfterAnswered(c) PROVE Types'
  <2>1. CASE pc[c] = "after"
    <3>1. up[c] = << >>
      BY <1>14, <2>1 DEF AfterAnswered, CallInv, InStep
    <3>2. up' = [up EXCEPT ![c] = E]
      BY <1>14, <2>1, <3>1, Appends DEF AfterAnswered, Goes, Types, E
    <3>3. up' \in [Calls -> Ups]
      BY <3>2 DEF Types, Ups
    <3> QED BY <1>14, <2>1, <3>3 DEF AfterAnswered, Goes, rowVars, fileVars, Types,
         PC, Reader
  <2>2. CASE pc[c] # "after"
    BY <1>14, <2>2 DEF AfterAnswered, rowVars, fileVars, Types, Reader
  <2> QED BY <2>1, <2>2
<1>15. ASSUME NEW c \in Calls, UserStep(c) PROVE Types'
  <2>1. CASE ApproveReads(c)
    BY <2>1 DEF ApproveReads, rowVars, workerVars, fileVars, Types
  <2>2. ASSUME NEW verdict \in ApprovalStatus, NEW status \in RunStatus, Decides(c, verdict, status)
        PROVE  run' \in [Runs -> RunStatus] /\ approval' \in [Calls -> ApprovalStatus]
               /\ UNCHANGED <<row, old, workerVars, reader, fileVars>>
    BY <2>2 DEF Decides, SetRun, Types
  <2>3. CASE ApproveCommits(c)
    <3>1. CASE Decides(c, "approved", "running")
      BY <2>2, <2>3, <3>1 DEF ApproveCommits, ApprovalStatus, RunStatus,
           workerVars, fileVars, Types
    <3>2. CASE UNCHANGED <<rowVars, old, workerVars, reader, fileVars>>
      BY <2>3, <3>2 DEF ApproveCommits, rowVars, workerVars, fileVars, Types
    <3> QED BY <2>3, <3>1, <3>2 DEF ApproveCommits
  <2>4. CASE ExpireApproval(c)
    BY <2>2, <2>4 DEF ExpireApproval, ApprovalStatus, RunStatus, workerVars,
         fileVars, Types
  <2>5. CASE DenyApproval(c)
    BY <2>2, <2>5 DEF DenyApproval, ApprovalStatus, RunStatus, workerVars, fileVars, Types
  <2> QED BY <1>15, <2>1, <2>3, <2>4, <2>5 DEF UserStep
<1>16. ASSUME NEW c \in Calls, Ages(c) PROVE Types'
  BY <1>16, Distinct DEF Ages, rowVars, workerVars, fileVars, Types, RunStatus,
       RowStatus, ApprovalStatus, PC, Outcome, Reader, Request, CallInv, InStep, Ups,
       B, BAE, AE, A, E
<1>17. ASSUME NEW c \in Calls, ServerStep(c) PROVE Types'
  <2>1. CASE ConsumeApproval(c)
    BY <2>1 DEF ConsumeApproval, Serves, workerVars, Types, ApprovalStatus, Request
  <2>2. CASE ValidateFails(c) \/ Stat(c)
    BY <2>2 DEF ValidateFails, Stat, Serves, workerVars, Types, Request
  <2>3. CASE WriteFile(c) \/ WriteFails(c)
    BY <2>3 DEF WriteFile, WriteFails, Serves, workerVars, Types, Request
  <2> QED BY <1>17, <2>1, <2>2, <2>3 DEF ServerStep
<1>18. ASSUME NEW r \in Runs, CancelRun(r) PROVE Types'
  BY <1>18 DEF CancelRun, rowVars, workerVars, fileVars, Types, RunStatus, RowStatus,
       ApprovalStatus, PC, Outcome, Reader, Request, CallInv, InStep
<1>19. CASE UNCHANGED vars
  BY <1>19 DEF vars, rowVars, workerVars, fileVars, Types, RunStatus, RowStatus,
       ApprovalStatus, PC, Outcome, Reader, Request, CallInv, InStep
<1> QED
  BY <1>1, <1>2, <1>3, <1>4, <1>5, <1>6, <1>7, <1>8, <1>9, <1>10, <1>11, <1>12, <1>13,
       <1>14, <1>15, <1>16, <1>17, <1>18, <1>19 DEF Next, WorkerStep, ReaderStep

\* A run that is executed again has no other live attempt.
LEMMA OneAttemptKept ==
  ASSUME Types, CallInv, OneAttempt, [Next]_vars
  PROVE  OneAttempt'
<1>1. ASSUME NEW c \in Calls, Begin(c) PROVE OneAttempt'
  BY <1>1, ToolCallsAssumption DEF Begin, Goes, SetRun, StatusOf, rowVars, workerVars,
       fileVars, Types, OneAttempt, Live, Siblings
<1>2. ASSUME NEW c \in Calls, PollApproved(c) PROVE OneAttempt'
  BY <1>2, ToolCallsAssumption DEF PollApproved, Goes, rowVars, workerVars, fileVars,
       Types, OneAttempt, Live, Siblings, StatusOf
<1>3. ASSUME NEW c \in Calls, PollRefused(c) \/ PollTimesOut(c) \/ PollFails(c) \/
     CallAnswered(c) \/ CallLost(c)
      PROVE  OneAttempt'
  BY <1>3, ToolCallsAssumption DEF PollRefused, PostsAfter, Goes, PollTimesOut,
       PollFails, CallAnswered, CallLost, rowVars, workerVars, fileVars, Types,
       OneAttempt, Live, Siblings, StatusOf
<1>4. ASSUME NEW c \in Calls, Interrupted(c) PROVE OneAttempt'
  BY <1>4, ToolCallsAssumption DEF Interrupted, Goes, StatusOf, rowVars, workerVars,
       fileVars, Types, OneAttempt, Live, Siblings
<1>5. ASSUME NEW c \in Calls, WorkerDrops(c) \/ ReaderRejects(c) PROVE OneAttempt'
  <2>1. Live(c)
    BY <1>5 DEF WorkerDrops, ReaderRejects, ReadsNext, Connected, Live, CallInv, InStep
  <2>2. pc' = [pc EXCEPT ![c] = "gone"] /\ UNCHANGED run
    BY <1>5 DEF WorkerDrops, ReaderRejects, StreamEnds, rowVars
  <2> QED
    BY <2>1, <2>2, ToolCallsAssumption DEF Types, OneAttempt, Live, Siblings, StatusOf
<1>6. ASSUME NEW c \in Calls, Requeue(c) PROVE OneAttempt'
  <2>1. Live(c) /\ pc' = [pc EXCEPT ![c] = "requeued"]
    BY <1>6 DEF Requeue, Live
  <2>2. \A d \in Calls : Siblings(c, d) => ~Live(d)
    BY <2>1 DEF OneAttempt
  <2>3. \A d \in Calls : Live(d)' => d # c /\ Live(d)
    BY <2>1 DEF Live, Types
  <2>4. run' = [run EXCEPT ![RunOf[c]] = "queued"] \/ run' = run
    BY <1>6 DEF Requeue, SetRun
  <2>5. \A d \in Calls : RunOf[d] # RunOf[c] => StatusOf(d)' = StatusOf(d)
    BY <2>4, ToolCallsAssumption DEF StatusOf, Types
  <2>6. \A d \in Calls : Live(d)' => StatusOf(d)' # "queued"
    BY <2>2, <2>3, <2>5 DEF OneAttempt, Siblings
  <2>7. \A d, e \in Calls : Siblings(d, e) => ~Live(d)' \/ ~Live(e)'
    BY <2>3 DEF OneAttempt
  <2> QED BY <2>6, <2>7 DEF OneAttempt, Siblings
<1>7. ASSUME NEW c \in Calls, ReadsBefore(c) PROVE OneAttempt'
  BY <1>7, ToolCallsAssumption DEF ReadsBefore, Reads, ReadsNext, Connected, rowVars,
       workerVars, fileVars, Types, OneAttempt, Live, Siblings, StatusOf
<1>8. ASSUME NEW c \in Calls, ReadsAfter(c) PROVE OneAttempt'
  BY <1>8, ToolCallsAssumption DEF ReadsAfter, Reads, ReadsNext, Connected, rowVars,
       workerVars, fileVars, Types, OneAttempt, Live, Siblings, StatusOf
<1>9. ASSUME NEW c \in Calls, ReadsEnd(c) PROVE OneAttempt'
  BY <1>9, ToolCallsAssumption DEF ReadsEnd, ReadsNext, Connected, Active,
       Cancellable, SetRun, StatusOf, rowVars, workerVars, fileVars, Types,
       OneAttempt, Live, Siblings
<1>10. ASSUME NEW c \in Calls, RecordToolCallBefore(c) PROVE OneAttempt'
  BY <1>10, ToolCallsAssumption DEF RecordToolCallBefore, rowVars, workerVars,
       fileVars, Types, OneAttempt, Live, Siblings, StatusOf
<1>11. ASSUME NEW c \in Calls, CreateApproval(c) PROVE OneAttempt'
  BY <1>11, ToolCallsAssumption DEF CreateApproval, Cancellable, Active, SetRun,
       StatusOf, rowVars, workerVars, fileVars, Types, OneAttempt, Live, Siblings
<1>12. ASSUME NEW c \in Calls, DecisionDelivered(c) PROVE OneAttempt'
  BY <1>12, ToolCallsAssumption DEF DecisionDelivered, rowVars, workerVars, fileVars,
       Types, OneAttempt, Live, Siblings, StatusOf
<1>13. ASSUME NEW c \in Calls, RecordToolCallAfter(c) PROVE OneAttempt'
  BY <1>13, ToolCallsAssumption DEF RecordToolCallAfter, rowVars, workerVars,
       fileVars, Types, OneAttempt, Live, Siblings, StatusOf
<1>14. ASSUME NEW c \in Calls, AfterAnswered(c) PROVE OneAttempt'
  BY <1>14, ToolCallsAssumption DEF AfterAnswered, Goes, rowVars, workerVars,
       fileVars, Types, OneAttempt, Live, Siblings, StatusOf
<1>15. ASSUME NEW c \in Calls, UserStep(c) PROVE OneAttempt'
  BY <1>15, ToolCallsAssumption DEF UserStep, ApproveReads, ApproveCommits,
       ExpireApproval, DenyApproval, Decides, Waiting, SetRun, StatusOf, rowVars,
       workerVars, fileVars, Types, OneAttempt, Live, Siblings
<1>16. ASSUME NEW c \in Calls, Ages(c) PROVE OneAttempt'
  BY <1>16, ToolCallsAssumption DEF Ages, rowVars, workerVars, fileVars, Types,
       OneAttempt, Live, Siblings, StatusOf
<1>17. ASSUME NEW c \in Calls, ServerStep(c) PROVE OneAttempt'
  BY <1>17, ToolCallsAssumption DEF ServerStep, ConsumeApproval, ValidateFails, Stat,
       WriteFile, WriteFails, Serves, rowVars, workerVars, fileVars, Types,
       OneAttempt, Live, Siblings, StatusOf
<1>18. ASSUME NEW r \in Runs, CancelRun(r) PROVE OneAttempt'
  BY <1>18 DEF CancelRun, rowVars, workerVars, fileVars, Types, OneAttempt, Live,
       Siblings, StatusOf
<1>19. CASE UNCHANGED vars
  BY <1>19 DEF vars, rowVars, workerVars, fileVars, Types, OneAttempt, Live, Siblings,
       StatusOf
<1> QED
  BY <1>1, <1>2, <1>3, <1>4, <1>5, <1>6, <1>7, <1>8, <1>9, <1>10, <1>11, <1>12, <1>13,
       <1>14, <1>15, <1>16, <1>17, <1>18, <1>19 DEF Next, WorkerStep, ReaderStep

\* A run has one undecided approval at most.
LEMMA OneQuestionKept ==
  ASSUME Types, CallInv, OneAttempt, OneQuestion, [Next]_vars
  PROVE  OneQuestion'
<1>1. ASSUME NEW c \in Calls, Begin(c) PROVE OneQuestion'
  <2>1. \A d \in Calls : RunOf[d] = RunOf[c] => approval[d] # "pending"
    BY <1>1 DEF Begin, OneQuestion, StatusOf
  <2>2. run' = [run EXCEPT ![RunOf[c]] = "running"] /\ pc' = [pc EXCEPT ![c] = "before"]
        /\ UNCHANGED approval
    BY <1>1 DEF Begin, SetRun, Goes
  <2> QED
    BY <2>1, <2>2, ToolCallsAssumption DEF Types, OneQuestion, Live, Siblings,
         StatusOf, CallsOf
<1>2. ASSUME NEW c \in Calls, PollApproved(c) PROVE OneQuestion'
  BY <1>2, ToolCallsAssumption DEF PollApproved, Goes, rowVars, workerVars, fileVars,
       Types, OneQuestion, Live, Siblings, StatusOf, CallsOf
<1>3. ASSUME NEW c \in Calls, PollRefused(c) \/ PollTimesOut(c) \/ PollFails(c) \/
     CallAnswered(c) \/ CallLost(c)
      PROVE  OneQuestion'
  BY <1>3, ToolCallsAssumption DEF PollRefused, PostsAfter, Goes, PollTimesOut,
       PollFails, CallAnswered, CallLost, rowVars, workerVars, fileVars, Types,
       OneQuestion, Live, Siblings, StatusOf, CallsOf
<1>4. ASSUME NEW c \in Calls, Interrupted(c) PROVE OneQuestion'
  BY <1>4, ToolCallsAssumption DEF Interrupted, Goes, StatusOf, rowVars, workerVars,
       fileVars, Types, OneQuestion, Live, Siblings, CallsOf
<1>5. ASSUME NEW c \in Calls, WorkerDrops(c) \/ ReaderRejects(c) PROVE OneQuestion'
  <2>1. Live(c)
    BY <1>5 DEF WorkerDrops, ReaderRejects, ReadsNext, Connected, Live, CallInv, InStep
  <2>2. pc' = [pc EXCEPT ![c] = "gone"] /\ UNCHANGED <<run, approval>>
    BY <1>5 DEF WorkerDrops, ReaderRejects, StreamEnds, rowVars
  <2> QED
    BY <2>1, <2>2, ToolCallsAssumption DEF Types, OneQuestion, Live, Siblings,
         StatusOf, CallsOf
<1>6. ASSUME NEW c \in Calls, Requeue(c) PROVE OneQuestion'
  <2>1. pc' = [pc EXCEPT ![c] = "requeued"] /\ UNCHANGED approval
    BY <1>6 DEF Requeue
  <2>2. \A d \in Calls : Live(d)' => Live(d)
    BY <2>1 DEF Live, Types
  <2>3. CASE run[RunOf[c]] = "running" /\ run' = [run EXCEPT ![RunOf[c]] = "queued"]
    <3>1. \A d \in Calls : RunOf[d] = RunOf[c] => approval[d] # "pending"
      BY <2>3 DEF OneQuestion, StatusOf
    <3> QED
      BY <2>1, <2>2, <2>3, <3>1, ToolCallsAssumption DEF Types, OneQuestion,
           Siblings, StatusOf, CallsOf
  <2>4. CASE run' = run
    BY <2>1, <2>2, <2>4 DEF OneQuestion, Siblings, StatusOf, CallsOf
  <2> QED BY <1>6, <2>3, <2>4 DEF Requeue, SetRun, StatusOf
<1>7. ASSUME NEW c \in Calls, ReadsBefore(c) PROVE OneQuestion'
  BY <1>7, ToolCallsAssumption DEF ReadsBefore, Reads, ReadsNext, Connected, rowVars,
       workerVars, fileVars, Types, OneQuestion, Live, Siblings, StatusOf, CallsOf
<1>8. ASSUME NEW c \in Calls, ReadsAfter(c) PROVE OneQuestion'
  BY <1>8, ToolCallsAssumption DEF ReadsAfter, Reads, ReadsNext, Connected, rowVars,
       workerVars, fileVars, Types, OneQuestion, Live, Siblings, StatusOf, CallsOf
<1>9. ASSUME NEW c \in Calls, ReadsEnd(c) PROVE OneQuestion'
  <2>1. Live(c) /\ UNCHANGED <<approval, pc>>
    BY <1>9 DEF ReadsEnd, ReadsNext, Connected, Live
  <2>2. \A d \in Calls : Siblings(c, d) => approval[d] # "pending"
    BY <2>1 DEF OneQuestion, Siblings
  <2>3. CASE run' = [run EXCEPT ![RunOf[c]] = "failed"]
    BY <2>1, <2>2, <2>3, ToolCallsAssumption DEF Types, OneQuestion, Live, Siblings,
         StatusOf, CallsOf
  <2>4. CASE outcome[c] = "completed" /\ run' = [run EXCEPT ![RunOf[c]] = "completed"]
    <3>1. approval[c] # "pending"
      BY <2>4 DEF CallInv, Told
    <3> QED
      BY <2>1, <2>2, <2>4, <3>1, ToolCallsAssumption DEF Types, OneQuestion, Live,
           Siblings, StatusOf, CallsOf
  <2> QED BY <1>9, <2>3, <2>4 DEF ReadsEnd, SetRun
<1>10. ASSUME NEW c \in Calls, RecordToolCallBefore(c) PROVE OneQuestion'
  BY <1>10, ToolCallsAssumption DEF RecordToolCallBefore, rowVars, workerVars,
       fileVars, Types, OneQuestion, Live, Siblings, StatusOf, CallsOf
<1>11. ASSUME NEW c \in Calls, CreateApproval(c) PROVE OneQuestion'
  <2>1. Live(c) /\ UNCHANGED pc
    BY <1>11 DEF CreateApproval, Live, CallInv, InStep, workerVars
  <2>2. \A d \in Calls : Siblings(c, d) => ~Live(d) /\ approval[d] # "pending"
    BY <2>1 DEF OneAttempt, OneQuestion, Siblings
  <2>3. run' = [run EXCEPT ![RunOf[c]] = "waiting_approval"]
        /\ approval' = [approval EXCEPT ![c] = "pending"]
    BY <1>11 DEF CreateApproval, SetRun
  <2>4. \A d \in Calls : approval'[d] = "pending" =>
          StatusOf(d)' \in {"waiting_approval", "failed", "cancelled"}
    BY <2>3, ToolCallsAssumption DEF Types, OneQuestion, StatusOf
  <2>5. \A d, e \in Calls : Siblings(d, e) /\ approval'[d] = "pending" =>
          ~Live(e)' /\ approval'[e] # "pending"
    BY <2>1, <2>2, <2>3 DEF Types, OneQuestion, Live, Siblings
  <2>6. \A r \in Runs : run'[r] = "waiting_approval" => \E d \in CallsOf(r) : approval'[d] = "pending"
    BY <2>3, ToolCallsAssumption DEF Types, OneQuestion, CallsOf
  <2> QED BY <2>4, <2>5, <2>6 DEF OneQuestion, Siblings, CallsOf
<1>12. ASSUME NEW c \in Calls, DecisionDelivered(c) PROVE OneQuestion'
  BY <1>12, ToolCallsAssumption DEF DecisionDelivered, rowVars, workerVars, fileVars,
       Types, OneQuestion, Live, Siblings, StatusOf, CallsOf
<1>13. ASSUME NEW c \in Calls, RecordToolCallAfter(c) PROVE OneQuestion'
  BY <1>13, ToolCallsAssumption DEF RecordToolCallAfter, rowVars, workerVars,
       fileVars, Types, OneQuestion, Live, Siblings, StatusOf, CallsOf
<1>14. ASSUME NEW c \in Calls, AfterAnswered(c) PROVE OneQuestion'
  BY <1>14, ToolCallsAssumption DEF AfterAnswered, Goes, rowVars, workerVars,
       fileVars, Types, OneQuestion, Live, Siblings, StatusOf, CallsOf
<1>15. ASSUME NEW c \in Calls, UserStep(c) PROVE OneQuestion'
  BY <1>15, ToolCallsAssumption DEF UserStep, ApproveReads, ApproveCommits,
       ExpireApproval, DenyApproval, Decides, Waiting, SetRun, StatusOf, rowVars,
       workerVars, fileVars, Types, OneQuestion, Live, Siblings, CallsOf
<1>16. ASSUME NEW c \in Calls, Ages(c) PROVE OneQuestion'
  BY <1>16, ToolCallsAssumption DEF Ages, rowVars, workerVars, fileVars, Types,
       OneQuestion, Live, Siblings, StatusOf, CallsOf
<1>17. ASSUME NEW c \in Calls, ServerStep(c) PROVE OneQuestion'
  BY <1>17, ToolCallsAssumption DEF ServerStep, ConsumeApproval, ValidateFails, Stat,
       WriteFile, WriteFails, Serves, rowVars, workerVars, fileVars, Types,
       OneQuestion, Live, Siblings, StatusOf, CallsOf
<1>18. ASSUME NEW r \in Runs, CancelRun(r) PROVE OneQuestion'
  BY <1>18 DEF CancelRun, rowVars, workerVars, fileVars, Types, OneQuestion, Live,
       Siblings, StatusOf, CallsOf
<1>19. CASE UNCHANGED vars
  BY <1>19 DEF vars, rowVars, workerVars, fileVars, Types, OneQuestion, Live,
       Siblings, StatusOf, CallsOf
<1> QED
  BY <1>1, <1>2, <1>3, <1>4, <1>5, <1>6, <1>7, <1>8, <1>9, <1>10, <1>11, <1>12, <1>13,
       <1>14, <1>15, <1>16, <1>17, <1>18, <1>19 DEF Next, WorkerStep, ReaderStep

\* A cancelled run stays cancelled.
LEMMA CancelledForGood ==
  ASSUME Types, NEW d \in Calls, StatusOf(d) = "cancelled", [Next]_vars
  PROVE  StatusOf(d)' = "cancelled"
<1>1. ASSUME NEW c \in Calls, Begin(c) PROVE StatusOf(d)' = "cancelled"
  BY <1>1, ToolCallsAssumption DEF Begin, Goes, SetRun, StatusOf, rowVars, workerVars,
       fileVars, Types
<1>2. ASSUME NEW c \in Calls, PollApproved(c) PROVE StatusOf(d)' = "cancelled"
  BY <1>2, ToolCallsAssumption DEF PollApproved, Goes, rowVars, workerVars, fileVars,
       Types, StatusOf
<1>3. ASSUME NEW c \in Calls, PollRefused(c) \/ PollTimesOut(c) \/ PollFails(c) \/
     CallAnswered(c) \/ CallLost(c)
      PROVE  StatusOf(d)' = "cancelled"
  BY <1>3, ToolCallsAssumption DEF PollRefused, PostsAfter, Goes, PollTimesOut,
       PollFails, CallAnswered, CallLost, rowVars, workerVars, fileVars, Types,
       StatusOf
<1>4. ASSUME NEW c \in Calls, Interrupted(c) PROVE StatusOf(d)' = "cancelled"
  BY <1>4, ToolCallsAssumption DEF Interrupted, Goes, StatusOf, rowVars, workerVars,
       fileVars, Types
<1>5. ASSUME NEW c \in Calls, WorkerDrops(c) \/ ReaderRejects(c)
      PROVE  StatusOf(d)' = "cancelled"
  BY <1>5, ToolCallsAssumption DEF WorkerDrops, StreamEnds, Connected, ReaderRejects,
       ReadsNext, Active, StatusOf, rowVars, workerVars, fileVars, Types
<1>6. ASSUME NEW c \in Calls, Requeue(c) PROVE StatusOf(d)' = "cancelled"
  BY <1>6, ToolCallsAssumption DEF Requeue, SetRun, StatusOf, rowVars, workerVars,
       fileVars, Types
<1>7. ASSUME NEW c \in Calls, ReadsBefore(c) PROVE StatusOf(d)' = "cancelled"
  BY <1>7, ToolCallsAssumption DEF ReadsBefore, Reads, ReadsNext, Connected, rowVars,
       workerVars, fileVars, Types, StatusOf
<1>8. ASSUME NEW c \in Calls, ReadsAfter(c) PROVE StatusOf(d)' = "cancelled"
  BY <1>8, ToolCallsAssumption DEF ReadsAfter, Reads, ReadsNext, Connected, rowVars,
       workerVars, fileVars, Types, StatusOf
<1>9. ASSUME NEW c \in Calls, ReadsEnd(c) PROVE StatusOf(d)' = "cancelled"
  BY <1>9, ToolCallsAssumption DEF ReadsEnd, ReadsNext, Connected, Active,
       Cancellable, SetRun, StatusOf, rowVars, workerVars, fileVars, Types
<1>10. ASSUME NEW c \in Calls, RecordToolCallBefore(c)
      PROVE  StatusOf(d)' = "cancelled"
  BY <1>10, ToolCallsAssumption DEF RecordToolCallBefore, rowVars, workerVars,
       fileVars, Types, StatusOf
<1>11. ASSUME NEW c \in Calls, CreateApproval(c) PROVE StatusOf(d)' = "cancelled"
  BY <1>11, ToolCallsAssumption DEF CreateApproval, Cancellable, Active, SetRun,
       StatusOf, rowVars, workerVars, fileVars, Types
<1>12. ASSUME NEW c \in Calls, DecisionDelivered(c) PROVE StatusOf(d)' = "cancelled"
  BY <1>12, ToolCallsAssumption DEF DecisionDelivered, rowVars, workerVars, fileVars,
       Types, StatusOf
<1>13. ASSUME NEW c \in Calls, RecordToolCallAfter(c) PROVE StatusOf(d)' = "cancelled"
  BY <1>13, ToolCallsAssumption DEF RecordToolCallAfter, rowVars, workerVars,
       fileVars, Types, StatusOf
<1>14. ASSUME NEW c \in Calls, AfterAnswered(c) PROVE StatusOf(d)' = "cancelled"
  BY <1>14, ToolCallsAssumption DEF AfterAnswered, Goes, rowVars, workerVars,
       fileVars, Types, StatusOf
<1>15. ASSUME NEW c \in Calls, UserStep(c) PROVE StatusOf(d)' = "cancelled"
  BY <1>15, ToolCallsAssumption DEF UserStep, ApproveReads, ApproveCommits,
       ExpireApproval, DenyApproval, Decides, Waiting, SetRun, StatusOf, rowVars,
       workerVars, fileVars, Types
<1>16. ASSUME NEW c \in Calls, Ages(c) PROVE StatusOf(d)' = "cancelled"
  BY <1>16, ToolCallsAssumption DEF Ages, rowVars, workerVars, fileVars, Types,
       StatusOf
<1>17. ASSUME NEW c \in Calls, ServerStep(c) PROVE StatusOf(d)' = "cancelled"
  BY <1>17, ToolCallsAssumption DEF ServerStep, ConsumeApproval, ValidateFails, Stat,
       WriteFile, WriteFails, Serves, rowVars, workerVars, fileVars, Types, StatusOf
<1>18. ASSUME NEW r \in Runs, CancelRun(r) PROVE StatusOf(d)' = "cancelled"
  BY <1>18 DEF CancelRun, rowVars, workerVars, fileVars, Types, StatusOf
<1>19. CASE UNCHANGED vars
  BY <1>19 DEF vars, rowVars, workerVars, fileVars, Types, StatusOf
<1> QED
  BY <1>1, <1>2, <1>3, <1>4, <1>5, <1>6, <1>7, <1>8, <1>9, <1>10, <1>11, <1>12, <1>13,
       <1>14, <1>15, <1>16, <1>17, <1>18, <1>19 DEF Next, WorkerStep, ReaderStep

\* The run's end is posted after the row is final, or its run is cancelled.
LEMMA EndInTurnKept ==
  ASSUME Types, CallInv, NEW d \in Calls, EndInTurn(d), [Next]_vars
  PROVE  EndInTurn(d)'
<1>0. StatusOf(d) = "cancelled" => StatusOf(d)' = "cancelled"
  BY CancelledForGood
<1>1. ASSUME NEW c \in Calls, Begin(c) PROVE EndInTurn(d)'
  <2>1. up[c] = << >>
    BY <1>1 DEF Begin, CallInv, InStep
  <2>2. up' = [up EXCEPT ![c] = B] /\ UNCHANGED <<row, outcome>>
    BY <1>1, <2>1, Appends DEF Begin, Goes, Types, B
  <2> QED
    BY <1>0, <2>2, Distinct DEF Types, EndInTurn
<1>2. ASSUME NEW c \in Calls, PollApproved(c) PROVE EndInTurn(d)'
  BY <1>2, ToolCallsAssumption, Appends, Distinct DEF PollApproved, Goes, rowVars,
       workerVars, fileVars, Types, CallInv, InStep, Asked, Told, EndInTurn, StatusOf,
       Ups, B, BAE, AE, A, E
<1>3. ASSUME NEW c \in Calls, PollRefused(c) \/ PollTimesOut(c) \/ PollFails(c) \/
     CallAnswered(c) \/ CallLost(c)
      PROVE  EndInTurn(d)'
  <2>1. up[c] = << >>
    BY <1>3 DEF PollRefused, PollTimesOut, PollFails, CallAnswered, CallLost,
         CallInv, InStep
  <2>2. up' = [up EXCEPT ![c] = A] /\ UNCHANGED row
    BY <1>3, <2>1, Appends DEF PollRefused, PollTimesOut, PollFails, CallAnswered,
         CallLost,
         PostsAfter, Goes, rowVars, Types, A
  <2>3. \A x \in Calls : x # c => outcome'[x] = outcome[x]
    BY <1>3 DEF PollRefused, PollTimesOut, PollFails, CallAnswered, CallLost,
         PostsAfter, Types
  <2> QED
    BY <1>0, <2>2, <2>3, Distinct DEF Types, EndInTurn
<1>4. ASSUME NEW c \in Calls, Interrupted(c) PROVE EndInTurn(d)'
  BY <1>4, ToolCallsAssumption, Appends, Distinct DEF Interrupted, Goes, StatusOf,
       rowVars, workerVars, fileVars, Types, CallInv, InStep, Asked, Told, EndInTurn,
       Ups, B, BAE, AE, A, E
<1>5. ASSUME NEW c \in Calls, WorkerDrops(c) \/ ReaderRejects(c) PROVE EndInTurn(d)'
  BY <1>5, ToolCallsAssumption, Distinct DEF WorkerDrops, StreamEnds, Connected,
       ReaderRejects, ReadsNext, Active, StatusOf, rowVars, workerVars, fileVars,
       Types, CallInv, InStep, Asked, Told, EndInTurn, Ups, B, BAE, AE, A, E
<1>6. ASSUME NEW c \in Calls, Requeue(c) PROVE EndInTurn(d)'
  <2>1. UNCHANGED <<up, row, outcome>>
    BY <1>6 DEF Requeue
  <2> QED
    BY <1>0, <2>1, Distinct DEF Types, EndInTurn
<1>7. ASSUME NEW c \in Calls, ReadsBefore(c) PROVE EndInTurn(d)'
  <2>1. up[c] \in {B, BAE}
    BY <1>7, HeadsAndTails, Distinct DEF ReadsBefore, Reads, ReadsNext, Types, Ups,
         B, BAE, AE, A, E
  <2>2. up[c] # BAE \/ StatusOf(d) = "cancelled" \/ d # c
    BY Distinct DEF EndInTurn
  <2>3. StatusOf(c) # "cancelled"
    BY <1>7 DEF ReadsBefore, Reads, ReadsNext, Active
  <2>4. up' = [up EXCEPT ![c] = IF up[c] = BAE THEN AE ELSE << >>] /\ UNCHANGED <<row, outcome>>
    BY <1>7, <2>1, HeadsAndTails, Distinct DEF ReadsBefore, Reads, ReadsNext,
         rowVars, Types
  <2> QED
    BY <1>0, <2>2, <2>3, <2>4, Distinct DEF Types, EndInTurn
<1>8. ASSUME NEW c \in Calls, ReadsAfter(c) PROVE EndInTurn(d)'
  <2>1. up[c] \in {A, AE}
    BY <1>8, HeadsAndTails, Distinct DEF ReadsAfter, Reads, ReadsNext, Types, Ups,
         B, BAE, AE, A, E
  <2>2. up[c] # AE \/ StatusOf(d) = "cancelled" \/ d # c
    BY Distinct DEF EndInTurn
  <2>3. StatusOf(c) # "cancelled"
    BY <1>8 DEF ReadsAfter, Reads, ReadsNext, Active
  <2>4. up' = [up EXCEPT ![c] = IF up[c] = AE THEN E ELSE << >>] /\ UNCHANGED <<row, outcome>>
    BY <1>8, <2>1, HeadsAndTails, Distinct DEF ReadsAfter, Reads, ReadsNext,
         rowVars, Types
  <2> QED
    BY <1>0, <2>2, <2>3, <2>4, Distinct DEF Types, EndInTurn
<1>9. ASSUME NEW c \in Calls, ReadsEnd(c) PROVE EndInTurn(d)'
  <2>1. up[c] \in {E}
    BY <1>9, HeadsAndTails, Distinct DEF ReadsEnd, ReadsNext, Types, Ups, B, BAE, AE, A, E
  <2>2. up' = [up EXCEPT ![c] = << >>] /\ UNCHANGED <<row, outcome>>
    BY <1>9, <2>1, HeadsAndTails DEF ReadsEnd, ReadsNext, Types
  <2> QED
    BY <1>0, <2>2, Distinct DEF Types, EndInTurn
<1>10. ASSUME NEW c \in Calls, RecordToolCallBefore(c) PROVE EndInTurn(d)'
  BY <1>10, ToolCallsAssumption, Distinct DEF RecordToolCallBefore, rowVars,
       workerVars, fileVars, Types, CallInv, InStep, Asked, Told, EndInTurn, StatusOf,
       Ups, B, BAE, AE, A, E
<1>11. ASSUME NEW c \in Calls, CreateApproval(c) PROVE EndInTurn(d)'
  <2>1. up[c] # E
    BY <1>11, Distinct DEF CreateApproval, CallInv, InStep
  <2>2. UNCHANGED <<up, outcome>> /\ \A x \in Calls : x # c => row'[x] = row[x]
    BY <1>11 DEF CreateApproval, workerVars, Types
  <2> QED
    BY <1>0, <2>1, <2>2, Distinct DEF Types, EndInTurn
<1>12. ASSUME NEW c \in Calls, DecisionDelivered(c) PROVE EndInTurn(d)'
  BY <1>12, ToolCallsAssumption, Distinct DEF DecisionDelivered, rowVars, workerVars,
       fileVars, Types, CallInv, InStep, Asked, Told, EndInTurn, StatusOf, Ups, B,
       BAE, AE, A, E
<1>13. ASSUME NEW c \in Calls, RecordToolCallAfter(c) PROVE EndInTurn(d)'
  BY <1>13, ToolCallsAssumption, Distinct DEF RecordToolCallAfter, rowVars,
       workerVars, fileVars, Types, CallInv, InStep, Asked, Told, EndInTurn, StatusOf,
       Ups, B, BAE, AE, A, E
<1>14. ASSUME NEW c \in Calls, AfterAnswered(c) PROVE EndInTurn(d)'
  BY <1>14, ToolCallsAssumption, Appends, Distinct DEF AfterAnswered, Goes, rowVars,
       workerVars, fileVars, Types, CallInv, InStep, Asked, Told, EndInTurn, StatusOf,
       Ups, B, BAE, AE, A, E
<1>15. ASSUME NEW c \in Calls, UserStep(c) PROVE EndInTurn(d)'
  BY <1>15, ToolCallsAssumption, Distinct DEF UserStep, ApproveReads, ApproveCommits,
       ExpireApproval, DenyApproval, Decides, Waiting, SetRun, StatusOf, rowVars,
       workerVars, fileVars, Types, CallInv, InStep, Asked, Told, EndInTurn, Ups, B,
       BAE, AE, A, E
<1>16. ASSUME NEW c \in Calls, Ages(c) PROVE EndInTurn(d)'
  BY <1>16, ToolCallsAssumption, Distinct DEF Ages, rowVars, workerVars, fileVars,
       Types, CallInv, InStep, Asked, Told, EndInTurn, StatusOf, Ups, B, BAE, AE, A, E
<1>17. ASSUME NEW c \in Calls, ServerStep(c) PROVE EndInTurn(d)'
  BY <1>17, ToolCallsAssumption, Distinct DEF ServerStep, ConsumeApproval,
       ValidateFails, Stat, WriteFile, WriteFails, Serves, rowVars, workerVars,
       fileVars, Types, CallInv, InStep, Asked, Told, EndInTurn, StatusOf, Ups, B,
       BAE, AE, A, E
<1>18. ASSUME NEW r \in Runs, CancelRun(r) PROVE EndInTurn(d)'
  BY <1>18 DEF CancelRun, rowVars, workerVars, fileVars, Types, CallInv, InStep,
       Asked, Told, EndInTurn, StatusOf
<1>19. CASE UNCHANGED vars
  BY <1>19 DEF vars, rowVars, workerVars, fileVars, Types, CallInv, InStep, Asked,
       Told, EndInTurn, StatusOf
<1> QED
  BY <1>1, <1>2, <1>3, <1>4, <1>5, <1>6, <1>7, <1>8, <1>9, <1>10, <1>11, <1>12, <1>13,
       <1>14, <1>15, <1>16, <1>17, <1>18, <1>19 DEF Next, WorkerStep, ReaderStep

\* After one attempt reported the file as created no other can.
LEMMA OneReportKept ==
  ASSUME Types, CallInv, OneAttempt, OneReport, [Next]_vars
  PROVE  OneReport'
<1>1. ASSUME NEW c \in Calls, Begin(c) PROVE OneReport'
  BY <1>1, ToolCallsAssumption DEF Begin, Goes, SetRun, StatusOf, rowVars, workerVars,
       fileVars, Types, OneReport
<1>2. ASSUME NEW c \in Calls, PollApproved(c) PROVE OneReport'
  BY <1>2, ToolCallsAssumption DEF PollApproved, Goes, rowVars, workerVars, fileVars,
       Types, OneReport
<1>3. ASSUME NEW c \in Calls, PollRefused(c) \/ PollTimesOut(c) \/ PollFails(c) \/
     CallAnswered(c) \/ CallLost(c)
      PROVE  OneReport'
  BY <1>3, ToolCallsAssumption DEF PollRefused, PostsAfter, Goes, PollTimesOut,
       PollFails, CallAnswered, CallLost, rowVars, workerVars, fileVars, Types,
       OneReport
<1>4. ASSUME NEW c \in Calls, Interrupted(c) PROVE OneReport'
  BY <1>4, ToolCallsAssumption DEF Interrupted, Goes, StatusOf, rowVars, workerVars,
       fileVars, Types, OneReport
<1>5. ASSUME NEW c \in Calls, WorkerDrops(c) \/ ReaderRejects(c) PROVE OneReport'
  <2>1. pc[c] # "requeued"
    BY <1>5 DEF WorkerDrops, ReaderRejects, ReadsNext, Connected, CallInv, InStep
  <2>2. pc' = [pc EXCEPT ![c] = "gone"] /\ UNCHANGED <<row, request>>
    BY <1>5 DEF WorkerDrops, ReaderRejects, StreamEnds, rowVars, fileVars
  <2> QED BY <2>1, <2>2 DEF OneReport, Types
<1>6. ASSUME NEW c \in Calls, Requeue(c) PROVE OneReport'
  BY <1>6, ToolCallsAssumption DEF Requeue, SetRun, StatusOf, rowVars, workerVars,
       fileVars, Types, OneReport
<1>7. ASSUME NEW c \in Calls, ReadsBefore(c) PROVE OneReport'
  BY <1>7, ToolCallsAssumption DEF ReadsBefore, Reads, ReadsNext, Connected, rowVars,
       workerVars, fileVars, Types, OneReport
<1>8. ASSUME NEW c \in Calls, ReadsAfter(c) PROVE OneReport'
  BY <1>8, ToolCallsAssumption DEF ReadsAfter, Reads, ReadsNext, Connected, rowVars,
       workerVars, fileVars, Types, OneReport
<1>9. ASSUME NEW c \in Calls, ReadsEnd(c) PROVE OneReport'
  BY <1>9, ToolCallsAssumption DEF ReadsEnd, ReadsNext, Connected, Active,
       Cancellable, SetRun, StatusOf, rowVars, workerVars, fileVars, Types, OneReport
<1>10. ASSUME NEW c \in Calls, RecordToolCallBefore(c) PROVE OneReport'
  BY <1>10, ToolCallsAssumption DEF RecordToolCallBefore, rowVars, workerVars,
       fileVars, Types, OneReport
<1>11. ASSUME NEW c \in Calls, CreateApproval(c) PROVE OneReport'
  BY <1>11, ToolCallsAssumption DEF CreateApproval, Cancellable, Active, SetRun,
       StatusOf, rowVars, workerVars, fileVars, Types, OneReport
<1>12. ASSUME NEW c \in Calls, DecisionDelivered(c) PROVE OneReport'
  BY <1>12, ToolCallsAssumption DEF DecisionDelivered, rowVars, workerVars, fileVars,
       Types, OneReport
<1>13. ASSUME NEW c \in Calls, RecordToolCallAfter(c) PROVE OneReport'
  <2>1. Live(c) /\ row' = [row EXCEPT ![c] = outcome[c]] /\ UNCHANGED <<pc, request>>
    BY <1>13 DEF RecordToolCallAfter, Live, CallInv, InStep, workerVars, fileVars
  <2>2. CASE outcome[c] # "completed"
    BY <2>1, <2>2 DEF OneReport, Types
  <2>3. CASE outcome[c] = "completed"
    <3>1. request[c] = "written"
      BY <2>3 DEF CallInv, Told
    <3>2. \A d \in Calls : Siblings(d, c) => row[d] # "completed"
      BY <2>1, <3>1 DEF OneReport, Live
    <3>3. \A d \in Calls : Siblings(c, d) => Siblings(d, c)
      BY DEF Siblings
    <3>4. \A d \in Calls : Siblings(c, d) => pc[d] = "requeued" \/ request[d] = "none"
      BY <2>1 DEF OneAttempt, Live, CallInv, Told
    <3> QED BY <2>1, <3>2, <3>3, <3>4 DEF OneReport, Types, Siblings
  <2> QED BY <2>2, <2>3
<1>14. ASSUME NEW c \in Calls, AfterAnswered(c) PROVE OneReport'
  BY <1>14, ToolCallsAssumption DEF AfterAnswered, Goes, rowVars, workerVars,
       fileVars, Types, OneReport
<1>15. ASSUME NEW c \in Calls, UserStep(c) PROVE OneReport'
  BY <1>15, ToolCallsAssumption DEF UserStep, ApproveReads, ApproveCommits,
       ExpireApproval, DenyApproval, Decides, Waiting, SetRun, StatusOf, rowVars,
       workerVars, fileVars, Types, OneReport
<1>16. ASSUME NEW c \in Calls, Ages(c) PROVE OneReport'
  BY <1>16, ToolCallsAssumption DEF Ages, rowVars, workerVars, fileVars, Types,
       OneReport
<1>17. ASSUME NEW c \in Calls, ServerStep(c) PROVE OneReport'
  <2>1. \A d \in Calls : row[d] = "completed" => file # None
    BY DEF CallInv, Told
  <2>2. \A d \in Calls : Siblings(d, c) /\ row[d] = "completed" =>
          pc[c] = "requeued" \/ request'[c] \notin {"absent", "written"}
    BY <1>17, <2>1 DEF ServerStep, ConsumeApproval, ValidateFails, Stat, WriteFile,
         WriteFails,
         Serves, Types, OneReport
  <2>3. \A d \in Calls : d # c => request'[d] = request[d]
    BY <1>17 DEF ServerStep, ConsumeApproval, ValidateFails, Stat, WriteFile, WriteFails,
         Serves, Types
  <2>4. UNCHANGED <<pc, row>>
    BY <1>17 DEF ServerStep, ConsumeApproval, ValidateFails, Stat, WriteFile, WriteFails,
         Serves, workerVars
  <2> QED BY <2>2, <2>3, <2>4 DEF OneReport
<1>18. ASSUME NEW r \in Runs, CancelRun(r) PROVE OneReport'
  BY <1>18 DEF CancelRun, rowVars, workerVars, fileVars, Types, OneReport
<1>19. CASE UNCHANGED vars
  BY <1>19 DEF vars, rowVars, workerVars, fileVars, Types, OneReport
<1> QED
  BY <1>1, <1>2, <1>3, <1>4, <1>5, <1>6, <1>7, <1>8, <1>9, <1>10, <1>11, <1>12, <1>13,
       <1>14, <1>15, <1>16, <1>17, <1>18, <1>19 DEF Next, WorkerStep, ReaderStep

\* A run completes after one of its attempts has reported the file.
LEMMA CompletedReportedKept ==
  ASSUME Types, CallInv, \A d \in Calls : EndInTurn(d), CompletedReported, [Next]_vars
  PROVE  CompletedReported'
<1>1. ASSUME NEW c \in Calls, Begin(c) PROVE CompletedReported'
  BY <1>1, ToolCallsAssumption DEF Begin, Goes, SetRun, StatusOf, rowVars, workerVars,
       fileVars, Types, CompletedReported, CallsOf
<1>2. ASSUME NEW c \in Calls, PollApproved(c) PROVE CompletedReported'
  BY <1>2, ToolCallsAssumption DEF PollApproved, Goes, rowVars, workerVars, fileVars,
       Types, CompletedReported, CallsOf
<1>3. ASSUME NEW c \in Calls, PollRefused(c) \/ PollTimesOut(c) \/ PollFails(c) \/
     CallAnswered(c) \/ CallLost(c)
      PROVE  CompletedReported'
  BY <1>3, ToolCallsAssumption DEF PollRefused, PostsAfter, Goes, PollTimesOut,
       PollFails, CallAnswered, CallLost, rowVars, workerVars, fileVars, Types,
       CompletedReported, CallsOf
<1>4. ASSUME NEW c \in Calls, Interrupted(c) PROVE CompletedReported'
  BY <1>4, ToolCallsAssumption DEF Interrupted, Goes, StatusOf, rowVars, workerVars,
       fileVars, Types, CompletedReported, CallsOf
<1>5. ASSUME NEW c \in Calls, WorkerDrops(c) \/ ReaderRejects(c)
      PROVE  CompletedReported'
  BY <1>5, ToolCallsAssumption DEF WorkerDrops, StreamEnds, Connected, ReaderRejects,
       ReadsNext, Active, StatusOf, rowVars, workerVars, fileVars, Types,
       CompletedReported, CallsOf
<1>6. ASSUME NEW c \in Calls, Requeue(c) PROVE CompletedReported'
  BY <1>6, ToolCallsAssumption DEF Requeue, SetRun, StatusOf, rowVars, workerVars,
       fileVars, Types, CompletedReported, CallsOf
<1>7. ASSUME NEW c \in Calls, ReadsBefore(c) PROVE CompletedReported'
  BY <1>7, ToolCallsAssumption DEF ReadsBefore, Reads, ReadsNext, Connected, rowVars,
       workerVars, fileVars, Types, CompletedReported, CallsOf
<1>8. ASSUME NEW c \in Calls, ReadsAfter(c) PROVE CompletedReported'
  BY <1>8, ToolCallsAssumption DEF ReadsAfter, Reads, ReadsNext, Connected, rowVars,
       workerVars, fileVars, Types, CompletedReported, CallsOf
<1>9. ASSUME NEW c \in Calls, ReadsEnd(c) PROVE CompletedReported'
  <2>1. CASE run' = [run EXCEPT ![RunOf[c]] = "failed"]
    BY <1>9, <2>1 DEF ReadsEnd, Types, CompletedReported, CallsOf
  <2>2. CASE outcome[c] = "completed" /\ Active(c) /\ run' = [run EXCEPT ![RunOf[c]] = "completed"]
    <3>1. up[c] = E
      BY <1>9, HeadsAndTails, Distinct DEF ReadsEnd, ReadsNext, Types, Ups, B,
           BAE, AE, A, E
    <3>2. row[c] = "completed"
      BY <2>2, <3>1 DEF EndInTurn, Active
    <3> QED
      BY <1>9, <2>2, <3>2, ToolCallsAssumption DEF ReadsEnd, Types,
           CompletedReported, CallsOf
  <2> QED BY <1>9, <2>1, <2>2 DEF ReadsEnd, SetRun
<1>10. ASSUME NEW c \in Calls, RecordToolCallBefore(c) PROVE CompletedReported'
  <2>1. \A d \in Calls : row[d] = "completed" => row'[d] = "completed"
    BY <1>10 DEF RecordToolCallBefore, Types, CallInv, Asked
  <2>2. UNCHANGED run
    BY <1>10 DEF RecordToolCallBefore
  <2> QED BY <2>1, <2>2 DEF CompletedReported, CallsOf
<1>11. ASSUME NEW c \in Calls, CreateApproval(c) PROVE CompletedReported'
  BY <1>11, ToolCallsAssumption DEF CreateApproval, Cancellable, Active, SetRun,
       StatusOf, rowVars, workerVars, fileVars, Types, CompletedReported, CallsOf
<1>12. ASSUME NEW c \in Calls, DecisionDelivered(c) PROVE CompletedReported'
  BY <1>12, ToolCallsAssumption DEF DecisionDelivered, rowVars, workerVars, fileVars,
       Types, CompletedReported, CallsOf
<1>13. ASSUME NEW c \in Calls, RecordToolCallAfter(c) PROVE CompletedReported'
  <2>1. \A d \in Calls : row[d] = "completed" => row'[d] = "completed"
    BY <1>13 DEF RecordToolCallAfter, Types, CallInv, Told
  <2>2. UNCHANGED run
    BY <1>13 DEF RecordToolCallAfter
  <2> QED BY <2>1, <2>2 DEF CompletedReported, CallsOf
<1>14. ASSUME NEW c \in Calls, AfterAnswered(c) PROVE CompletedReported'
  BY <1>14, ToolCallsAssumption DEF AfterAnswered, Goes, rowVars, workerVars,
       fileVars, Types, CompletedReported, CallsOf
<1>15. ASSUME NEW c \in Calls, UserStep(c) PROVE CompletedReported'
  BY <1>15, ToolCallsAssumption DEF UserStep, ApproveReads, ApproveCommits,
       ExpireApproval, DenyApproval, Decides, Waiting, SetRun, StatusOf, rowVars,
       workerVars, fileVars, Types, CompletedReported, CallsOf
<1>16. ASSUME NEW c \in Calls, Ages(c) PROVE CompletedReported'
  BY <1>16, ToolCallsAssumption DEF Ages, rowVars, workerVars, fileVars, Types,
       CompletedReported, CallsOf
<1>17. ASSUME NEW c \in Calls, ServerStep(c) PROVE CompletedReported'
  BY <1>17, ToolCallsAssumption DEF ServerStep, ConsumeApproval, ValidateFails, Stat,
       WriteFile, WriteFails, Serves, rowVars, workerVars, fileVars, Types,
       CompletedReported, CallsOf
<1>18. ASSUME NEW r \in Runs, CancelRun(r) PROVE CompletedReported'
  BY <1>18 DEF CancelRun, rowVars, workerVars, fileVars, Types, CompletedReported,
       CallsOf
<1>19. CASE UNCHANGED vars
  BY <1>19 DEF vars, rowVars, workerVars, fileVars, Types, CompletedReported, CallsOf
<1> QED
  BY <1>1, <1>2, <1>3, <1>4, <1>5, <1>6, <1>7, <1>8, <1>9, <1>10, <1>11, <1>12, <1>13,
       <1>14, <1>15, <1>16, <1>17, <1>18, <1>19 DEF Next, WorkerStep, ReaderStep

(***************************************************************************)
(* The invariant in every reachable state                                  *)
(***************************************************************************)

\* Nothing is asked, on the way or written at first.
LEMMA InitCallsInv == Init => CallsInv
<1> SUFFICES ASSUME Init PROVE CallsInv
  OBVIOUS
<1> USE ToolCallsAssumption
<1>1. Types
  BY DEF Init, Types, RunStatus, RowStatus, ApprovalStatus, PC, Outcome, Reader,
       Request, Ups
<1>2. CallInv
  BY Distinct DEF Init, CallInv, InStep, Asked, Told
<1>3. OneAttempt /\ OneQuestion
  BY DEF Init, OneAttempt, OneQuestion, Live, StatusOf
<1>4. (\A c \in Calls : EndInTurn(c)) /\ OneReport /\ CompletedReported
  BY Distinct DEF Init, EndInTurn, OneReport, CompletedReported
<1> QED BY <1>1, <1>2, <1>3, <1>4 DEF CallsInv

\* No step of the agent, the reader, the user or the file server breaks it.
LEMMA CallsInvKept == CallsInv /\ [Next]_vars => CallsInv'
<1> SUFFICES ASSUME CallsInv, [Next]_vars PROVE CallsInv'
  OBVIOUS
<1> USE DEF CallsInv
<1>1. Types'
  BY TypesKept
<1>2. CallInv'
  BY InStepKept, AskedKept, ToldKept DEF CallInv
<1>3. OneAttempt'
  BY OneAttemptKept
<1>4. OneQuestion'
  BY OneQuestionKept
<1>5. \A c \in Calls : EndInTurn(c)'
  BY EndInTurnKept
<1>6. OneReport'
  BY OneReportKept
<1>7. CompletedReported'
  BY CompletedReportedKept
<1> QED BY <1>1, <1>2, <1>3, <1>4, <1>5, <1>6, <1>7

\* The inductive invariant holds in every reachable state.
THEOREM CallsAlways == Spec => []CallsInv
<1> QED BY InitCallsInv, CallsInvKept, PTL DEF Spec

\* Every variable keeps to its type, for any runs and attempts.
THEOREM TypeCorrect == Spec => []TypeOK
<1>1. CallsInv => TypeOK
  <2> SUFFICES ASSUME CallsInv PROVE TypeOK
    OBVIOUS
  <2>1. Ups \subseteq Seq(Kinds)
    BY DEF Ups, Kinds, B, BAE, AE, A, E
  <2>2. up \in [Calls -> Seq(Kinds)]
    BY <2>1 DEF CallsInv, Types
  <2> QED BY <2>2 DEF CallsInv, Types, TypeOK, Kinds
<1> QED BY <1>1, CallsAlways, PTL

\* A row that says completed was written for, and one that says denied was not and
\* never will be: no lost answer, timeout or late approval makes the row a lie.
THEOREM RowsTrue == Spec => []RowsTellTheTruth
<1>1. CallsInv => RowsTellTheTruth
  BY DEF CallsInv, CallInv, Told, RowsTellTheTruth
<1> QED BY <1>1, CallsAlways, PTL

\* The file server writes for a call whose approval it has consumed, and no other.
THEOREM ConsentGiven == Spec => []WrittenByConsent
<1>1. CallsInv => WrittenByConsent
  BY DEF CallsInv, CallInv, Told, WrittenByConsent
<1> QED BY <1>1, CallsAlways, PTL

\* A run waits for the user exactly when one of its calls has an open question.
THEOREM OneOpenQuestion == Spec => []WaitingIsAsked
<1>1. CallsInv => WaitingIsAsked
  <2> SUFFICES ASSUME CallsInv, NEW r \in Runs
               PROVE  LET asked == {c \in CallsOf(r) : approval[c] = "pending"}
                      IN  /\ run[r] = "waiting_approval" => Cardinality(asked) = 1
                          /\ run[r] \in {"queued", "running", "completed"} => asked = {}
    BY DEF WaitingIsAsked
  <2> DEFINE asked == {c \in CallsOf(r) : approval[c] = "pending"}
  <2>1. ASSUME run[r] = "waiting_approval" PROVE Cardinality(asked) = 1
    <3>1. PICK c \in CallsOf(r) : approval[c] = "pending"
      BY <2>1 DEF CallsInv, OneQuestion
    <3>2. asked = {c}
      BY <3>1 DEF CallsInv, OneQuestion, Siblings, CallsOf
    <3> QED BY <3>2, FS_Singleton
  <2>2. ASSUME run[r] \in {"queued", "running", "completed"} PROVE asked = {}
    BY <2>2 DEF CallsInv, OneQuestion, CallsOf, StatusOf
  <2> QED BY <2>1, <2>2
<1> QED BY <1>1, CallsAlways, PTL

\* However often a run is executed, one of its attempts at most reports the file as
\* created, and one has when the run completes.
THEOREM CreatedOnce == Spec => []CreatedOncePerRun
<1>1. CallsInv => CreatedOncePerRun
  <2> SUFFICES ASSUME CallsInv, NEW r \in Runs
               PROVE  LET created == {c \in CallsOf(r) : row[c] = "completed"}
                      IN  /\ Cardinality(created) <= 1
                          /\ run[r] = "completed" => created # {}
    BY DEF CreatedOncePerRun
  <2> DEFINE created == {c \in CallsOf(r) : row[c] = "completed"}
  <2>1. Cardinality(created) <= 1
    <3>1. CASE created = {}
      BY <3>1, FS_EmptySet
    <3>2. CASE created # {}
      <4>1. PICK c : c \in created
        BY <3>2
      <4>2. created = {c}
        BY <4>1 DEF CallsInv, OneReport, Siblings, CallsOf
      <4> QED BY <4>2, FS_Singleton
    <3> QED BY <3>1, <3>2
  <2>2. run[r] = "completed" => created # {}
    BY DEF CallsInv, CompletedReported
  <2> QED BY <2>1, <2>2
<1> QED BY <1>1, CallsAlways, PTL
=============================================================================
