-------------------------- MODULE Processes_proofs --------------------------
(***************************************************************************)
(* Theorems about the processes: the worker's (WorkerProcess), the         *)
(* orchestrator's (Orchestrator), and both beside each other, as they are  *)
(* checked (MCProcesses).                                                  *)
(***************************************************************************)
EXTENDS MCProcesses, TLAPS

(***************************************************************************)
(* Proofs about WorkerProcess, for any number of jobs and any window of    *)
(* the stream: its table of active runs is true, and it implements the     *)
(* safety of RunReports.                                                   *)
(***************************************************************************)
WorkSet == TaskSet \ {"none", "leave", "remove", "gone"}
Open    == {"assigned", "working"}

\* A command to start or to cancel a job is under way at most once, and before what
\* it is about: the job has not been started, or not been acknowledged.
CommandInv ==
  /\ \A i \in 1 .. Len(commands) :
       /\ commands[i].kind = "assigned" =>
            task[commands[i].job] = "none" /\ said[commands[i].job] = "assigned"
       /\ commands[i].kind = "cancelled" =>
            /\ commands[i].job \in revoked /\ commands[i].job # loop.job
            /\ said[commands[i].job] \in Open \union {"ended"}
  /\ \A i, k \in 1 .. Len(commands) :
       commands[i] = commands[k] /\ commands[i].kind \in {"assigned", "cancelled"} => i = k

\* What has been said of a job fits where its goroutine is.
SaidInv ==
  \A j \in Jobs :
    /\ task[j] # "none" => said[j] # "none"
    /\ task[j] \in WorkSet => said[j] \in Open
    /\ said[j] \in {"acked", "twice"} => j \in revoked

\* The job the loop is at was started and is not acknowledged; a job that is told
\* to stop keeps the loop waiting while it works.
LoopInv ==
  \A j \in Jobs :
    /\ loop.job = j =>
         j \in revoked /\ said[j] \in Open \union {"ended"} /\ task[j] # "none"
    /\ loop = At("acking", j) => task[j] = "gone" /\ j \notin active
    /\ j \in stopping => task[j] # "none"
    /\ j \in stopping /\ Working(j) => loop = At("waiting", j)

WorkerInv ==
  /\ WorkerTypeOK
  /\ TableIsTrue
  /\ Up => CommandInv /\ SaidInv /\ LoopInv

\* A step of a job's goroutine but its last two: it may say something.
WorkStep(j) ==
  /\ Up /\ UNCHANGED <<loop, tableVars, commands, revoked, settled>>
  /\ task[j] \in WorkSet
  /\ \E to \in WorkSet \union {"leave"} :
       /\ task' = [task EXCEPT ![j] = to]
       /\ \/ UNCHANGED <<updates, said>>
          \/ \E k \in {"event", "before", "after"} :
               updates' = Append(updates, About(k, j)) /\ said' = [said EXCEPT ![j] = "working"]
          \/ /\ to = "leave"
             /\ \E k \in {"completed", "failed"} : updates' = Append(updates, About(k, j))
             /\ said' = [said EXCEPT ![j] = IF @ = "ended" THEN "twice" ELSE "ended"]

(***************************************************************************)
(* Queues                                                                  *)
(***************************************************************************)
LEMMA Appended ==
  ASSUME NEW S, NEW q \in Seq(S), NEW x \in S
  PROVE  /\ Append(q, x) \in Seq(S)
         /\ Len(Append(q, x)) = Len(q) + 1
         /\ \A i \in 1 .. Len(q) : Append(q, x)[i] = q[i]
         /\ Append(q, x)[Len(q) + 1] = x
OBVIOUS

LEMMA Taken ==
  ASSUME NEW S, NEW q \in Seq(S), q # <<>>
  PROVE  /\ Head(q) = q[1] /\ Head(q) \in S /\ Tail(q) \in Seq(S)
         /\ Len(q) \in Nat \ {0} /\ Len(Tail(q)) = Len(q) - 1
         /\ \A i \in 1 .. Len(q) - 1 : Tail(q)[i] = q[i + 1]
OBVIOUS

LEMMA Abouts ==
  ASSUME NEW j \in Jobs
  PROVE  /\ \A k \in {"assigned", "cancelled", "before", "after"} : About(k, j) \in CommandSet
         /\ \A k \in {"event", "before", "after", "completed", "failed", "ack"} : About(k, j) \in UpdateSet
BY DEF About, CommandSet, UpdateSet

(***************************************************************************)
(* The steps of a job's goroutine                                          *)
(***************************************************************************)
LEMMA SendSays ==
  ASSUME WorkerTypeOK, NEW j \in Jobs, NEW k \in {"event", "before", "after", "completed", "failed"}, Send(k, j)
  PROVE  /\ updates' = Append(updates, About(k, j)) /\ UNCHANGED <<commands, revoked, settled>>
         /\ k \in {"event", "before", "after"} => said' = [said EXCEPT ![j] = "working"]
         /\ k \in {"completed", "failed"} => said' = [said EXCEPT ![j] = IF @ = "ended" THEN "twice" ELSE "ended"]
BY DEF Send, WorkerTypeOK

LEMMA AckSays ==
  ASSUME WorkerTypeOK, NEW j \in Jobs, Send("ack", j)
  PROVE  /\ updates' = Append(updates, About("ack", j)) /\ UNCHANGED <<commands, revoked, settled>>
         /\ said' = [said EXCEPT ![j] = IF @ = "acked" THEN "twice" ELSE "acked"]
BY DEF Send, WorkerTypeOK

LEMMA WorkSteps ==
  ASSUME WorkerTypeOK, NEW j \in Jobs, TaskStep(j), ~Leave(j), ~Remove(j)
  PROVE  WorkStep(j)
<1> USE DEF Moves, WorkSet, TaskSet, WorkStep, streamVars
<1>1. ASSUME NEW from \in WorkSet, NEW to \in WorkSet, NEW k \in {"event", "before", "after"},
             Moves(j, from, to), Send(k, j)
      PROVE  WorkStep(j)
  BY <1>1, SendSays
<1>2. ASSUME NEW from \in WorkSet, NEW to \in WorkSet \union {"leave"},
             Moves(j, from, to), UNCHANGED streamVars
      PROVE  WorkStep(j)
  BY <1>2
<1>3. CASE FetchMessages(j)
  BY <1>3, <1>2 DEF FetchMessages, Asks
<1>4. CASE EmitStarted(j)
  BY <1>4, <1>1 DEF EmitStarted, Emits
<1>5. CASE StreamChat(j)
  BY <1>5, <1>2 DEF StreamChat
<1>6. CASE TakeEvent(j)
  BY <1>6, <1>2 DEF TakeEvent
<1>7. CASE EmitDelta(j)
  BY <1>7, <1>1 DEF EmitDelta, Emits
<1>8. CASE AnswerEnds(j)
  BY <1>8, <1>2 DEF AnswerEnds
<1>9. CASE EmitCompleted(j)
  BY <1>9, SendSays DEF EmitCompleted, Emits
<1>10. CASE EmitFailed(j)
  BY <1>10, SendSays DEF EmitFailed, Emits
<1>11. CASE ToolStep(j)
  <2>1. CASE PostBefore(j)
    BY <2>1, <1>1 DEF PostBefore, Posts
  <2>2. CASE DecideTool(j)
    BY <2>2, <1>2 DEF DecideTool, Decided
  <2>3. CASE PollApproval(j) \/ CallTool(j)
    BY <2>3, <1>2 DEF PollApproval, CallTool, Asks
  <2>4. CASE PostAfter(j)
    BY <2>4, <1>1 DEF PostAfter, Posts
  <2>5. CASE HeedAnswer(j)
    BY <2>5, <1>2 DEF HeedAnswer, Decided
  <2>6. CASE GiveUpWaiting(j)
    BY <2>6, <1>2 DEF GiveUpWaiting, StopsWaiting
  <2>7. CASE EmitResult(j)
    BY <2>7, <1>1 DEF EmitResult, Emits
  <2> QED BY <1>11, <2>1, <2>2, <2>3, <2>4, <2>5, <2>6, <2>7 DEF ToolStep
<1> QED BY <1>3, <1>4, <1>5, <1>6, <1>7, <1>8, <1>9, <1>10, <1>11 DEF TaskStep

(***************************************************************************)
(* Type correctness                                                        *)
(***************************************************************************)
\* The model and the waiter of a job keep to their types.
Inside ==
  /\ model' \in [Jobs -> ModelSet]
  /\ texts' \in [Jobs -> 0..MaxText]
  /\ waiter' \in [Jobs -> Channel]

LEMMA InsideSteps ==
  ASSUME WorkerTypeOK, NEW j \in Jobs, TaskStep(j)
  PROVE  Inside
<1>1. CASE UNCHANGED <<model, texts, waiter>>
  BY <1>1 DEF WorkerTypeOK, Inside
<1>2. ASSUME UNCHANGED texts, UNCHANGED waiter,
             \E p \in {"ollama", "openai"} : model' = [model EXCEPT ![j] = [of |-> p, at |-> "read"]]
      PROVE  Inside
  BY <1>2 DEF WorkerTypeOK, Inside, ModelSet
<1>3. ASSUME UNCHANGED texts, UNCHANGED waiter,
             \E at \in {"read", "done", "off"} : ReadTo(j, at)
      PROVE  Inside
  <2>1. PICK at \in {"read", "done", "off"} : model' = [model EXCEPT ![j].at = at]
    BY <1>3 DEF ReadTo
  <2>2. model[j] \in ModelSet
    BY DEF WorkerTypeOK
  <2>3. [model[j] EXCEPT !.at = at] \in ModelSet
    BY <2>2 DEF ModelSet
  <2> QED BY <1>3, <2>1, <2>3 DEF WorkerTypeOK, Inside
<1>4. ASSUME UNCHANGED <<model, texts>>, \E c \in Channel : SetWaiter(j, c)
      PROVE  Inside
  BY <1>4 DEF WorkerTypeOK, Inside, SetWaiter
<1>5. CASE StreamChat(j)
  BY <1>1, <1>2, <1>5 DEF StreamChat
<1>6. CASE TakeEvent(j)
  <2>1. AfterEvent(j) \in {"read", "done", "off"}
    BY Zenon DEF AfterEvent
  <2> QED BY <1>3, <1>6, <2>1 DEF TakeEvent
<1>7. CASE FetchMessages(j) \/ EmitStarted(j) \/ EmitDelta(j) \/ AnswerEnds(j)
             \/ EmitCompleted(j) \/ EmitFailed(j) \/ Leave(j) \/ Remove(j)
  BY <1>1, <1>7 DEF FetchMessages, Asks, EmitStarted, EmitDelta, AnswerEnds, EmitCompleted, EmitFailed,
                    Emits, Leave, Remove
<1>8. CASE ToolStep(j)
  <2>1. {"none", "empty"} \subseteq Channel
    BY DEF Channel
  <2> QED BY <1>1, <1>4, <1>8, <2>1
      DEF ToolStep, PostBefore, Posts, DecideTool, Decided, PollApproval, CallTool, Asks,
          PostAfter, HeedAnswer, GiveUpWaiting, StopsWaiting, EmitResult, Emits
<1> QED BY <1>5, <1>6, <1>7, <1>8 DEF TaskStep

LEMMA ModelSteps ==
  ASSUME WorkerTypeOK, NEW j \in Jobs, ModelStep(j)
  PROVE  Inside /\ UNCHANGED <<streamVars, loop, tableVars, task>>
<1>1. /\ model[j] \in ModelSet /\ texts[j] \in 0..MaxText /\ MaxText \in Nat
      /\ model \in [Jobs -> ModelSet] /\ texts \in [Jobs -> 0..MaxText] /\ waiter \in [Jobs -> Channel]
  BY WorkerAssumption DEF WorkerTypeOK, WorkerAssumption
<1>2. ASSUME NEW at \in {"read", "text", "last", "done", "error", "off"}
      PROVE  [model EXCEPT ![j].at = at] \in [Jobs -> ModelSet]
  BY <1>1, <1>2 DEF ModelSet
<1>3. texts[j] < MaxText => texts[j] + 1 \in 0..MaxText
  BY <1>1
<1>4. CASE OllamaReads(j)
  BY <1>1, <1>2, <1>3, <1>4 DEF OllamaReads, ModelReads, ReadTo, Inside
<1>5. CASE OpenAIReads(j)
  BY <1>1, <1>2, <1>3, <1>5 DEF OpenAIReads, ModelReads, ReadTo, Inside
<1>6. CASE SendGivenUp(j)
  BY <1>1, <1>2, <1>6 DEF SendGivenUp, ReadTo, Inside
<1> QED BY <1>4, <1>5, <1>6 DEF ModelStep

LEMMA WorkerTypes ==
  ASSUME WorkerInv, WorkerNext
  PROVE  WorkerTypeOK'
<1>0. WorkerTypeOK
  BY DEF WorkerInv
<1> USE DEF WorkerTypeOK, streamVars, tableVars, taskVars
<1>1. ASSUME NEW j \in Jobs, AssignJob(j) PROVE WorkerTypeOK'
  <2>1. commands \in Seq(CommandSet) /\ About("assigned", j) \in CommandSet
    BY <1>0, Abouts
  <2>2. commands' \in Seq(CommandSet)
    BY <1>1, <2>1, Appended DEF AssignJob, Commands
  <2> QED BY <1>0, <1>1, <2>2 DEF AssignJob, SaidSet
<1>2. ASSUME NEW j \in Jobs, RevokeJob(j) PROVE WorkerTypeOK'
  <2>1. commands \in Seq(CommandSet) /\ About("cancelled", j) \in CommandSet
    BY <1>0, Abouts
  <2> HIDE DEF WorkerTypeOK
  <2>2. commands' \in Seq(CommandSet)
    BY <1>2, <2>1, Appended DEF RevokeJob, Commands
  <2> USE DEF WorkerTypeOK
  <2> QED BY <1>0, <1>2, <2>2 DEF RevokeJob
<1>3. ASSUME NEW j \in Jobs, TaskStep(j) PROVE WorkerTypeOK'
  <2>1. Inside
    BY <1>0, <1>3, InsideSteps
  <2>2. CASE Leave(j)
    BY <1>0, <2>1, <2>2 DEF Leave, Moves, TaskSet, Inside
  <2>3. CASE Remove(j)
    BY <1>0, <2>1, <2>3 DEF Remove, TaskSet, Inside
  <2>4. CASE ~Leave(j) /\ ~Remove(j)
    <3>1. WorkStep(j)
      BY <1>0, <1>3, <2>4, WorkSteps
    <3>2. /\ updates \in Seq(UpdateSet)
          /\ \A k \in {"event", "before", "after", "completed", "failed"} : About(k, j) \in UpdateSet
      BY <1>0, Abouts
    <3>3. updates' \in Seq(UpdateSet)
      <4> HIDE DEF WorkerTypeOK
      <4> QED BY <3>1, <3>2, Appended DEF WorkStep
    <3>4. task' \in [Jobs -> TaskSet]
      BY <1>0, <3>1 DEF WorkStep, WorkSet, TaskSet
    <3>5. said' \in [Jobs -> SaidSet]
      BY <1>0, <3>1 DEF WorkStep, SaidSet
    <3> QED BY <1>0, <2>1, <3>1, <3>3, <3>4, <3>5 DEF WorkStep, Inside
  <2> QED BY <2>2, <2>3, <2>4
<1>4. ASSUME NEW j \in Jobs, ModelStep(j) PROVE WorkerTypeOK'
  BY <1>0, <1>4, ModelSteps DEF Inside
<1>5. CASE LoopStep
  <2>1. ASSUME NEW j \in Jobs, StartRun(j) PROVE WorkerTypeOK'
    BY <1>0, <2>1 DEF StartRun, Received, TaskSet
  <2>2. ASSUME NEW j \in Jobs, DeliverDecision(j) PROVE WorkerTypeOK'
    BY <1>0, <2>2 DEF DeliverDecision, Received, Channel
  <2>3. ASSUME NEW j \in Jobs, ActiveRun(j) PROVE WorkerTypeOK'
    <3>1. commands \in Seq(CommandSet) /\ commands # <<>> /\ commands' = Tail(commands)
      BY <1>0, <2>3 DEF ActiveRun, Received
    <3>2. commands' \in Seq(CommandSet)
      BY <3>1, Taken
    <3>3. At("found", j) \in LoopSet
      BY DEF At, LoopSet, AtJob
    <3> QED BY <1>0, <2>3, <3>2, <3>3 DEF ActiveRun, Received
  <2>5. ASSUME NEW j \in Jobs, StopJob(j) \/ StoppedJob(j) PROVE WorkerTypeOK'
    <3>1. At("waiting", j) \in LoopSet /\ At("acking", j) \in LoopSet
      BY DEF At, LoopSet, AtJob
    <3> QED BY <1>0, <2>5, <3>1 DEF StopJob, StoppedJob
  <2>4. ASSUME NEW j \in Jobs, AckCancel(j) PROVE WorkerTypeOK'
    <3>1. /\ updates' = Append(updates, About("ack", j)) /\ UNCHANGED <<commands, revoked, settled>>
          /\ said' = [said EXCEPT ![j] = IF @ = "acked" THEN "twice" ELSE "acked"]
      BY <1>0, <2>4, AckSays DEF AckCancel
    <3>2. updates' \in Seq(UpdateSet)
      BY <1>0, <3>1, Abouts, Appended
    <3>4. said' \in [Jobs -> SaidSet]
      BY <1>0, <3>1 DEF SaidSet
    <3>3. loop' \in LoopSet
      BY <2>4 DEF AckCancel, LoopSet, Receiving, At
    <3>5. UNCHANGED <<commands, revoked, settled, active, stopping, cancelled, task, model, texts, waiter>>
      BY <2>4, <3>1 DEF AckCancel
    <3> QED BY <1>0, <3>2, <3>3, <3>4, <3>5
  <2> QED BY <1>5, <2>1, <2>2, <2>3, <2>4, <2>5 DEF LoopStep
<1>6. CASE StreamBreaks
  BY <1>0, <1>6 DEF StreamBreaks, StreamOver, At, LoopSet
<1>7. CASE ReceiveUpdate
  <2>1. Head(updates) \in UpdateSet /\ Tail(updates) \in Seq(UpdateSet)
    BY <1>0, <1>7 DEF ReceiveUpdate
  <2>2. \A k \in {"before", "after"} : About(k, Head(updates).job) \in CommandSet
    BY <2>1 DEF About, CommandSet, UpdateSet
  <2>3. Head(updates).job \in Jobs
    BY <2>1 DEF UpdateSet
  <2>4. CASE ~StreamBreaks
    <3>1. commands \in Seq(CommandSet)
      BY <1>0
    <3>2. commands' \in Seq(CommandSet)
      <4> HIDE DEF WorkerTypeOK
      <4>1. \/ UNCHANGED commands
            \/ \E k \in {"before", "after"} : commands' = Append(commands, About(k, Head(updates).job))
        BY <1>7, <2>4 DEF ReceiveUpdate, Commands
      <4> QED BY <2>2, <3>1, <4>1, Appended
    <3> QED BY <1>0, <1>7, <2>1, <2>3, <2>4, <3>2 DEF ReceiveUpdate
  <2> QED BY <1>6, <2>4
<1> QED BY <1>1, <1>2, <1>3, <1>4, <1>5, <1>6, <1>7 DEF WorkerNext

(***************************************************************************)
(* The table, and what is said                                             *)
(***************************************************************************)
Rest == TableIsTrue /\ (Up => CommandInv /\ SaidInv /\ LoopInv)

\* Everything but the types follows the commands, the table and what is said.
LEMMA RestUnchanged ==
  ASSUME Rest, UNCHANGED <<commands, revoked, said, loop, tableVars, task>>
  PROVE  Rest'
BY DEF Rest, TableIsTrue, CommandInv, SaidInv, LoopInv, Up, Working, tableVars

LEMMA BreakStep ==
  ASSUME Rest, StreamBreaks
  PROVE  Rest'
BY DEF Rest, TableIsTrue, StreamBreaks, Up, StreamOver, At

\* The facts of a job other than the one a step is about are left alone.
LEMMA WorkRest ==
  ASSUME WorkerTypeOK, Rest, NEW j \in Jobs, WorkStep(j)
  PROVE  Rest'
<1>1. /\ task[j] \in WorkSet /\ said[j] \in Open
      /\ Up /\ UNCHANGED <<loop, commands, active, stopping, cancelled, revoked>>
      /\ CommandInv /\ SaidInv /\ LoopInv /\ TableIsTrue
  BY DEF WorkStep, Rest, SaidInv, tableVars
<1>2. /\ task \in [Jobs -> TaskSet] /\ said \in [Jobs -> SaidSet]
      /\ commands \in Seq(CommandSet)
  BY DEF WorkerTypeOK
<1>3. PICK to \in WorkSet \union {"leave"} : task' = [task EXCEPT ![j] = to]
  BY DEF WorkStep
<1>4. /\ \A i \in Jobs \ {j} : task'[i] = task[i] /\ said'[i] = said[i]
      /\ task'[j] = to /\ to \notin {"none", "gone"} /\ to \in TaskSet
      /\ said'[j] \in Open \union {"ended"}
  BY <1>1, <1>2, <1>3 DEF WorkStep, WorkSet, TaskSet, Open
<1>5. to \in WorkSet => said'[j] \in Open
  <2>1. to # "leave" => said'[j] \in {said[j], "working"}
    BY <1>1, <1>2, <1>3, <1>4 DEF WorkStep
  <2> QED BY <1>1, <2>1 DEF WorkSet, Open
<1>6. Working(j) /\ Working(j)'
  BY <1>1, <1>4 DEF Working, WorkSet
<1>7. TableIsTrue'
  BY <1>1, <1>4, <1>6 DEF TableIsTrue, Up, Working
<1>8. CommandInv'
  <2>1. \A i \in 1 .. Len(commands) : commands[i] \in CommandSet
    BY <1>2
  <2>2. \A i \in 1 .. Len(commands) : commands[i].job \in Jobs
    BY <2>1 DEF CommandSet
  <2>3. \A i \in 1 .. Len(commands) : commands[i].kind = "assigned" => commands[i].job # j
    BY <1>1 DEF CommandInv, WorkSet
  <2> QED BY <1>1, <1>4, <2>2, <2>3 DEF CommandInv
<1>9. SaidInv'
  BY <1>1, <1>4, <1>5 DEF SaidInv, Open
<1>10. LoopInv'
  BY <1>1, <1>4, <1>6 DEF LoopInv, Working, WorkSet, Open
<1> QED BY <1>7, <1>8, <1>9, <1>10 DEF Rest

LEMMA LastSteps ==
  ASSUME WorkerTypeOK, Rest, NEW j \in Jobs, Leave(j) \/ Remove(j)
  PROVE  Rest'
<1>1. /\ task[j] \in {"leave", "remove"}
      /\ Up /\ UNCHANGED <<loop, commands, stopping, cancelled, revoked, said>>
      /\ CommandInv /\ SaidInv /\ LoopInv /\ TableIsTrue
  BY DEF Leave, Remove, Moves, Rest, tableVars, streamVars
<1>2. task \in [Jobs -> TaskSet] /\ commands \in Seq(CommandSet)
  BY DEF WorkerTypeOK
<1>3. /\ \A i \in Jobs \ {j} : task'[i] = task[i]
      /\ task'[j] \in {"remove", "gone"}
      /\ \A i \in Jobs \ {j} : i \in active' <=> i \in active
  BY <1>2 DEF Leave, Remove, Moves, tableVars
<1>7. CommandInv' /\ SaidInv'
  <2>1. \A i \in 1 .. Len(commands) : commands[i] \in CommandSet
    BY <1>2
  <2>2. \A i \in 1 .. Len(commands) : commands[i].job \in Jobs
    BY <2>1 DEF CommandSet
  <2>3. \A i \in 1 .. Len(commands) : commands[i].kind = "assigned" => commands[i].job # j
    BY <1>1 DEF CommandInv
  <2>4. CommandInv'
    BY <1>1, <1>3, <2>2, <2>3 DEF CommandInv
  <2>5. SaidInv'
    BY <1>1, <1>3 DEF SaidInv, WorkSet
  <2> QED BY <2>4, <2>5
<1>4. CASE Leave(j) /\ j \in stopping
  <2>1. task'[j] = "gone" /\ active' = active /\ loop = At("waiting", j)
    BY <1>1, <1>2, <1>4 DEF Leave, Moves, LoopInv, Working, tableVars
  <2>2. TableIsTrue'
    BY <1>1, <1>3, <2>1 DEF TableIsTrue, Up, Working, At
  <2>3. loop' = loop /\ said' = said /\ revoked' = revoked /\ stopping' = stopping
    BY <1>1
  <2>4. loop # At("acking", j) /\ \A i \in Jobs : At("acking", i) # loop
    BY <2>1 DEF At
  <2>5. ASSUME NEW i \in Jobs, i # j
        PROVE  LoopInv!(i)'
    <3>1. LoopInv!(i) /\ task'[i] = task[i]
      BY <1>1, <1>3, <2>5 DEF LoopInv
    <3> QED BY <2>1, <2>3, <2>4, <2>5, <3>1 DEF Working, At
  <2>6. LoopInv!(j)'
    BY <1>1, <2>1, <2>3, <2>4 DEF LoopInv, Working, At
  <2>7. LoopInv'
    BY <2>5, <2>6 DEF LoopInv
  <2> QED BY <1>7, <2>2, <2>7 DEF Rest
<1>5. CASE Leave(j) /\ j \notin stopping
  <2>1. task'[j] = "remove" /\ active' = active
    BY <1>2, <1>5 DEF Leave, Moves, tableVars
  <2>2. TableIsTrue'
    BY <1>1, <1>3, <2>1 DEF TableIsTrue, Up, Working
  <2>3. LoopInv'
    BY <1>1, <1>3, <2>1, <1>5 DEF LoopInv, Working
  <2> QED BY <1>7, <2>2, <2>3 DEF Rest
<1>6. CASE Remove(j)
  <2>1. task'[j] = "gone" /\ active' = active \ {j}
    BY <1>2, <1>6 DEF Remove
  <2>2. TableIsTrue'
    BY <1>1, <1>3, <2>1 DEF TableIsTrue, Up, Working
  <2>3. LoopInv'
    BY <1>1, <1>3, <2>1 DEF LoopInv, Working
  <2> QED BY <1>7, <2>2, <2>3 DEF Rest
<1> QED BY <1>4, <1>5, <1>6

\* A command that is received leaves the others as they were.
LEMMA OneLess ==
  ASSUME WorkerTypeOK, CommandInv, commands # <<>>, commands' = Tail(commands),
         UNCHANGED <<revoked, said, loop, task>>
  PROVE  CommandInv'
<1>1. commands \in Seq(CommandSet)
  BY DEF WorkerTypeOK
<1>2. /\ Len(commands) \in Nat \ {0} /\ Len(commands') = Len(commands) - 1
      /\ \A i \in 1 .. Len(commands) - 1 : commands'[i] = commands[i + 1]
  BY <1>1, Taken
<1>3. \A i \in 1 .. Len(commands') : i + 1 \in 1 .. Len(commands) /\ commands'[i] = commands[i + 1]
  BY <1>2
<1> QED BY <1>2, <1>3 DEF CommandInv

\* A command that is received is not on the stream any more.
LEMMA Unique ==
  ASSUME WorkerTypeOK, CommandInv, commands # <<>>, commands' = Tail(commands),
         Head(commands).kind \in {"assigned", "cancelled"}
  PROVE  \A i \in 1 .. Len(commands') : commands'[i] # Head(commands)
<1>1. commands \in Seq(CommandSet)
  BY DEF WorkerTypeOK
<1>2. /\ Len(commands) \in Nat \ {0} /\ Len(commands') = Len(commands) - 1
      /\ \A i \in 1 .. Len(commands) - 1 : commands'[i] = commands[i + 1]
      /\ Head(commands) = commands[1]
  BY <1>1, Taken
<1> QED BY <1>2 DEF CommandInv

\* One that is sent, and is neither to start nor to cancel, needs nothing.
LEMMA OneMore ==
  ASSUME WorkerTypeOK, CommandInv, NEW c \in CommandSet, c.kind \notin {"assigned", "cancelled"},
         commands' = Append(commands, c), UNCHANGED <<revoked, said, loop, task>>
  PROVE  CommandInv'
<1>1. commands \in Seq(CommandSet)
  BY DEF WorkerTypeOK
<1>2. /\ Len(commands') = Len(commands) + 1
      /\ \A i \in 1 .. Len(commands) : commands'[i] = commands[i]
      /\ commands'[Len(commands) + 1] = c
      /\ Len(commands) \in Nat
  BY <1>1, Appended
<1>3. \A i \in 1 .. Len(commands') :
        commands'[i].kind \in {"assigned", "cancelled"} => i \in 1 .. Len(commands)
  BY <1>2
<1>4. \A i \in 1 .. Len(commands) : commands'[i] = commands[i]
  BY <1>2
<1> QED BY <1>3, <1>4 DEF CommandInv

LEMMA AssignRest ==
  ASSUME WorkerTypeOK, Rest, NEW j \in Jobs, AssignJob(j)
  PROVE  Rest'
<1>1. /\ Up /\ said[j] = "none" /\ UNCHANGED <<revoked, loop, active, stopping, cancelled, task>>
      /\ commands' = Append(commands, About("assigned", j))
      /\ said' = [said EXCEPT ![j] = "assigned"]
      /\ CommandInv /\ SaidInv /\ LoopInv /\ TableIsTrue
  BY DEF AssignJob, Commands, Rest, tableVars, taskVars
<1>2. /\ commands \in Seq(CommandSet) /\ said \in [Jobs -> SaidSet]
      /\ About("assigned", j) \in CommandSet
  BY Abouts DEF WorkerTypeOK
<1>3. /\ Len(commands') = Len(commands) + 1 /\ Len(commands) \in Nat
      /\ \A i \in 1 .. Len(commands) : commands'[i] = commands[i] /\ commands[i] \in CommandSet
      /\ commands'[Len(commands) + 1] = About("assigned", j)
  BY <1>1, <1>2, Appended
<1>4. task[j] = "none" /\ loop.job # j /\ j \notin stopping
  BY <1>1 DEF SaidInv, LoopInv, Open
<1>5. said'[j] = "assigned" /\ \A i \in Jobs \ {j} : said'[i] = said[i]
  BY <1>1, <1>2
<1>6. \A i \in 1 .. Len(commands) :
        commands[i].kind \in {"assigned", "cancelled"} => commands[i].job \in Jobs \ {j}
  BY <1>1, <1>3 DEF CommandInv, CommandSet, Open
<1>7. CommandInv'
  <2>1. About("assigned", j).kind = "assigned" /\ About("assigned", j).job = j
    BY DEF About
  <2> QED BY <1>1, <1>3, <1>4, <1>5, <1>6, <2>1 DEF CommandInv
<1>8. SaidInv'
  BY <1>1, <1>4, <1>5 DEF SaidInv, WorkSet, Open
<1>9. LoopInv'
  BY <1>1, <1>4, <1>5 DEF LoopInv, Working, Open
<1>10. TableIsTrue'
  BY <1>1 DEF TableIsTrue, Up, Working
<1> QED BY <1>7, <1>8, <1>9, <1>10 DEF Rest

LEMMA RevokeRest ==
  ASSUME WorkerTypeOK, Rest, NEW j \in Jobs, RevokeJob(j)
  PROVE  Rest'
<1>1. /\ Up /\ said[j] # "none" /\ j \notin revoked
      /\ UNCHANGED <<said, loop, active, stopping, cancelled, task>>
      /\ revoked' = revoked \union {j}
      /\ CommandInv /\ SaidInv /\ LoopInv /\ TableIsTrue
  BY DEF RevokeJob, Rest, tableVars, taskVars
<1>2. /\ commands \in Seq(CommandSet) /\ said \in [Jobs -> SaidSet]
      /\ About("cancelled", j) \in CommandSet
  BY Abouts DEF WorkerTypeOK
<1>3. said[j] \in Open \union {"ended"} /\ loop.job # j
  BY <1>1, <1>2 DEF SaidInv, SaidSet, Open, LoopInv
<1>4. SaidInv' /\ LoopInv' /\ TableIsTrue'
  BY <1>1 DEF SaidInv, LoopInv, TableIsTrue, Up, Working
<1>5. CASE UNCHANGED commands
  <2>1. CommandInv'
    BY <1>1, <1>5 DEF CommandInv
  <2> QED BY <1>4, <2>1 DEF Rest
<1>6. CASE commands' = Append(commands, About("cancelled", j))
  <2>1. /\ Len(commands') = Len(commands) + 1 /\ Len(commands) \in Nat
        /\ \A i \in 1 .. Len(commands) : commands'[i] = commands[i]
        /\ commands'[Len(commands) + 1] = About("cancelled", j)
    BY <1>2, <1>6, Appended
  <2>2. About("cancelled", j).kind = "cancelled" /\ About("cancelled", j).job = j
    BY DEF About
  <2>3. \A i \in 1 .. Len(commands) : commands[i] # About("cancelled", j)
    BY <1>1, <2>2 DEF CommandInv
  <2>4. CommandInv'
    BY <1>1, <1>3, <2>1, <2>2, <2>3 DEF CommandInv
  <2> QED BY <1>4, <2>4 DEF Rest
<1> QED BY <1>5, <1>6 DEF RevokeJob, Commands

LEMMA LoopRest ==
  ASSUME WorkerTypeOK, Rest, NEW j \in Jobs,
         StartRun(j) \/ DeliverDecision(j) \/ ActiveRun(j) \/ StopJob(j) \/ StoppedJob(j)
  PROVE  Rest'
<1>1. /\ Up /\ loop # StreamOver
      /\ CommandInv /\ SaidInv /\ LoopInv /\ TableIsTrue
  BY DEF StartRun, DeliverDecision, ActiveRun, StopJob, StoppedJob, Received, Up, At, Receiving, StreamOver, Rest
<1>2. /\ task \in [Jobs -> TaskSet] /\ said \in [Jobs -> SaidSet] /\ commands \in Seq(CommandSet)
      /\ NoJob \notin Jobs
  BY WorkerAssumption DEF WorkerTypeOK, WorkerAssumption
<1>3. CASE StartRun(j)
  <2>1. /\ loop = Receiving /\ commands # <<>> /\ Head(commands) = About("assigned", j)
        /\ commands' = Tail(commands) /\ active' = active \union {j}
        /\ task' = [task EXCEPT ![j] = "fetch"]
        /\ UNCHANGED <<revoked, said, loop, stopping>>
    BY <1>3 DEF StartRun, Received
  <2>2. /\ Head(commands) = commands[1] /\ Len(commands) \in Nat \ {0}
        /\ Len(commands') = Len(commands) - 1
        /\ \A i \in 1 .. Len(commands) - 1 : commands'[i] = commands[i + 1]
    BY <1>2, <2>1, Taken
  <2>3. About("assigned", j).kind = "assigned" /\ About("assigned", j).job = j
    BY DEF About
  <2>4. task[j] = "none" /\ said[j] = "assigned"
    BY <1>1, <2>1, <2>2, <2>3 DEF CommandInv
  <2>5. task'[j] = "fetch" /\ \A i \in Jobs \ {j} : task'[i] = task[i]
    BY <1>2, <2>1
  <2>6. j \notin stopping /\ loop.job # j /\ loop.job = NoJob
    BY <1>1, <1>2, <2>1, <2>4 DEF LoopInv, Receiving, At
  <2>7. CommandInv'
    <3>1. \A i \in 1 .. Len(commands') : commands'[i] # About("assigned", j)
      BY <1>1, <2>1, <2>3, Unique
    <3>2. \A i \in 1 .. Len(commands') :
            i + 1 \in 1 .. Len(commands) /\ commands'[i] = commands[i + 1] /\ commands[i + 1] \in CommandSet
      BY <1>2, <2>2
    <3>3. \A i \in 1 .. Len(commands') :
            commands'[i].kind = "assigned" => commands'[i].job \in Jobs \ {j}
      BY <3>1, <3>2 DEF CommandSet, About
    <3> QED BY <1>1, <2>1, <2>2, <2>5, <3>2, <3>3 DEF CommandInv
  <2>8. SaidInv'
    BY <1>1, <2>1, <2>4, <2>5 DEF SaidInv, Open
  <2>9. LoopInv'
    <3>1. ASSUME NEW i \in Jobs
          PROVE  LoopInv!(i)'
      <4>1. loop' = loop /\ said' = said /\ revoked' = revoked /\ stopping' = stopping
        BY <2>1
      <4>2. loop.job # i /\ loop # At("acking", i)
        BY <1>2, <2>1 DEF Receiving, At
      <4>3. LoopInv!(i)
        BY <1>1 DEF LoopInv
      <4>4. CASE i = j
        BY <2>6, <4>1, <4>2, <4>4
      <4>5. CASE i # j
        <5>1. task'[i] = task[i]
          BY <2>5, <4>5
        <5> QED BY <4>1, <4>2, <4>3, <5>1 DEF Working
      <4> QED BY <4>4, <4>5
    <3> QED BY <3>1 DEF LoopInv
  <2>10. TableIsTrue'
    BY <1>1, <2>1, <2>5, <2>6 DEF TableIsTrue, Up, Working
  <2> QED BY <2>7, <2>8, <2>9, <2>10 DEF Rest
<1>4. CASE DeliverDecision(j)
  <2>1. /\ commands # <<>> /\ commands' = Tail(commands)
        /\ UNCHANGED <<revoked, said, loop, active, stopping, cancelled, task>>
    BY <1>4 DEF DeliverDecision, Received, tableVars
  <2>2. CommandInv'
    BY <1>1, <2>1, OneLess
  <2>3. SaidInv' /\ LoopInv' /\ TableIsTrue'
    BY <1>1, <2>1 DEF SaidInv, LoopInv, TableIsTrue, Up, Working
  <2> QED BY <2>2, <2>3 DEF Rest
<1>5. CASE ActiveRun(j)
  <2>1. /\ loop = Receiving /\ commands # <<>> /\ Head(commands) = About("cancelled", j)
        /\ commands' = Tail(commands)
        /\ loop' = IF j \in active THEN At("found", j) ELSE loop
        /\ UNCHANGED <<revoked, said, active, stopping, cancelled, task>>
    BY <1>5 DEF ActiveRun, Received, tableVars, taskVars
  <2>2. /\ Head(commands) = commands[1] /\ Len(commands) \in Nat \ {0}
        /\ Len(commands') = Len(commands) - 1
        /\ \A i \in 1 .. Len(commands) - 1 : commands'[i] = commands[i + 1]
    BY <1>2, <2>1, Taken
  <2>3. About("cancelled", j).kind = "cancelled" /\ About("cancelled", j).job = j
    BY DEF About
  <2>4. j \in revoked /\ said[j] \in Open \union {"ended"}
    BY <1>1, <2>1, <2>2, <2>3 DEF CommandInv
  <2>5. loop.job = NoJob /\ \A i \in Jobs : loop.job # i /\ loop # At("waiting", i)
    BY <1>2, <2>1 DEF Receiving, At
  <2>6. \A i \in Jobs : i \in stopping => ~Working(i)
    BY <1>1, <2>5 DEF LoopInv
  <2>7. j \in active => task[j] # "none"
    BY <1>1, <2>5 DEF TableIsTrue, Working
  <2>8. loop'.job = (IF j \in active THEN j ELSE NoJob) /\ \A i \in Jobs : loop' # At("acking", i)
    BY <1>2, <2>1, <2>5 DEF Receiving, At
  <2>9. CommandInv'
    <3>1. \A i \in 1 .. Len(commands') : commands'[i] # About("cancelled", j)
      BY <1>1, <2>1, <2>3, Unique
    <3>2. \A i \in 1 .. Len(commands') :
            i + 1 \in 1 .. Len(commands) /\ commands'[i] = commands[i + 1] /\ commands[i + 1] \in CommandSet
      BY <1>2, <2>2
    <3>3. \A i \in 1 .. Len(commands') :
            commands'[i].kind = "cancelled" => commands'[i].job \in Jobs \ {j}
      BY <3>1, <3>2 DEF CommandSet, About
    <3> QED BY <1>1, <1>2, <2>1, <2>2, <2>8, <3>2, <3>3 DEF CommandInv
  <2>10. SaidInv'
    BY <1>1, <2>1 DEF SaidInv
  <2>11. LoopInv'
    BY <1>1, <1>2, <2>1, <2>4, <2>6, <2>7, <2>8 DEF LoopInv, Working
  <2>12. TableIsTrue'
    BY <1>1, <2>1, <2>5 DEF TableIsTrue, Working
  <2> QED BY <2>9, <2>10, <2>11, <2>12 DEF Rest
<1>6. CASE StopJob(j) \/ StoppedJob(j)
  <2>1. /\ UNCHANGED <<revoked, said, task, commands>>
        /\ loop.job = j /\ loop'.job = j /\ loop' # StreamOver
    BY <1>6 DEF StopJob, StoppedJob, At, streamVars, taskVars, StreamOver
  <2>2. CommandInv' /\ SaidInv'
    BY <1>1, <2>1 DEF CommandInv, SaidInv
  <2>3. CASE StopJob(j)
    <3>1. /\ loop = At("found", j) /\ loop' = At("waiting", j) /\ UNCHANGED active
          /\ stopping' = stopping \union {j}
      BY <2>3 DEF StopJob
    <3>2. \A i \in Jobs : loop # At("waiting", i) /\ loop' # At("acking", i)
      BY <3>1 DEF At
    <3>3. TableIsTrue' /\ LoopInv'
      BY <1>1, <2>1, <3>1, <3>2 DEF TableIsTrue, LoopInv, Working
    <3> QED BY <2>2, <3>3 DEF Rest
  <2>4. CASE StoppedJob(j)
    <3>1. /\ loop = At("waiting", j) /\ loop' = At("acking", j) /\ UNCHANGED stopping
          /\ active' = active \ {j} /\ task[j] = "gone"
      BY <2>4 DEF StoppedJob
    <3>2. \A i \in Jobs \ {j} : loop # At("waiting", i) /\ loop' # At("acking", i)
      BY <3>1 DEF At
    <3>3. ~Working(j)
      BY <3>1 DEF Working
    <3>4. TableIsTrue' /\ LoopInv'
      BY <1>1, <2>1, <3>1, <3>2, <3>3 DEF TableIsTrue, LoopInv, Working
    <3> QED BY <2>2, <3>4 DEF Rest
  <2> QED BY <1>6, <2>3, <2>4
<1> QED BY <1>3, <1>4, <1>5, <1>6

LEMMA AckRest ==
  ASSUME WorkerTypeOK, Rest, NEW j \in Jobs, AckCancel(j)
  PROVE  Rest'
<1>1. /\ loop = At("acking", j) /\ loop' = Receiving
      /\ UNCHANGED <<commands, revoked, active, stopping, cancelled, task>>
      /\ said' = [said EXCEPT ![j] = IF @ = "acked" THEN "twice" ELSE "acked"]
  BY AckSays DEF AckCancel, tableVars, taskVars
<1>2. /\ said \in [Jobs -> SaidSet] /\ commands \in Seq(CommandSet) /\ NoJob \notin Jobs
  BY WorkerAssumption DEF WorkerTypeOK, WorkerAssumption
<1>3. /\ Up /\ loop.job = j /\ loop'.job = NoJob
      /\ \A i \in Jobs : loop' # At("acking", i) /\ loop # At("waiting", i)
  BY <1>1, <1>2 DEF Up, At, StreamOver, Receiving
<1>4. CommandInv /\ SaidInv /\ LoopInv /\ TableIsTrue
  BY <1>3 DEF Rest
<1>5. task[j] = "gone" /\ j \notin active /\ j \in revoked
  BY <1>1, <1>3, <1>4 DEF LoopInv
<1>6. said'[j] \in {"acked", "twice"} /\ \A i \in Jobs \ {j} : said'[i] = said[i]
  BY <1>1, <1>2
<1>7. CommandInv'
  <2>0. \A i \in 1 .. Len(commands) : commands[i] \in CommandSet
    BY <1>2
  <2>1. \A i \in 1 .. Len(commands) : commands[i].job \in Jobs
    BY <2>0 DEF CommandSet
  <2>2. \A i \in 1 .. Len(commands) :
          commands[i].kind \in {"assigned", "cancelled"} => commands[i].job # j
    BY <1>3, <1>4, <1>5 DEF CommandInv
  <2> QED BY <1>1, <1>2, <1>3, <1>4, <1>6, <2>1, <2>2 DEF CommandInv
<1>8. SaidInv'
  BY <1>1, <1>4, <1>5, <1>6 DEF SaidInv, WorkSet
<1>9. LoopInv'
  BY <1>1, <1>2, <1>3, <1>4 DEF LoopInv, Working
<1>10. TableIsTrue'
  BY <1>1, <1>3, <1>4, <1>5 DEF TableIsTrue, Working
<1> QED BY <1>7, <1>8, <1>9, <1>10 DEF Rest

LEMMA ReceiveRest ==
  ASSUME WorkerTypeOK, Rest, ReceiveUpdate
  PROVE  Rest'
<1>1. CASE StreamBreaks
  BY <1>1, BreakStep
<1>2. CASE ~StreamBreaks
  <2>1. /\ UNCHANGED <<revoked, said, loop, active, stopping, cancelled, task>>
        /\ updates # <<>>
        /\ \/ UNCHANGED commands
           \/ \E k \in {"before", "after"} : commands' = Append(commands, About(k, Head(updates).job))
    BY <1>2 DEF ReceiveUpdate, Commands, tableVars, taskVars
  <2>2. CASE UNCHANGED commands
    BY <2>1, <2>2, RestUnchanged DEF tableVars
  <2>3. ASSUME NEW k \in {"before", "after"}, commands' = Append(commands, About(k, Head(updates).job))
        PROVE  Rest'
    <3>1. updates \in Seq(UpdateSet)
      BY DEF WorkerTypeOK
    <3>2. Head(updates) \in UpdateSet
      BY <2>1, <3>1, Taken
    <3>3. About(k, Head(updates).job) \in CommandSet
      BY <3>2, Abouts DEF UpdateSet
    <3>4. About(k, Head(updates).job).kind \notin {"assigned", "cancelled"}
      BY <2>3 DEF About
    <3>5. CommandInv => CommandInv'
      BY <2>1, <2>3, <3>3, <3>4, OneMore
    <3>6. TableIsTrue' /\ (Up' => Up /\ SaidInv' /\ LoopInv')
      BY <2>1 DEF Rest, TableIsTrue, Up, Working, SaidInv, LoopInv
    <3> QED BY <3>5, <3>6 DEF Rest
  <2> QED BY <2>1, <2>2, <2>3
<1> QED BY <1>1, <1>2

(***************************************************************************)
(* The theorems                                                            *)
(***************************************************************************)
LEMMA WorkerInvInit == WorkerInit => WorkerInv
<1> SUFFICES ASSUME WorkerInit PROVE WorkerInv
  OBVIOUS
<1> USE WorkerAssumption DEF WorkerAssumption, WorkerInit
<1>1. WorkerTypeOK
  BY DEF WorkerTypeOK, Receiving, At, LoopSet, TaskSet, ModelSet, NoModel, Channel, SaidSet
<1>2. loop.job = NoJob /\ Len(commands) = 0 /\ \A j \in Jobs : loop # At("acking", j)
  BY DEF Receiving, At
<1>3. TableIsTrue /\ CommandInv /\ SaidInv /\ LoopInv
  BY <1>2 DEF TableIsTrue, Working, CommandInv, SaidInv, LoopInv, WorkSet
<1> QED BY <1>1, <1>3 DEF WorkerInv

LEMMA WorkerInvNext == WorkerInv /\ [WorkerNext]_processVars => WorkerInv'
<1> SUFFICES ASSUME WorkerInv, [WorkerNext]_processVars PROVE WorkerInv'
  OBVIOUS
<1>1. WorkerTypeOK /\ Rest
  BY DEF WorkerInv, Rest
<1>2. CASE UNCHANGED processVars
  <2>1. UNCHANGED <<commands, updates, revoked, settled, said, loop, active, stopping, cancelled,
                    task, model, texts, waiter>>
    BY <1>2 DEF processVars, streamVars, tableVars, taskVars
  <2>2. WorkerTypeOK'
    BY <1>1, <2>1 DEF WorkerTypeOK
  <2>3. Rest'
    BY <1>1, <2>1, RestUnchanged DEF tableVars
  <2> QED BY <2>2, <2>3 DEF WorkerInv, Rest
<1>3. CASE WorkerNext
  <2>1. WorkerTypeOK'
    BY <1>3, WorkerTypes
  <2>2. Rest'
    <3>1. ASSUME NEW j \in Jobs, AssignJob(j) PROVE Rest'
      BY <1>1, <3>1, AssignRest
    <3>2. ASSUME NEW j \in Jobs, RevokeJob(j) PROVE Rest'
      BY <1>1, <3>2, RevokeRest
    <3>3. ASSUME NEW j \in Jobs, TaskStep(j) PROVE Rest'
      BY <1>1, <3>3, WorkSteps, WorkRest, LastSteps
    <3>4. ASSUME NEW j \in Jobs, ModelStep(j) PROVE Rest'
      BY <1>1, <3>4, ModelSteps, RestUnchanged DEF streamVars
    <3>5. ASSUME LoopStep PROVE Rest'
      BY <1>1, <3>5, LoopRest, AckRest DEF LoopStep
    <3>6. ASSUME ReceiveUpdate \/ StreamBreaks PROVE Rest'
      BY <1>1, <3>6, ReceiveRest, BreakStep
    <3> QED BY <1>3, <3>1, <3>2, <3>3, <3>4, <3>5, <3>6 DEF WorkerNext
  <2> QED BY <2>1, <2>2 DEF WorkerInv, Rest
<1> QED BY <1>2, <1>3

LEMMA WorkerInvAlways == WorkerSpec => []WorkerInv
BY WorkerInvInit, WorkerInvNext, PTL DEF WorkerSpec

\* What the process sends, receives and keeps of its jobs has the types it is meant
\* to have, in every execution.
THEOREM WorkerTypeCorrect == WorkerSpec => []WorkerTypeOK
<1>1. WorkerInv => WorkerTypeOK
  BY DEF WorkerInv
<1> QED BY <1>1, WorkerInvAlways, PTL

\* A job that works can be cancelled, and the table of active runs keeps no entry of
\* one that does not, though its goroutine and the Recv loop both delete from it.
THEOREM TableTrue == WorkerSpec => []TableIsTrue
<1>1. WorkerInv => TableIsTrue
  BY DEF WorkerInv
<1> QED BY <1>1, WorkerInvAlways, PTL

LEMMA ReportsInit == WorkerInit => Reports!ReportInit
BY DEF WorkerInit, Reports!ReportInit

LEMMA ReportsStep == WorkerInv /\ [WorkerNext]_processVars => [Reports!ReportNext]_(Reports!reportVars)
<1> SUFFICES ASSUME WorkerInv, [WorkerNext]_processVars, ~UNCHANGED <<said, revoked>>
             PROVE  Reports!ReportNext
  BY DEF Reports!reportVars
<1> USE DEF Reports!ReportNext, Reports!Reports
<1>1. WorkerTypeOK /\ Rest
  BY DEF WorkerInv, Rest
<1>2. ASSUME NEW j \in Jobs, AssignJob(j) PROVE Reports!ReportNext
  BY <1>2 DEF AssignJob
<1>3. ASSUME NEW j \in Jobs, RevokeJob(j) PROVE Reports!ReportNext
  BY <1>3 DEF RevokeJob
<1>4. ASSUME NEW j \in Jobs, TaskStep(j) PROVE Reports!ReportNext
  <2>1. ~Leave(j) /\ ~Remove(j)
    BY DEF Leave, Remove, streamVars
  <2>2. WorkStep(j)
    BY <1>1, <1>4, <2>1, WorkSteps
  <2>3. said[j] \in Open /\ UNCHANGED revoked
    BY <1>1, <2>2 DEF WorkStep, Rest, SaidInv
  <2>4. said' = [said EXCEPT ![j] = "working"] \/ said' = [said EXCEPT ![j] = "ended"]
    BY <2>2, <2>3 DEF WorkStep, Open
  <2> QED BY <2>3, <2>4 DEF Open
<1>5. ASSUME NEW j \in Jobs, AckCancel(j) PROVE Reports!ReportNext
  <2>1. loop = At("acking", j) /\ loop.job = j /\ Up
    BY <1>5 DEF AckCancel, At, Up, StreamOver
  <2>2. j \in revoked /\ said[j] \in Open \union {"ended"}
    BY <1>1, <2>1 DEF Rest, LoopInv
  <2>3. said' = [said EXCEPT ![j] = "acked"] /\ UNCHANGED revoked
    BY <1>1, <1>5, <2>2, AckSays DEF AckCancel, Open
  <2> QED BY <2>2, <2>3 DEF Open
<1>6. ~(\E j \in Jobs : ModelStep(j))
  BY <1>1, ModelSteps DEF streamVars
<1>7. ~ReceiveUpdate /\ ~StreamBreaks
  BY DEF ReceiveUpdate, StreamBreaks
<1>8. \A j \in Jobs : ~StartRun(j) /\ ~DeliverDecision(j) /\ ~ActiveRun(j) /\ ~StopJob(j) /\ ~StoppedJob(j)
  BY DEF StartRun, DeliverDecision, ActiveRun, StopJob, StoppedJob, Received, streamVars
<1>9. WorkerNext
  BY DEF processVars, streamVars
<1> QED BY <1>2, <1>3, <1>4, <1>5, <1>6, <1>7, <1>8, <1>9 DEF WorkerNext, LoopStep

\* For any number of jobs, the process tells the orchestrator of each of them what
\* RunReports promises: its end once, the acknowledgement of a cancellation once
\* and last.
THEOREM ReportsKept == WorkerSpec => ImplementsReports
BY ReportsInit, ReportsStep, WorkerInvAlways, PTL DEF WorkerSpec, ImplementsReports, Reports!ReportSpec

(***************************************************************************)
(* Proofs about Orchestrator, for any number of processes, migrations and  *)
(* handlers: migrations take effect once and in order though their count   *)
(* is read outside their transaction, and the database is not closed under *)
(* a handler.                                                              *)
(***************************************************************************)
Past == {"public", "internal", "serve", "stop"}

\* What a process has seen of the migrations stays true: rows are never deleted.
\* A version is in the table exactly if its statements have taken effect once.
SchemaInv ==
  /\ \A v \in Versions : effects[v] = IF v \in schema THEN 1 ELSE 0
  /\ \A v \in schema : 1 .. v \subseteq schema
  /\ \A p \in Processes :
       /\ main[p] \in {"migrate", "apply"} => 1 .. version[p] - 1 \subseteq schema
       /\ main[p] = "apply" => version[p] <= Last
       /\ main[p] \in Past => schema = Versions

\* Handlers run between the start of the servers and their end, and the database is
\* open as long as the process is there.
ServerInv ==
  \A p \in Processes :
    /\ p \in open <=> main[p] # "off"
    /\ main[p] \notin {"serve", "stop"} =>
         running[p] = {} /\ \A s \in Servers : server[p][s] = "new"
    /\ main[p] = "serve" => \A s \in Servers : server[p][s] = "serving"
    /\ main[p] = "stop" =>
         \A s \in Servers :
           /\ server[p][s] \notin {"new", "serving"}
           /\ server[p][s] = "down" => running[p] \cap HandlersOf(s) = {}

OrchestratorInv == OrchestratorTypeOK /\ SchemaInv /\ ServerInv

(***************************************************************************)
(* Type correctness                                                        *)
(***************************************************************************)
LEMMA OrchestratorTypes ==
  ASSUME OrchestratorTypeOK, SchemaInv, OrchestratorNext
  PROVE  OrchestratorTypeOK'
<1> USE DEF OrchestratorTypeOK, SchemaInv, MainSet, ServerSet, Servers, Goto,
            schemaVars, serverVars, Frees, Drains, BeginStop
<1>0. Last \in Nat
  BY OrchestratorAssumption DEF OrchestratorAssumption
<1> SUFFICES ASSUME NEW p \in Processes,
      \/ StartProcess(p) \/ CountRows(p) \/ CommitMigration(p) \/ MigrationFails(p)
      \/ \E s \in Servers : Listen(p, s) \/ \E h \in Handlers : HandlerBegins(p, s, h)
      \/ \E h \in Handlers : PeerLeaves(p, h) \/ HandlerReturns(p, h)
      \/ StopRequested(p) \/ StopStep(p) \/ Killed(p)
    PROVE OrchestratorTypeOK'
  BY DEF OrchestratorNext
<1>1. CASE StartProcess(p)
  BY <1>0, <1>1 DEF StartProcess
<1>2. CASE CountRows(p)
  BY <1>0, <1>2 DEF CountRows
<1>3. CASE CommitMigration(p)
  <2>1. version[p] \in Versions
    BY <1>0, <1>3 DEF CommitMigration, Versions
  <2>2. schema' \subseteq Versions
    BY <1>3, <2>1 DEF CommitMigration
  <2>3. effects' \in [Versions -> Nat]
    BY <1>3, <2>1 DEF CommitMigration
  <2>4. version[p] + 1 \in 1 .. Last + 1
    BY <1>0, <2>1 DEF Versions
  <2>5. main' \in [Processes -> MainSet] /\ version' \in [Processes -> 1 .. Last + 1]
    BY <1>3, <2>4 DEF CommitMigration
  <2> QED BY <1>3, <2>2, <2>3, <2>5 DEF CommitMigration
<1>4. CASE MigrationFails(p)
  BY <1>4 DEF MigrationFails
<1>5. ASSUME NEW s \in Servers, Listen(p, s) PROVE OrchestratorTypeOK'
  <2>1. main' \in [Processes -> MainSet] /\ UNCHANGED <<schemaVars, version, open, running, ended>>
    BY <1>5 DEF Listen
  <2>2. ports' \in [Servers -> Processes \union {NoProcess}]
    BY <1>5 DEF Listen
  <2>3. server' \in [Processes -> [Servers -> ServerSet]]
    BY <1>5 DEF Listen
  <2> QED BY <2>1, <2>2, <2>3
<1>6. ASSUME NEW s \in Servers, NEW h \in Handlers, HandlerBegins(p, s, h) PROVE OrchestratorTypeOK'
  BY <1>6 DEF HandlerBegins
<1>7. ASSUME NEW h \in Handlers, PeerLeaves(p, h) PROVE OrchestratorTypeOK'
  BY <1>7 DEF PeerLeaves
<1>8. ASSUME NEW h \in Handlers, HandlerReturns(p, h) PROVE OrchestratorTypeOK'
  BY <1>8 DEF HandlerReturns
<1>9. CASE StopRequested(p)
  BY <1>9 DEF StopRequested
<1>10. CASE StopStep(p)
  <2>1. ASSUME NEW s \in Servers, GraceIsOver(p, s) PROVE OrchestratorTypeOK'
    BY <2>1 DEF GraceIsOver, ServerGoes
  <2>2. ASSUME NEW s \in Servers, GracefulStopReturns(p, s) PROVE OrchestratorTypeOK'
    BY <2>2 DEF GracefulStopReturns, ServerGoes
  <2>3. CASE CloseDatabase(p)
    BY <2>3 DEF CloseDatabase
  <2> QED BY <1>10, <2>1, <2>2, <2>3 DEF StopStep
<1>11. CASE Killed(p)
  BY <1>11 DEF Killed
<1> QED BY <1>1, <1>2, <1>3, <1>4, <1>5, <1>6, <1>7, <1>8, <1>9, <1>10, <1>11

(***************************************************************************)
(* Migrations                                                              *)
(***************************************************************************)
LEMMA SchemaStep ==
  ASSUME OrchestratorTypeOK, SchemaInv, ServerInv, OrchestratorNext
  PROVE  SchemaInv'
<1> USE DEF OrchestratorTypeOK, SchemaInv, Goto, schemaVars, serverVars, Past, MainSet
<1>0. Last \in Nat
  BY OrchestratorAssumption DEF OrchestratorAssumption
<1> SUFFICES ASSUME NEW p \in Processes,
      \/ StartProcess(p) \/ CountRows(p) \/ CommitMigration(p) \/ MigrationFails(p)
      \/ \E s \in Servers : Listen(p, s) \/ \E h \in Handlers : HandlerBegins(p, s, h)
      \/ \E h \in Handlers : PeerLeaves(p, h) \/ HandlerReturns(p, h)
      \/ StopRequested(p) \/ StopStep(p) \/ Killed(p)
    PROVE SchemaInv'
  BY DEF OrchestratorNext
<1>1. CASE StartProcess(p)
  BY <1>1 DEF StartProcess
<1>2. CASE CountRows(p)
  <2>1. /\ UNCHANGED <<schema, effects>> /\ main[p] = "migrate"
        /\ main' \in [Processes -> MainSet]
        /\ \A q \in Processes \ {p} : main'[q] = main[q] /\ version'[q] = version[q]
    BY <1>2 DEF CountRows
  <2>2. CASE version[p] > Last
    <3>1. version[p] \in 1 .. Last + 1
      OBVIOUS
    <3>2. version[p] = Last + 1
      BY <1>0, <2>2, <3>1
    <3>3. 1 .. version[p] - 1 \subseteq schema
      BY <2>1
    <3>4. Versions \subseteq schema
      BY <1>0, <3>2, <3>3 DEF Versions
    <3> QED BY <1>2, <2>1, <2>2, <3>4 DEF CountRows
  <2>3. CASE ~(version[p] > Last) /\ version[p] \in schema
    <3>1. 1 .. version[p] \subseteq schema
      BY <2>3
    <3>2. version'[p] = version[p] + 1 /\ UNCHANGED main /\ version[p] \in Nat
      BY <1>2, <2>3 DEF CountRows
    <3>3. 1 .. version'[p] - 1 \subseteq schema /\ main'[p] = "migrate"
      BY <2>1, <3>1, <3>2
    <3> QED BY <2>1, <3>2, <3>3
  <2>4. CASE ~(version[p] > Last) /\ version[p] \notin schema
    <3>1. UNCHANGED version /\ main' = [main EXCEPT ![p] = "apply"]
      BY <1>2, <2>4 DEF CountRows
    <3>2. version[p] <= Last
      BY <1>0, <2>4
    <3> QED BY <2>1, <3>1, <3>2
  <2> QED BY <2>2, <2>3, <2>4
<1>3. CASE CommitMigration(p)
  <2> DEFINE v == version[p]
  <2>1. /\ main[p] = "apply" /\ v \notin schema /\ v \in Versions /\ v \in Nat
        /\ schema' = schema \union {v}
        /\ effects' = [effects EXCEPT ![v] = @ + 1]
        /\ version' = [version EXCEPT ![p] = v + 1]
        /\ main' = [main EXCEPT ![p] = "migrate"]
    BY <1>0, <1>3 DEF CommitMigration, Versions
  <2>2. \A w \in Versions : effects'[w] = IF w \in schema' THEN 1 ELSE 0
    BY <2>1
  <2>3. 1 .. v \subseteq schema'
    BY <2>1
  <2>4. \A w \in schema' : 1 .. w \subseteq schema'
    BY <2>1, <2>3
  <2>5. 1 .. version'[p] - 1 \subseteq schema'
    BY <2>1, <2>3
  <2>6. schema' \subseteq Versions
    BY <2>1
  <2>7. \A q \in Processes :
          /\ main'[q] \in {"migrate", "apply"} => 1 .. version'[q] - 1 \subseteq schema'
          /\ main'[q] = "apply" => version'[q] <= Last
          /\ main'[q] \in Past => schema' = Versions
    <3> SUFFICES ASSUME NEW q \in Processes
        PROVE  /\ main'[q] \in {"migrate", "apply"} => 1 .. version'[q] - 1 \subseteq schema'
               /\ main'[q] = "apply" => version'[q] <= Last
               /\ main'[q] \in Past => schema' = Versions
      OBVIOUS
    <3>1. CASE q = p
      BY <2>1, <2>5, <3>1
    <3>2. CASE q # p
      <4>1. main'[q] = main[q] /\ version'[q] = version[q]
        BY <2>1, <3>2
      <4> QED BY <2>1, <2>6, <4>1
    <3> QED BY <3>1, <3>2
  <2> QED BY <2>2, <2>4, <2>7
<1>4. CASE MigrationFails(p)
  BY <1>4 DEF MigrationFails
<1>5. ASSUME NEW s \in Servers, Listen(p, s) PROVE SchemaInv'
  <2>1. /\ UNCHANGED <<schema, effects, version>> /\ main[p] \in Past /\ main'[p] \in Past
        /\ \A q \in Processes \ {p} : main'[q] = main[q]
    BY <1>5 DEF Listen, BeginStop, Servers
  <2>2. {"migrate", "apply"} \cap Past = {}
    OBVIOUS
  <2> HIDE DEF Past
  <2> QED BY <2>1, <2>2
<1>6. ASSUME NEW s \in Servers, NEW h \in Handlers, HandlerBegins(p, s, h) PROVE SchemaInv'
  BY <1>6 DEF HandlerBegins
<1>7. ASSUME NEW h \in Handlers, PeerLeaves(p, h) \/ HandlerReturns(p, h) PROVE SchemaInv'
  BY <1>7 DEF PeerLeaves, HandlerReturns
<1>8. CASE StopRequested(p)
  BY <1>8 DEF StopRequested, BeginStop
<1>9. CASE StopStep(p)
  BY <1>9 DEF StopStep, GraceIsOver, GracefulStopReturns, CloseDatabase
<1>10. CASE Killed(p)
  BY <1>10 DEF Killed
<1> QED BY <1>1, <1>2, <1>3, <1>4, <1>5, <1>6, <1>7, <1>8, <1>9, <1>10

(***************************************************************************)
(* Handlers and the database                                               *)
(***************************************************************************)
LEMMA ServersStep ==
  ASSUME OrchestratorTypeOK, ServerInv, OrchestratorNext
  PROVE  ServerInv'
<1> USE DEF OrchestratorTypeOK, ServerInv, Goto, schemaVars, serverVars, MainSet, ServerSet
<1> SUFFICES ASSUME NEW p \in Processes,
      \/ StartProcess(p) \/ CountRows(p) \/ CommitMigration(p) \/ MigrationFails(p)
      \/ \E s \in Servers : Listen(p, s) \/ \E h \in Handlers : HandlerBegins(p, s, h)
      \/ \E h \in Handlers : PeerLeaves(p, h) \/ HandlerReturns(p, h)
      \/ StopRequested(p) \/ StopStep(p) \/ Killed(p)
    PROVE ServerInv'
  BY DEF OrchestratorNext
<1>1. CASE StartProcess(p)
  BY <1>1 DEF StartProcess
<1>2. CASE CountRows(p)
  BY <1>2 DEF CountRows
<1>3. CASE CommitMigration(p)
  BY <1>3 DEF CommitMigration
<1>4. CASE MigrationFails(p)
  BY <1>4 DEF MigrationFails
<1>5. ASSUME NEW s \in Servers, Listen(p, s) PROVE ServerInv'
  BY <1>5 DEF Listen, BeginStop, Drains, Servers
<1>6. ASSUME NEW s \in Servers, NEW h \in Handlers, HandlerBegins(p, s, h) PROVE ServerInv'
  BY <1>6 DEF HandlerBegins
<1>7. ASSUME NEW h \in Handlers, PeerLeaves(p, h) PROVE ServerInv'
  BY <1>7 DEF PeerLeaves
<1>8. ASSUME NEW h \in Handlers, HandlerReturns(p, h) PROVE ServerInv'
  BY <1>8 DEF HandlerReturns
<1>9. CASE StopRequested(p)
  BY <1>9 DEF StopRequested, BeginStop, Drains
<1>10. ASSUME NEW s \in Servers, GraceIsOver(p, s) PROVE ServerInv'
  BY <1>10 DEF GraceIsOver, ServerGoes
<1>11. ASSUME NEW s \in Servers, GracefulStopReturns(p, s) PROVE ServerInv'
  BY <1>11 DEF GracefulStopReturns, ServerGoes
<1>12. CASE CloseDatabase(p)
  <2>1. HandlersOf("public") \union HandlersOf("internal") = Handlers
    BY DEF HandlersOf
  <2>2. running[p] = {}
    BY <1>12, <2>1 DEF CloseDatabase, Servers
  <2> QED BY <1>12, <2>2 DEF CloseDatabase
<1>13. CASE Killed(p)
  BY <1>13 DEF Killed
<1> QED BY <1>1, <1>2, <1>3, <1>4, <1>5, <1>6, <1>7, <1>8, <1>9, <1>10, <1>11, <1>12, <1>13
        DEF StopStep

(***************************************************************************)
(* The theorems                                                            *)
(***************************************************************************)
LEMMA OrchestratorInvInit == OrchestratorInit => OrchestratorInv
BY OrchestratorAssumption
   DEF OrchestratorAssumption, OrchestratorInit, OrchestratorInv, OrchestratorTypeOK, SchemaInv, ServerInv,
       MainSet, ServerSet, Servers, Past, Versions

LEMMA OrchestratorInvNext == OrchestratorInv /\ [OrchestratorNext]_orchestratorVars => OrchestratorInv'
<1>1. ASSUME OrchestratorInv, OrchestratorNext PROVE OrchestratorInv'
  BY <1>1, OrchestratorTypes, SchemaStep, ServersStep DEF OrchestratorInv
<1>2. ASSUME OrchestratorInv, UNCHANGED orchestratorVars PROVE OrchestratorInv'
  BY <1>2 DEF OrchestratorInv, OrchestratorTypeOK, SchemaInv, ServerInv, orchestratorVars, schemaVars, serverVars
<1> QED BY <1>1, <1>2

LEMMA OrchestratorInvAlways == OrchestratorSpec => []OrchestratorInv
BY OrchestratorInvInit, OrchestratorInvNext, PTL DEF OrchestratorSpec

\* Every variable keeps to its type.
THEOREM OrchestratorTypeCorrect == OrchestratorSpec => []OrchestratorTypeOK
<1>1. OrchestratorInv => OrchestratorTypeOK
  BY DEF OrchestratorInv
<1> QED BY OrchestratorInvAlways, <1>1, PTL

\* Whatever processes are started, killed and race on one database, a migration
\* takes effect once, in order, and before its process listens.
THEOREM MigrationsOnce == OrchestratorSpec => []MigratedOnceInOrder
<1>1. OrchestratorInv => MigratedOnceInOrder
  BY DEF OrchestratorInv, OrchestratorTypeOK, SchemaInv, MigratedOnceInOrder, MainSet, Past
<1> QED BY OrchestratorInvAlways, <1>1, PTL

\* No handler of a process outlives its database.
THEOREM DatabaseLast == OrchestratorSpec => []DatabaseOutlivesHandlers
<1>1. OrchestratorInv => DatabaseOutlivesHandlers
  BY DEF OrchestratorInv, ServerInv, DatabaseOutlivesHandlers
<1> QED BY OrchestratorInvAlways, <1>1, PTL

(***************************************************************************)
(* Both beside each other                                                  *)
(***************************************************************************)
\* Whichever of the parts moves, every variable of the worker process and of the
\* orchestrator has its type (ProcessTypeOK).
THEOREM ProcessTypeCorrect == PartSpec => []ProcessTypeOK
<1>1. PartInit => WorkerInv /\ OrchestratorInv
  BY WorkerInvInit, OrchestratorInvInit DEF PartInit
<1>2. WorkerInv /\ OrchestratorInv /\ [PartNext]_partVars => (WorkerInv /\ OrchestratorInv)'
  <2>1. [PartNext]_partVars => [WorkerNext]_processVars /\ [OrchestratorNext]_orchestratorVars
    BY DEF PartNext, partVars
  <2> QED
    BY <2>1, WorkerInvNext, OrchestratorInvNext
<1>3. WorkerInv /\ OrchestratorInv => ProcessTypeOK
  BY DEF WorkerInv, OrchestratorInv, ProcessTypeOK
<1> QED
  BY <1>1, <1>2, <1>3, PTL DEF PartSpec
=============================================================================
