---------------------------- MODULE WorkerProcess ----------------------------
(***************************************************************************)
(* One worker process during one stream (agent-runtime-go):                *)
(*   - the Recv loop, which starts a goroutine for every job, hands each   *)
(*     decision to the beacon that waits for it, and on a cancellation     *)
(*     waits for the job's goroutine before it reads on (internal/worker); *)
(*   - the goroutine of each job: the agent, its model or its tool         *)
(*     (internal/agent, tools, orchestrator);                              *)
(*   - the goroutine that reads a model's answer (internal/llm).           *)
(* The orchestrator is what Dispatch says it is: it assigns a job at most  *)
(* once per stream, cancels it at most once while it has not seen its end, *)
(* answers every beacon, and ends the stream at an update of a job it has  *)
(* cancelled.  The process ends with its stream.                           *)
(***************************************************************************)
EXTENDS Naturals, Sequences, FiniteSets

CONSTANTS
  Jobs,      \* the jobs assigned over the stream
  ToolJobs,  \* those whose text is a /tool command
  NoJob,     \* the Recv loop is not at a job
  Window,    \* updates the stream takes before Send blocks
  MaxText    \* bound on the pieces of text in a model's answer

ASSUME WorkerAssumption ==
  /\ ToolJobs \subseteq Jobs
  /\ NoJob \notin Jobs
  /\ Window \in Nat \ {0}
  /\ MaxText \in Nat

VARIABLES
  commands,   \* RuntimeCommands on the stream, not received yet
  updates,    \* RuntimeUpdates on the stream, not received yet
  revoked,    \* jobs the orchestrator has cancelled
  settled,    \* jobs whose end it has received
  loop,       \* where the Recv loop is
  active,     \* Worker.active
  stopping,   \* jobs whose entry has stop set
  cancelled,  \* jobs whose context is cancelled
  task,       \* where the goroutine of each job is
  model,      \* where the goroutine that reads its model's answer is
  texts,      \* pieces of text read from it
  waiter,     \* Worker.decisions: the channel of the job's beacon
  said        \* auxiliary: what its updates have said of each job

streamVars  == <<commands, updates, revoked, settled, said>>
tableVars   == <<active, stopping, cancelled>>
taskVars    == <<task, model, texts, waiter>>
processVars  == <<streamVars, loop, tableVars, taskVars>>

AtJob    == {"found", "waiting", "acking"}
LoopSet  == [at : AtJob, job : Jobs] \union [at : {"recv", "over"}, job : {NoJob}]
TaskSet  == {"none", "fetch", "start", "open", "listen", "text", "ask", "decide", "poll", "call",
             "tell_done", "heed_done", "tell_failed", "heed_failed",
             "result", "completed", "failed", "leave", "remove", "gone"}
ModelSet == [of : {"ollama", "openai"}, at : {"read", "text", "last", "done", "error", "off"}]
Channel  == {"none", "empty", "before", "after"}
CommandSet == [kind : {"assigned", "cancelled", "before", "after"}, job : Jobs]
UpdateSet  == [kind : {"event", "before", "after", "completed", "failed", "ack"}, job : Jobs]
SaidSet    == {"none", "assigned", "working", "ended", "acked", "twice"}

At(where, j)  == [at |-> where, job |-> j]
Receiving     == At("recv", NoJob)
StreamOver    == At("over", NoJob)
Up            == loop # StreamOver
About(k, j)   == [kind |-> k, job |-> j]
NoModel       == [of |-> "ollama", at |-> "off"]

WorkerInit ==
  /\ commands = <<>> /\ updates = <<>>
  /\ revoked = {} /\ settled = {}
  /\ loop = Receiving
  /\ active = {} /\ stopping = {} /\ cancelled = {}
  /\ task = [j \in Jobs |-> "none"]
  /\ model = [j \in Jobs |-> NoModel]
  /\ texts = [j \in Jobs |-> 0]
  /\ waiter = [j \in Jobs |-> "none"]
  /\ said = [j \in Jobs |-> "none"]

(***************************************************************************)
(* The orchestrator and the stream                                         *)
(***************************************************************************)
Commands(k, j) == commands' = Append(commands, About(k, j))

AssignJob(j) ==
  /\ Up /\ said[j] = "none"
  /\ Commands("assigned", j)
  /\ said' = [said EXCEPT ![j] = "assigned"]
  /\ UNCHANGED <<updates, revoked, settled, loop, tableVars, taskVars>>

\* The cancel command is lost if the worker's channel stays full for 5 seconds.
RevokeJob(j) ==
  /\ Up /\ said[j] # "none" /\ j \notin revoked \union settled
  /\ revoked' = revoked \union {j}
  /\ Commands("cancelled", j) \/ UNCHANGED commands
  /\ UNCHANGED <<updates, settled, said, loop, tableVars, taskVars>>

\* What was under way is lost, and what the process does now is seen by nobody.
StreamBreaks ==
  /\ Up
  /\ loop' = StreamOver
  /\ commands' = <<>> /\ updates' = <<>>
  /\ UNCHANGED <<revoked, settled, said, tableVars, taskVars>>

ReceiveUpdate ==
  /\ Up /\ updates # <<>>
  /\ LET u == Head(updates)
     IN  IF u.job \in revoked /\ u.kind # "ack"
           THEN StreamBreaks
           ELSE /\ updates' = Tail(updates)
                /\ settled' = IF u.kind \in {"completed", "failed"} THEN settled \union {u.job} ELSE settled
                /\ IF u.kind \in {"before", "after"} THEN Commands(u.kind, u.job) ELSE UNCHANGED commands
                /\ UNCHANGED <<revoked, said, loop, tableVars, taskVars>>

\* Worker.send: one update at a time, and as many as the stream takes.
Send(k, j) ==
  /\ Len(updates) < Window
  /\ updates' = Append(updates, About(k, j))
  /\ LET tells == CASE k = "ack" -> "acked" [] k \in {"completed", "failed"} -> "ended" [] OTHER -> "working"
     IN  said' = [said EXCEPT ![j] = IF tells # "working" /\ @ = tells THEN "twice" ELSE tells]
  /\ UNCHANGED <<commands, revoked, settled>>

(***************************************************************************)
(* The goroutine of a job                                                  *)
(***************************************************************************)
Moves(j, from, to) ==
  /\ Up /\ task[j] = from
  /\ task' = [task EXCEPT ![j] = to]
  /\ UNCHANGED <<loop, tableVars>>

\* A step that tells the orchestrator something.
Emits(j, from, k, to) ==
  Moves(j, from, to) /\ Send(k, j) /\ UNCHANGED <<model, texts, waiter>>

\* A step that asks somebody else, who answers or does not.
Asks(j, from, good, bad) ==
  /\ Moves(j, from, good) \/ Moves(j, from, bad)
  /\ UNCHANGED <<streamVars, model, texts, waiter>>

FetchMessages(j) == Asks(j, "fetch", "start", "failed")

EmitStarted(j) == Emits(j, "start", "event", IF j \in ToolJobs THEN "ask" ELSE "open")

\* The provider is not configured or does not answer, or its body is read by a
\* goroutine of its own.
StreamChat(j) ==
  /\ \/ Moves(j, "open", "failed") /\ UNCHANGED model
     \/ /\ Moves(j, "open", "listen")
        /\ \E p \in {"ollama", "openai"} : model' = [model EXCEPT ![j] = [of |-> p, at |-> "read"]]
  /\ UNCHANGED <<streamVars, texts, waiter>>

ReadTo(j, at) == model' = [model EXCEPT ![j].at = at]

ModelReads(j, of) ==
  /\ Up /\ model[j] = [of |-> of, at |-> "read"]
  /\ UNCHANGED <<streamVars, loop, tableVars, task, waiter>>

\* A line of Ollama's answer: text, the end, text and the end; a bad line or
\* status; or the body is over, which closes the channel.
OllamaReads(j) ==
  /\ ModelReads(j, "ollama")
  /\ \/ texts[j] < MaxText /\ (ReadTo(j, "text") \/ ReadTo(j, "last")) /\ texts' = [texts EXCEPT ![j] = @ + 1]
     \/ (ReadTo(j, "done") \/ ReadTo(j, "error") \/ ReadTo(j, "off")) /\ UNCHANGED texts

\* A data line of an OpenAI-compatible answer: a piece with text is never the
\* last one, whatever its finish_reason.
OpenAIReads(j) ==
  /\ ModelReads(j, "openai")
  /\ \/ texts[j] < MaxText /\ ReadTo(j, "text") /\ texts' = [texts EXCEPT ![j] = @ + 1]
     \/ (ReadTo(j, "done") \/ ReadTo(j, "error") \/ ReadTo(j, "off")) /\ UNCHANGED texts

HasEvent(j) == model[j].at \in {"text", "last", "done", "error"}

AfterEvent(j) ==
  CASE model[j].at = "text" -> "read" [] model[j].at = "last" -> "done" [] OTHER -> "off"

\* Mutant: a plain channel send, without the context.
NoSendGivenUp(j) == FALSE

\* sendStreamEvent: the context is done before the event is taken.
SendGivenUp(j) ==
  /\ Up /\ HasEvent(j) /\ j \in cancelled
  /\ ReadTo(j, "off")
  /\ UNCHANGED <<streamVars, loop, tableVars, task, texts, waiter>>

\* The agent takes an event of the model; it returns if its context is done.
TakeEvent(j) ==
  /\ HasEvent(j)
  /\ Moves(j, "listen",
       IF j \in cancelled THEN "leave"
       ELSE CASE model[j].at \in {"text", "last"} -> "text"
              [] model[j].at = "error" -> "failed"
              [] OTHER -> "listen")
  /\ ReadTo(j, AfterEvent(j))
  /\ UNCHANGED <<streamVars, texts, waiter>>

EmitDelta(j) == Emits(j, "text", "event", "listen")

\* The channel is closed, whether or not the model said that it was done.
AnswerEnds(j) ==
  /\ model[j].at = "off"
  /\ Moves(j, "listen", IF j \in cancelled THEN "leave" ELSE "completed")
  /\ UNCHANGED <<streamVars, model, texts, waiter>>

\* message.completed, which the worker drops, and run_completed.
EmitCompleted(j) == Emits(j, "completed", "completed", "leave")

\* Mutant: the worker reports the failure that the agent has reported.
BothReport(j) ==
  Emits(j, "failed", "failed", "failed") \/ Emits(j, "failed", "failed", "leave")

\* emitRunFailed.  The worker's own run_failed is for errors of a stream that
\* has ended.
EmitFailed(j) == Emits(j, "failed", "failed", "leave")

(***************************************************************************)
(* Its tool call: two beacons, each with a decision to wait for            *)
(***************************************************************************)
SetWaiter(j, c) == waiter' = [waiter EXCEPT ![j] = c]

\* postToolBeacon: a channel is registered for the decision, and the beacon sent.
Posts(j, from, k, to) ==
  /\ Moves(j, from, to) /\ Send(k, j) /\ SetWaiter(j, "empty")
  /\ UNCHANGED <<model, texts>>

PostBefore(j) == Posts(j, "ask", "before", "decide")

\* The decision arrives.
Decided(j, from, to) ==
  /\ waiter[j] \in {"before", "after"}
  /\ Moves(j, from, to) /\ SetWaiter(j, "none")
  /\ UNCHANGED <<streamVars, model, texts>>

\* Allowed, to be approved, or denied.
DecideTool(j) == \E to \in {"call", "poll", "tell_failed"} : Decided(j, "decide", to)

PollApproval(j) == Asks(j, "poll", "call", "tell_failed")
CallTool(j)     == Asks(j, "call", "tell_done", "tell_failed")

\* postAfter, with the outcome of the call.
PostAfter(j) ==
  \/ Posts(j, "tell_done", "after", "heed_done")
  \/ Posts(j, "tell_failed", "after", "heed_failed")

HeedAnswer(j) == Decided(j, "heed_done", "result") \/ Decided(j, "heed_failed", "failed")

\* The context is done before the decision is taken.
StopsWaiting(j, from, to) ==
  /\ j \in cancelled
  /\ Moves(j, from, to) /\ SetWaiter(j, "none")
  /\ UNCHANGED <<streamVars, model, texts>>

\* The runner reports the call as failed if its BEFORE beacon was sent.
GiveUpWaiting(j) ==
  \/ StopsWaiting(j, "decide", "tell_failed")
  \/ \E at \in {"heed_done", "heed_failed"} : StopsWaiting(j, at, "failed")

EmitResult(j) == Emits(j, "result", "event", "completed")

ToolStep(j) ==
  \/ PostBefore(j) \/ DecideTool(j) \/ PollApproval(j) \/ CallTool(j)
  \/ PostAfter(j) \/ HeedAnswer(j) \/ GiveUpWaiting(j) \/ EmitResult(j)

(***************************************************************************)
(* The goroutine's deferred calls, and the Recv loop                       *)
(***************************************************************************)
Leave(j) ==
  /\ Moves(j, "leave", IF j \in stopping THEN "gone" ELSE "remove")
  /\ UNCHANGED <<streamVars, model, texts, waiter>>

Remove(j) ==
  /\ Up /\ task[j] = "remove"
  /\ active' = active \ {j}
  /\ task' = [task EXCEPT ![j] = "gone"]
  /\ UNCHANGED <<streamVars, loop, stopping, cancelled, model, texts, waiter>>

Received(k, j) ==
  /\ loop = Receiving /\ commands # <<>>
  /\ Head(commands) = About(k, j)
  /\ commands' = Tail(commands)
  /\ UNCHANGED <<updates, revoked, settled, said>>

StartRun(j) ==
  /\ Received("assigned", j)
  /\ active' = active \union {j}
  /\ task' = [task EXCEPT ![j] = "fetch"]
  /\ UNCHANGED <<loop, stopping, cancelled, model, texts, waiter>>

\* Nobody waits for a decision whose waiter is gone: it is dropped.
DeliverDecision(j) ==
  /\ \E k \in {"before", "after"} :
       /\ Received(k, j)
       /\ waiter' = IF waiter[j] = "empty" THEN [waiter EXCEPT ![j] = k] ELSE waiter
  /\ UNCHANGED <<loop, tableVars, task, model, texts>>

\* Mutant: the entry is deleted when it is looked up.
TakeActiveRun(j) ==
  /\ Received("cancelled", j)
  /\ loop' = IF j \in active THEN At("found", j) ELSE loop
  /\ active' = active \ {j}
  /\ UNCHANGED <<stopping, cancelled, taskVars>>

\* cancelRun: the entry is looked up; a job that has ended has none.
ActiveRun(j) ==
  /\ Received("cancelled", j)
  /\ loop' = IF j \in active THEN At("found", j) ELSE loop
  /\ UNCHANGED <<tableVars, taskVars>>

\* cancelRun: markStopping and cancel.
StopJob(j) ==
  /\ loop = At("found", j)
  /\ stopping' = stopping \union {j}
  /\ cancelled' = cancelled \union {j}
  /\ loop' = At("waiting", j)
  /\ UNCHANGED <<streamVars, active, taskVars>>

\* cancelRun: the goroutine has ended, and the entry is deleted.
StoppedJob(j) ==
  /\ task[j] = "gone"
  /\ loop = At("waiting", j)
  /\ active' = active \ {j}
  /\ loop' = At("acking", j)
  /\ UNCHANGED <<streamVars, stopping, cancelled, taskVars>>

AckCancel(j) ==
  /\ loop = At("acking", j)
  /\ Send("ack", j)
  /\ loop' = Receiving
  /\ UNCHANGED <<tableVars, taskVars>>

LoopStep ==
  \E j \in Jobs :
    StartRun(j) \/ DeliverDecision(j) \/ ActiveRun(j) \/ StopJob(j) \/ StoppedJob(j) \/ AckCancel(j)

TaskStep(j) ==
  \/ FetchMessages(j) \/ EmitStarted(j) \/ StreamChat(j) \/ TakeEvent(j) \/ EmitDelta(j) \/ AnswerEnds(j)
  \/ ToolStep(j) \/ EmitCompleted(j) \/ EmitFailed(j) \/ Leave(j) \/ Remove(j)

ModelStep(j) == OllamaReads(j) \/ OpenAIReads(j) \/ SendGivenUp(j)

WorkerNext ==
  \/ \E j \in Jobs : AssignJob(j) \/ RevokeJob(j) \/ TaskStep(j) \/ ModelStep(j)
  \/ LoopStep \/ ReceiveUpdate \/ StreamBreaks

(***************************************************************************)
(* While a goroutine of the process can go on, or the orchestrator has an  *)
(* update to receive, something of it happens: less than a fair scheduler  *)
(* gives.  The model, the MCP servers and the orchestrator answer, and no  *)
(* answer is endless.  Nobody has to assign or to cancel.                  *)
(***************************************************************************)
ProcessStep ==
  \/ \E j \in Jobs : TaskStep(j) \/ ModelStep(j)
  \/ LoopStep \/ ReceiveUpdate

WorkerFairness == WF_processVars(ProcessStep)

WorkerSpec == WorkerInit /\ [][WorkerNext]_processVars /\ WorkerFairness

(***************************************************************************)
(* Properties                                                              *)
(***************************************************************************)
WorkerTypeOK ==
  /\ commands \in Seq(CommandSet)
  /\ updates \in Seq(UpdateSet)
  /\ revoked \subseteq Jobs /\ settled \subseteq Jobs
  /\ loop \in LoopSet
  /\ active \subseteq Jobs /\ stopping \subseteq Jobs /\ cancelled \subseteq Jobs
  /\ task \in [Jobs -> TaskSet]
  /\ model \in [Jobs -> ModelSet]
  /\ texts \in [Jobs -> 0..MaxText]
  /\ waiter \in [Jobs -> Channel]
  /\ said \in [Jobs -> SaidSet]

\* What the orchestrator is told is what RunReports promises: whatever goroutine
\* and loop do at once, nothing is said of a job after its end but the
\* acknowledgement, and nothing at all after that.
Reports == INSTANCE RunReports WITH report <- said, asked <- revoked
ImplementsReports == Reports!ReportSpec

Working(j) == task[j] \notin {"none", "gone"}

\* The table of active runs is true though a job's goroutine and the Recv loop
\* both delete from it: a job that works can be cancelled, and no entry is left
\* behind of one that does not, but for the job the loop is about to acknowledge.
TableIsTrue ==
  Up => \A j \in Jobs :
    /\ Working(j) => j \in active
    /\ j \in active => Working(j) \/ loop.job = j

Quiet == loop = Receiving /\ \A j \in Jobs : ~Working(j) /\ model[j].at = "off"

\* The process always comes to rest: every job that was started ends, with the
\* goroutine that reads its model, every cancellation is acknowledged, and the loop
\* receives again.  What the loop waits for never waits for the loop, though the
\* decisions for other jobs lie behind the cancellation that it is at.
WorkEnds == []<>(Quiet \/ ~Up)
=============================================================================
