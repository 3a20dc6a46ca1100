------------------------------ MODULE Dispatch ------------------------------
(***************************************************************************)
(* How a run travels from SendMessage to a worker and back.  The module    *)
(* composes the repository with                                            *)
(*   - the runtime service: the map of registered workers, one stream      *)
(*     handler and one reader goroutine per connection, DispatchPending    *)
(*     (called by four kinds of goroutine), cancellation and approval      *)
(*     notifications (orchestrator-go/internal/service/runtime);           *)
(*   - the SendMessage handler of each run (service/chat) and the handler  *)
(*     that decides a run's approval (service/approvals);                  *)
(*   - the worker process on the other end of each connection              *)
(*     (agent-runtime-go/internal/worker, tools, agent).                   *)
(* A connection c stands for one worker object of the service; it can be   *)
(* used again once its handler has returned and nobody holds a pointer to  *)
(* it.  Two connections with the same WorkerOf are two sessions of the     *)
(* same worker id.                                                         *)
(***************************************************************************)
EXTENDS Repository, FiniteSets

CONSTANTS
  Conns,          \* connections (worker objects)
  WorkerOf,       \* the worker id a connection registers under
  MaxConcurrent,  \* max_concurrent_runs; also the capacity of worker.commands
  ToolRuns,       \* runs whose text is "/tool files.create"
  Faults,         \* kinds of fault the environment may inject
  MaxFaults,      \* bound on the number of injected faults
  NoteWindow      \* bound on updates in flight after a run streams one more, 0 for none

ASSUME DispatchAssumption ==
  /\ None \notin Conns
  /\ WorkerOf \in [Conns -> WorkerIds]
  /\ MaxConcurrent \in Nat \ {0}
  /\ ToolRuns \subseteq Runs
  /\ Faults \subseteq {"drop", "hangup", "empty_answer", "restart"}
  /\ MaxFaults \in Nat
  /\ NoteWindow \in Nat

VARIABLES
  workers,   \* Server.workers: the connection registered under an id
  conn,      \* where the ConnectWorker handler of a connection is
  ctxDone,   \* the stream's context is cancelled
  assign,    \* worker.assignments: the runs a connection holds
  cmds,      \* worker.commands: the buffered command channel
  limbo,     \* runs the handler has taken off the worker and not requeued yet
  reader,    \* where the reader goroutine of a connection is
  up,        \* runtime updates in flight from the process to the reader
  proc,      \* what the worker process does with each run
  chat,      \* where the SendMessage handler of a run is
  decider,   \* where the handler that decided the run's approval is
  disp,      \* the DispatchPending call of each goroutine
  faults     \* faults injected so far

runtimeVars == <<workers, conn, ctxDone, assign, cmds, limbo, reader>>
procVars    == <<up, proc>>
callerVars  == <<chat, decider>>
vars == <<repoVars, runtimeVars, procVars, callerVars, disp, faults>>

\* The goroutines that call DispatchPending: the stream handler and the
\* reader of a connection, the chat handler and the decider of a run.
Threads == ({"conn", "reader"} \X Conns) \union ({"chat", "decider"} \X Runs)

ConnState    == {"down", "accepting", "serving", "dying", "removed", "closed"}
AtRun        == {"checked", "answer", "ask", "release"}
ReaderState  == [pc : AtRun, run : Runs] \union [pc : {"off", "idle", "dispatch", "err"}, run : {None}]
ProcState    == {"off", "call", "tool", "await", "asking", "failing", "model"}
ChatState    == {"absent", "dispatch", "stream", "cancelling", "telling", "done"}
DeciderState == {"idle", "approved", "refused", "dispatch"}
Command == [kind : {"assigned", "cancelled", "decision", "ask", "updated"}, run : Runs]
Update  == [kind : {"event", "beacon", "before", "completed", "empty", "failed", "ack"}, run : Runs]
Call    == [on : BOOLEAN, todo : SUBSET Conns, at : Conns \union {None}, run : Runs \union {None}]

NoCall == [on |-> FALSE, todo |-> {}, at |-> None, run |-> None]
At(pc, r) == [pc |-> pc, run |-> IF pc \in AtRun THEN r ELSE None]
Off       == At("off", None)
Msg(k, r) == [kind |-> k, run |-> r]

Init ==
  /\ RepoInit
  /\ workers = [i \in WorkerIds |-> None]
  /\ conn = [c \in Conns |-> "down"]
  /\ ctxDone = [c \in Conns |-> FALSE]
  /\ assign = [c \in Conns |-> {}]
  /\ cmds = [c \in Conns |-> <<>>]
  /\ limbo = [c \in Conns |-> {}]
  /\ reader = [c \in Conns |-> Off]
  /\ up = [c \in Conns |-> <<>>]
  /\ proc = [c \in Conns |-> [r \in Runs |-> "off"]]
  /\ chat = [r \in Runs |-> "absent"]
  /\ decider = [r \in Runs |-> "idle"]
  /\ disp = [t \in Threads |-> NoCall]
  /\ faults = 0

Fault(kind) == kind \in Faults /\ faults < MaxFaults /\ faults' = faults + 1

Registered == {c \in Conns : workers[WorkerOf[c]] = c}
Closed(c)  == conn[c] \in {"down", "closed"}
Full(c)    == Cardinality(assign[c]) >= MaxConcurrent
Room(c)    == Len(cmds[c]) < MaxConcurrent
Owners(r)  == {c \in Registered : r \in assign[c]}

\* Mutant: dispatchToWorker does not take the lock.
NoLock(c) == c \in Conns

\* worker.mu is held across a blocking section only by dispatchToWorker,
\* between the claim and the channel send.
LockFree(c) == \A t \in Threads : disp[t].at = c => disp[t].run = None

\* The calls of requeueAssignments: the error of a rolled back
\* RequeueClaimedJob is dropped.
RequeueOrDrop(r) == RequeueClaimedJob(r) \/ (~Requeueable(r) /\ UNCHANGED repoVars)

(***************************************************************************)
(* DispatchPending and dispatchToWorker, run by any of the goroutines.     *)
(***************************************************************************)
Calling(t) ==
  \/ \E c \in Conns : t = <<"conn", c>> /\ conn[c] = "accepting"
  \/ \E c \in Conns : t = <<"reader", c>> /\ reader[c].pc = "dispatch"
  \/ \E r \in Runs : t = <<"chat", r>> /\ chat[r] = "dispatch"
  \/ \E r \in Runs : t = <<"decider", r>> /\ decider[r] = "dispatch"

\* The context of the caller is cancelled: the stream's for the goroutines of a
\* connection; that of a client, who may hang up at any time, for the others.
CallerCancelled(t) ==
  \/ /\ \E c \in Conns : t \in {<<"conn", c>>, <<"reader", c>>} /\ ctxDone[c]
     /\ UNCHANGED faults
  \/ /\ \E r \in Runs : t \in {<<"chat", r>>, <<"decider", r>>}
     /\ Fault("hangup")

\* DispatchPending returns to its caller, with or without an error; a handler
\* whose call succeeded starts its reader.
Return(t, ok) ==
  /\ Calling(t)
  /\ disp' = [disp EXCEPT ![t] = NoCall]
  /\ \/ \E c \in Conns :
          /\ t = <<"conn", c>>
          /\ conn' = [conn EXCEPT ![c] = IF ok THEN "serving" ELSE "dying"]
          /\ reader' = [reader EXCEPT ![c] = IF ok THEN At("idle", None) ELSE @]
          /\ UNCHANGED callerVars
     \/ \E c \in Conns :
          /\ t = <<"reader", c>>
          /\ reader' = [reader EXCEPT ![c] = At(IF ok THEN "idle" ELSE "err", None)]
          /\ UNCHANGED <<conn, callerVars>>
     \/ \E r \in Runs :
          /\ t = <<"chat", r>>
          /\ chat' = [chat EXCEPT ![r] = IF ok THEN "stream" ELSE "cancelling"]
          /\ UNCHANGED <<conn, reader, decider>>
     \/ \E r \in Runs :
          /\ t = <<"decider", r>>
          /\ decider' = [decider EXCEPT ![r] = "idle"]
          /\ UNCHANGED <<conn, reader, chat>>

Stay == UNCHANGED <<conn, reader, callerVars>>

\* The loop over the workers left in the snapshot goes on, or is over.
Continue(t, left) ==
  IF left = {}
    THEN Return(t, TRUE)
    ELSE disp' = [disp EXCEPT ![t] = [on |-> TRUE, todo |-> left, at |-> None, run |-> None]] /\ Stay

\* snapshotWorkers
DispatchStart(t) ==
  /\ Calling(t)
  /\ ~disp[t].on
  /\ Continue(t, Registered)
  /\ UNCHANGED <<repoVars, workers, ctxDone, assign, cmds, limbo, procVars, faults>>

\* t is about to enter dispatchToWorker for c: the worker it is at, or (map
\* iteration has no order) any worker left of its snapshot.
Visits(t, c) ==
  /\ disp[t].on
  /\ disp[t].run = None
  /\ IF disp[t].at = None THEN c \in disp[t].todo ELSE c = disp[t].at
  /\ LockFree(c)

\* The worker is closed or has no free slot: on to the next one.
DispatchPass(t, c) ==
  /\ Visits(t, c)
  /\ Closed(c) \/ Full(c)
  /\ Continue(t, disp[t].todo \ {c})
  /\ UNCHANGED <<repoVars, workers, ctxDone, assign, cmds, limbo, procVars, faults>>

DispatchNoJob(t, c) ==
  /\ Visits(t, c)
  /\ ~Closed(c) /\ ~Full(c)
  /\ \A r \in Runs : ~Claimable(r)
  /\ Return(t, TRUE)
  /\ UNCHANGED <<repoVars, workers, ctxDone, assign, cmds, limbo, procVars, faults>>

\* The claim commits while worker.mu is held; the run is in t's hands until
\* the channel takes the assignment or the context ends.
DispatchClaim(t, c, r) ==
  /\ Visits(t, c)
  /\ ~Closed(c) /\ ~Full(c)
  /\ ClaimNextJob(r, WorkerOf[c])
  /\ disp' = [disp EXCEPT ![t] = [on |-> TRUE, todo |-> @.todo, at |-> c, run |-> r]]
  /\ Stay
  /\ UNCHANGED <<workers, ctxDone, assign, cmds, limbo, procVars, faults>>

DispatchDeliver(t, c, r) ==
  /\ disp[t].at = c /\ disp[t].run = r
  /\ Room(c)
  /\ cmds' = [cmds EXCEPT ![c] = Append(@, Msg("assigned", r))]
  /\ assign' = [assign EXCEPT ![c] = @ \union {r}]
  /\ disp' = [disp EXCEPT ![t].run = None]
  /\ Stay
  /\ UNCHANGED <<repoVars, workers, ctxDone, limbo, procVars, faults>>

\* ctx.Done wins the select: cancelled, or five seconds in front of a full
\* channel.  (With room and a dead context the select picks either branch.)
DispatchAbort(t, c, r) ==
  /\ disp[t].at = c /\ disp[t].run = r
  /\ CallerCancelled(t) \/ (~Room(c) /\ UNCHANGED faults)
  /\ RequeueOrDrop(r)
  /\ Return(t, FALSE)
  /\ UNCHANGED <<workers, ctxDone, assign, cmds, limbo, procVars>>

\* t has spent its five seconds behind a goroutine that holds the lock of the
\* worker t is to visit, in front of a full channel.
OutOfTime(t) ==
  \E c \in Conns :
    /\ IF disp[t].at = None THEN c \in disp[t].todo ELSE c = disp[t].at
    /\ ~LockFree(c) /\ ~Room(c)

\* ClaimNextJob fails on a cancelled or expired context.
DispatchError(t) ==
  /\ disp[t].on /\ disp[t].run = None
  /\ CallerCancelled(t) \/ (OutOfTime(t) /\ UNCHANGED faults)
  /\ Return(t, FALSE)
  /\ UNCHANGED <<repoVars, workers, ctxDone, assign, cmds, limbo, procVars>>

DispatchStep(t) ==
  \/ DispatchStart(t)
  \/ DispatchError(t)
  \/ \E c \in Conns :
       \/ DispatchPass(t, c)
       \/ DispatchNoJob(t, c)
       \/ \E r \in Runs :
            DispatchClaim(t, c, r) \/ DispatchDeliver(t, c, r) \/ DispatchAbort(t, c, r)

(***************************************************************************)
(* ConnectWorker: the stream handler of a connection.                      *)
(***************************************************************************)

\* Mutant: the id is not looked up before it is registered.
ConnectUnchecked(c) ==
  /\ conn[c] = "down"
  /\ reader[c].pc \in {"off", "idle", "err"}
  /\ \A t \in Threads : disp[t].at # c /\ c \notin disp[t].todo
  /\ workers' = [workers EXCEPT ![WorkerOf[c]] = c]
  /\ conn' = [conn EXCEPT ![c] = "accepting"]
  /\ ctxDone' = [ctxDone EXCEPT ![c] = FALSE]
  /\ reader' = [reader EXCEPT ![c] = Off]
  /\ UNCHANGED <<repoVars, assign, cmds, limbo, procVars, callerVars, disp, faults>>

\* A worker process starts, and its id is not registered.  (Nobody holds a
\* pointer to an earlier use of c.)
Connect(c) ==
  /\ conn[c] = "down"
  /\ workers[WorkerOf[c]] = None
  /\ reader[c].pc \in {"off", "idle", "err"}
  /\ \A t \in Threads : disp[t].at # c /\ c \notin disp[t].todo
  /\ workers' = [workers EXCEPT ![WorkerOf[c]] = c]
  /\ conn' = [conn EXCEPT ![c] = "accepting"]
  /\ ctxDone' = [ctxDone EXCEPT ![c] = FALSE]
  /\ reader' = [reader EXCEPT ![c] = Off]
  /\ UNCHANGED <<repoVars, assign, cmds, limbo, procVars, callerVars, disp, faults>>

\* The process exits as soon as it sees its stream end, and what it sent and
\* nobody read is gone.
ProcGone(c) ==
  /\ up' = [up EXCEPT ![c] = <<>>]
  /\ proc' = [proc EXCEPT ![c] = [r \in Runs |-> "off"]]

\* The worker process or the network goes away.
ClientDrop(c) ==
  /\ conn[c] # "down" /\ ~ctxDone[c]
  /\ Fault("drop")
  /\ ctxDone' = [ctxDone EXCEPT ![c] = TRUE]
  /\ ProcGone(c)
  /\ UNCHANGED <<repoVars, workers, conn, assign, cmds, limbo, reader, callerVars, disp>>

\* The handler's select picks ctx.Done or the reader's error and returns.
HandlerLeaves(c) ==
  /\ conn[c] = "serving"
  /\ ctxDone[c] \/ reader[c].pc = "err"
  /\ conn' = [conn EXCEPT ![c] = "dying"]
  /\ UNCHANGED <<repoVars, workers, ctxDone, assign, cmds, limbo, reader, procVars, callerVars, disp, faults>>

\* Mutant: the run is requeued and not released.
SendFailsKeeping(c) ==
  /\ conn[c] = "serving" /\ ctxDone[c] /\ cmds[c] # <<>>
  /\ cmds' = [cmds EXCEPT ![c] = Tail(@)]
  /\ limbo' = [limbo EXCEPT ![c] =
       IF Head(cmds[c]).kind = "assigned" THEN {Head(cmds[c]).run} ELSE @]
  /\ conn' = [conn EXCEPT ![c] = "dying"]
  /\ UNCHANGED <<repoVars, workers, ctxDone, assign, reader, procVars, callerVars, disp, faults>>

\* stream.Send fails: requeueIfAssignmentFailed releases the run at once.
SendFails(c) ==
  /\ conn[c] = "serving" /\ ctxDone[c] /\ cmds[c] # <<>>
  /\ cmds' = [cmds EXCEPT ![c] = Tail(@)]
  /\ IF Head(cmds[c]).kind = "assigned"
       THEN /\ LockFree(c)
            /\ assign' = [assign EXCEPT ![c] = @ \ {Head(cmds[c]).run}]
            /\ limbo' = [limbo EXCEPT ![c] = {Head(cmds[c]).run}]
       ELSE UNCHANGED <<assign, limbo>>
  /\ conn' = [conn EXCEPT ![c] = "dying"]
  /\ UNCHANGED <<repoVars, workers, ctxDone, reader, procVars, callerVars, disp, faults>>

\* One RequeueClaimedJob of requeueAssignments.
RequeueLimbo(c, r) ==
  /\ conn[c] \in {"dying", "closed"} /\ r \in limbo[c]
  /\ RequeueOrDrop(r)
  /\ limbo' = [limbo EXCEPT ![c] = @ \ {r}]
  /\ UNCHANGED <<workers, conn, ctxDone, assign, cmds, reader, procVars, callerVars, disp, faults>>

\* The deferred function: delete from the map, close the worker, requeue what
\* it held, return.
Deregister(c) ==
  /\ conn[c] = "dying" /\ limbo[c] = {}
  /\ workers' = [workers EXCEPT ![WorkerOf[c]] = None]
  /\ conn' = [conn EXCEPT ![c] = "removed"]
  /\ UNCHANGED <<repoVars, ctxDone, assign, cmds, limbo, reader, procVars, callerVars, disp, faults>>

\* Mutant: the assignments are reset before they are copied.
CloseForgetting(c) ==
  /\ conn[c] = "removed" /\ LockFree(c)
  /\ conn' = [conn EXCEPT ![c] = "closed"]
  /\ assign' = [assign EXCEPT ![c] = {}]
  /\ cmds' = [cmds EXCEPT ![c] = <<>>]
  /\ UNCHANGED <<repoVars, workers, ctxDone, limbo, reader, procVars, callerVars, disp, faults>>

Close(c) ==
  /\ conn[c] = "removed" /\ LockFree(c)
  /\ conn' = [conn EXCEPT ![c] = "closed"]
  /\ limbo' = [limbo EXCEPT ![c] = assign[c]]
  /\ assign' = [assign EXCEPT ![c] = {}]
  /\ cmds' = [cmds EXCEPT ![c] = <<>>]
  /\ UNCHANGED <<repoVars, workers, ctxDone, reader, procVars, callerVars, disp, faults>>

HandlerReturns(c) ==
  /\ conn[c] = "closed" /\ limbo[c] = {}
  /\ conn' = [conn EXCEPT ![c] = "down"]
  /\ ctxDone' = [ctxDone EXCEPT ![c] = TRUE]
  /\ ProcGone(c)
  /\ UNCHANGED <<repoVars, workers, assign, cmds, limbo, reader, callerVars, disp, faults>>

Teardown(c) ==
  \/ HandlerLeaves(c) \/ SendFails(c) \/ Deregister(c) \/ Close(c) \/ HandlerReturns(c)
  \/ \E r \in Runs : RequeueLimbo(c, r)

(***************************************************************************)
(* The reader goroutine: validateUpdate, then handleToolBeacon or          *)
(* applyUpdate.  Any error ends the stream, for every run it carries.      *)
(***************************************************************************)
Reading(c, u) ==
  /\ conn[c] = "serving" /\ ~ctxDone[c]
  /\ reader[c].pc = "idle"
  /\ up[c] # <<>> /\ u = Head(up[c])
  /\ LockFree(c)

\* What validateUpdate and the status checks of the handlers let through.
Acceptable(c, u) ==
  /\ u.run \in assign[c]
  /\ CASE u.kind \in {"event", "beacon", "before", "completed"} -> Active(u.run)
       [] u.kind = "failed"                                     -> Cancellable(u.run)
       [] u.kind = "ack"                                        -> run[u.run] = "cancelled"
       [] u.kind = "empty"                                      -> FALSE

Take(c, pc) ==
  /\ up' = [up EXCEPT ![c] = Tail(@)]
  /\ reader' = [reader EXCEPT ![c] = At(pc, Head(up[c]).run)]
  /\ UNCHANGED <<workers, conn, ctxDone, assign, cmds, limbo, proc, callerVars, disp, faults>>

ReaderRejects(c, u) ==
  /\ Reading(c, u) /\ ~Acceptable(c, u)
  /\ Take(c, "err")
  /\ UNCHANGED repoVars

\* A streamed event is appended; a tool beacon is answered with a decision; a
\* BEFORE beacon of an approval tool has passed the status check only.
ReaderNotes(c, u) ==
  /\ Reading(c, u) /\ Acceptable(c, u)
  /\ \/ u.kind = "event"  /\ Take(c, "idle")
     \/ u.kind = "beacon" /\ Take(c, "answer")
     \/ u.kind = "before" /\ Take(c, "checked")
  /\ UNCHANGED repoVars

ReaderEnds(c, u) ==
  /\ Reading(c, u) /\ Acceptable(c, u)
  /\ Take(c, "release")
  /\ \/ u.kind = "completed" /\ CompleteRunWithEvent(u.run)
     \/ u.kind = "failed"    /\ FailRunWithEvent(u.run)
     \/ u.kind = "ack"       /\ UNCHANGED repoVars

ReaderGoes(c, pc) ==
  /\ reader' = [reader EXCEPT ![c] = At(pc, @.run)]
  /\ UNCHANGED <<workers, conn, ctxDone, limbo, procVars, callerVars, disp, faults>>

\* The transaction of handleToolBefore, after the check of handleToolBeacon.
ReaderAsks(c) ==
  /\ reader[c].pc = "checked" /\ ~ctxDone[c]
  /\ \/ CreateApproval(reader[c].run) /\ ReaderGoes(c, "ask")
     \/ ~Cancellable(reader[c].run) /\ ReaderGoes(c, "err") /\ UNCHANGED repoVars
  /\ UNCHANGED <<assign, cmds>>

\* connectedWorker.send of the policy decision; it waits for room.
ReaderAnswers(c) ==
  /\ reader[c].pc \in {"answer", "ask"} /\ ~ctxDone[c]
  /\ LockFree(c) /\ Room(c)
  /\ cmds' = [cmds EXCEPT ![c] =
       Append(@, Msg(IF reader[c].pc = "ask" THEN "ask" ELSE "decision", reader[c].run))]
  /\ ReaderGoes(c, "idle")
  /\ UNCHANGED <<repoVars, assign>>

\* Database calls and sends fail once the stream's context is cancelled.
ReaderQuits(c) ==
  /\ reader[c].pc \in {"checked", "answer", "ask"} /\ ctxDone[c]
  /\ ReaderGoes(c, "err")
  /\ UNCHANGED <<repoVars, assign, cmds>>

\* Mutant: the run stays assigned.
ReaderKeeps(c) ==
  /\ reader[c].pc = "release" /\ LockFree(c)
  /\ ReaderGoes(c, "dispatch")
  /\ UNCHANGED <<repoVars, assign, cmds>>

\* Mutant: nothing is dispatched to the free slot.
ReaderReleasesOnly(c) ==
  /\ reader[c].pc = "release" /\ LockFree(c)
  /\ assign' = [assign EXCEPT ![c] = @ \ {reader[c].run}]
  /\ ReaderGoes(c, "idle")
  /\ UNCHANGED <<repoVars, cmds>>

ReaderReleases(c) ==
  /\ reader[c].pc = "release" /\ LockFree(c)
  /\ assign' = [assign EXCEPT ![c] = @ \ {reader[c].run}]
  /\ ReaderGoes(c, "dispatch")
  /\ UNCHANGED <<repoVars, cmds>>

ReaderStep(c) ==
  \/ \E k \in {"event", "beacon", "before", "completed", "empty", "failed", "ack"}, r \in Runs :
       LET u == Msg(k, r) IN ReaderRejects(c, u) \/ ReaderNotes(c, u) \/ ReaderEnds(c, u)
  \/ ReaderAsks(c) \/ ReaderAnswers(c) \/ ReaderQuits(c) \/ ReaderReleases(c)

(***************************************************************************)
(* The writer loop, and the worker process that receives the commands.     *)
(***************************************************************************)
Post(c, msgs) == up' = [up EXCEPT ![c] = @ \o msgs]

\* What the goroutine of a cancelled run posts on its way out: the AFTER beacon
\* of the tool call it is in, a run_failed unless it was waiting for the model,
\* and, from cancelRun, the acknowledgement.
LastWords(c, r) ==
  LET ack    == <<Msg("ack", r)>>
      failed == <<Msg("failed", r), Msg("ack", r)>>
      after  == <<Msg("beacon", r), Msg("failed", r), Msg("ack", r)>>
  IN  CASE proc[c][r] = "off"               -> {<<>>}
        [] proc[c][r] \in {"call", "model"} -> {failed, ack}
        [] proc[c][r] \in {"tool", "await"} -> {after}
        [] proc[c][r] = "asking"            -> {after, failed}
        [] proc[c][r] = "failing"           -> {failed}

\* worker.cancelRun: cancel the run's context, wait for its goroutine, send the
\* acknowledgement.
ProcCancels(c, r) ==
  /\ proc' = [proc EXCEPT ![c][r] = "off"]
  /\ \E msgs \in LastWords(c, r) : Post(c, msgs)

\* deliverDecision wakes the goroutine that posted the beacon, if it still
\* waits: after the failure of a tool it reports the run as failed.
ProcDecided(c, r) ==
  \/ /\ proc[c][r] = "asking"
     /\ proc' = [proc EXCEPT ![c][r] = "model"]
     /\ UNCHANGED up
  \/ /\ proc[c][r] = "failing"
     /\ proc' = [proc EXCEPT ![c][r] = "off"]
     /\ Post(c, <<Msg("failed", r)>>)
  \/ proc[c][r] \notin {"asking", "failing"} /\ UNCHANGED procVars

SendCommand(c) ==
  /\ conn[c] = "serving" /\ ~ctxDone[c] /\ cmds[c] # <<>>
  /\ cmds' = [cmds EXCEPT ![c] = Tail(@)]
  /\ LET r == Head(cmds[c]).run
         k == Head(cmds[c]).kind
     IN  \/ /\ k = "assigned"
            /\ proc' = [proc EXCEPT ![c][r] = IF r \in ToolRuns THEN "call" ELSE "model"]
            /\ UNCHANGED up
         \/ k = "cancelled" /\ ProcCancels(c, r)
         \/ /\ k = "ask"
            /\ proc' = [proc EXCEPT ![c][r] = IF @ = "tool" THEN "await" ELSE @]
            /\ UNCHANGED up
         \/ k = "decision" /\ ProcDecided(c, r)
         \/ k = "updated" /\ UNCHANGED procVars
  /\ UNCHANGED <<repoVars, workers, conn, ctxDone, assign, limbo, reader, callerVars, disp, faults>>

\* The process has not noticed that the stream has ended.
Live(c) == conn[c] # "down" /\ ~ctxDone[c]

ProcMoves(c, r, from, to, msgs) ==
  /\ Live(c) /\ proc[c][r] = from
  /\ proc' = [proc EXCEPT ![c][r] = to]
  /\ Post(c, msgs)
  /\ UNCHANGED <<runtimeVars, callerVars, disp>>

\* A message delta, or a beacon of a tool that needs no approval.
ProcStreams(c, r) ==
  /\ Len(up[c]) < NoteWindow
  /\ \/ ProcMoves(c, r, "model", "model", <<Msg("event", r)>>)
     \/ r \notin ToolRuns /\ ProcMoves(c, r, "model", "asking", <<Msg("beacon", r)>>)
  /\ UNCHANGED <<repoVars, faults>>

\* The BEFORE beacon, or a failure on the way to it.
ProcCallsTool(c, r) ==
  /\ \/ ProcMoves(c, r, "call", "tool", <<Msg("before", r)>>)
     \/ ProcMoves(c, r, "call", "off", <<Msg("failed", r)>>)
  /\ UNCHANGED <<repoVars, faults>>

\* The poll sees "approved": the file server validates the token, consumes the
\* approval and executes the call, or the call fails before it is consumed.
ProcApproved(c, r) ==
  /\ approval[r] = "approved"
  /\ \/ ProcMoves(c, r, "await", "asking", <<Msg("beacon", r)>>) /\ ConsumeApproval(r)
     \/ ProcMoves(c, r, "await", "failing", <<Msg("beacon", r)>>) /\ UNCHANGED repoVars
  /\ UNCHANGED faults

\* The poll sees another final status, or 65 seconds pass.
ProcRefused(c, r) ==
  /\ approval[r] # "approved"
  /\ ProcMoves(c, r, "await", "failing", <<Msg("beacon", r)>>)
  /\ UNCHANGED <<repoVars, faults>>

\* The model is done: an answer, an error, or an answer without content.  (A
\* tool call's answer is its result, which is never empty.)
ProcFinishes(c, r) ==
  /\ \/ ProcMoves(c, r, "model", "off", <<Msg("completed", r)>>) /\ UNCHANGED faults
     \/ /\ r \notin ToolRuns
        /\ \/ ProcMoves(c, r, "model", "off", <<Msg("failed", r)>>) /\ UNCHANGED faults
           \/ ProcMoves(c, r, "model", "off", <<Msg("empty", r)>>) /\ Fault("empty_answer")
  /\ UNCHANGED repoVars

ProcAdvances(c, r) ==
  ProcCallsTool(c, r) \/ ProcApproved(c, r) \/ ProcRefused(c, r) \/ ProcFinishes(c, r)

(***************************************************************************)
(* SendMessage: enqueue, dispatch, stream until a terminal event of the    *)
(* run is in the log, cancel if the client goes away first.                *)
(***************************************************************************)
ChatGoes(r, pc) ==
  /\ chat' = [chat EXCEPT ![r] = pc]
  /\ UNCHANGED <<workers, conn, ctxDone, assign, limbo, reader, procVars, decider, disp>>

SendMessage(r) ==
  /\ chat[r] = "absent"
  /\ EnqueueUserMessage(r)
  /\ ChatGoes(r, "dispatch")
  /\ UNCHANGED <<cmds, faults>>

ChatEnds(r) ==
  /\ chat[r] = "stream"
  /\ \E i \in DOMAIN log[r] : log[r][i] \in Finished
  /\ ChatGoes(r, "done")
  /\ UNCHANGED <<repoVars, cmds, faults>>

\* The transaction of cancelRun, then CancelRun of the runtime service.
CancelRun(r) ==
  /\ \/ CancelRunWithEvent(r) /\ ChatGoes(r, "telling")
     \/ ~Cancellable(r) /\ ChatGoes(r, "done") /\ UNCHANGED repoVars
  /\ UNCHANGED cmds

ChatHangsUp(r) == chat[r] = "stream" /\ Fault("hangup") /\ CancelRun(r)
ChatCancels(r) == chat[r] = "cancelling" /\ CancelRun(r) /\ UNCHANGED faults

\* workerForRun takes every worker's lock in turn, so it waits for a goroutine
\* that is delivering the run.  The command is sent if there is room, or lost
\* after five seconds.
TellOwner(r, kind) ==
  /\ \A t \in Threads : disp[t].run # r
  /\ \E c \in Owners(r) :
       /\ LockFree(c)
       /\ Room(c)
       /\ cmds' = [cmds EXCEPT ![c] = Append(@, Msg(kind, r))]

NobodyToTell(r) == Owners(r) = {} /\ \A t \in Threads : disp[t].run # r
TellTimesOut(r) == \E c \in Owners(r) : LockFree(c) /\ ~Room(c)

ChatTells(r) ==
  /\ chat[r] = "telling"
  /\ ChatGoes(r, "done")
  /\ UNCHANGED <<repoVars, faults>>
  /\ \/ TellOwner(r, "cancelled")
     \/ (NobodyToTell(r) \/ TellTimesOut(r)) /\ UNCHANGED cmds

ChatStep(r) == ChatEnds(r) \/ ChatCancels(r) \/ ChatTells(r)

(***************************************************************************)
(* The user decides an approval, or tries to when it has expired.          *)
(***************************************************************************)
DeciderGoes(r, pc) ==
  /\ decider' = [decider EXCEPT ![r] = pc]
  /\ UNCHANGED <<workers, conn, ctxDone, limbo, reader, procVars, chat, disp>>

\* If the request is cancelled after the commit, nobody is notified.
Decide(r) ==
  /\ decider[r] = "idle"
  /\ \/ ApproveApproval(r) /\ DeciderGoes(r, "approved") /\ UNCHANGED faults
     \/ (DenyApproval(r) \/ ExpireApproval(r)) /\ DeciderGoes(r, "refused") /\ UNCHANGED faults
     \/ /\ ApproveApproval(r) \/ DenyApproval(r) \/ ExpireApproval(r)
        /\ DeciderGoes(r, "idle")
        /\ Fault("hangup")
  /\ UNCHANGED <<assign, cmds>>

\* NotifyApprovalUpdated.  A refusal frees the worker's slot and dispatches.
DeciderNotifies(r) ==
  /\ UNCHANGED <<repoVars, faults>>
  /\ \/ /\ decider[r] = "approved"
        /\ TellOwner(r, "updated")
        /\ DeciderGoes(r, "idle")
        /\ UNCHANGED assign
     \/ /\ decider[r] = "refused"
        /\ TellOwner(r, "updated")
        /\ assign' = [c \in Conns |-> IF c \in Registered THEN assign[c] \ {r} ELSE assign[c]]
        /\ DeciderGoes(r, "dispatch")
     \/ /\ decider[r] \in {"approved", "refused"}
        /\ NobodyToTell(r) \/ TellTimesOut(r)
        /\ DeciderGoes(r, "idle")
        /\ UNCHANGED <<assign, cmds>>

(***************************************************************************)
(* The orchestrator is killed and started again: the tables are what is    *)
(* left.  New() restores nothing from them.                                *)
(***************************************************************************)
Restart ==
  /\ Fault("restart")
  /\ workers' = [i \in WorkerIds |-> None]
  /\ conn' = [c \in Conns |-> "down"]
  /\ ctxDone' = [c \in Conns |-> TRUE]
  /\ assign' = [c \in Conns |-> {}]
  /\ cmds' = [c \in Conns |-> <<>>]
  /\ limbo' = [c \in Conns |-> {}]
  /\ reader' = [c \in Conns |-> Off]
  /\ up' = [c \in Conns |-> <<>>]
  /\ proc' = [c \in Conns |-> [r \in Runs |-> "off"]]
  /\ chat' = [r \in Runs |-> IF chat[r] = "absent" THEN "absent" ELSE "done"]
  /\ decider' = [r \in Runs |-> "idle"]
  /\ disp' = [t \in Threads |-> NoCall]
  /\ UNCHANGED repoVars

ConnStep(c) ==
  \/ Connect(c) \/ ClientDrop(c) \/ Teardown(c) \/ ReaderStep(c) \/ SendCommand(c)
  \/ \E r \in Runs : ProcStreams(c, r) \/ ProcAdvances(c, r)

RunStep(r) ==
  \/ SendMessage(r) \/ ChatHangsUp(r) \/ ChatStep(r)
  \/ Decide(r) \/ DeciderNotifies(r)

Next ==
  \/ \E t \in Threads : DispatchStep(t)
  \/ \E c \in Conns : ConnStep(c)
  \/ \E r \in Runs : RunStep(r)
  \/ Restart

\* The goroutines and the worker process run, and the model server answers (its
\* client sets no timeout) after finitely many pieces, the one tool call of a run
\* included; users, networks and crashes do as they please, and nobody starts a
\* worker process again.
Fairness ==
  /\ \A t \in Threads : WF_vars(DispatchStep(t))
  /\ \A c \in Conns :
       /\ WF_vars(Teardown(c))
       /\ WF_vars(ReaderStep(c))
       /\ WF_vars(SendCommand(c))
       /\ \A r \in Runs : WF_vars(ProcAdvances(c, r)) /\ SF_vars(ProcFinishes(c, r))
  /\ \A r \in Runs : WF_vars(ChatStep(r)) /\ WF_vars(DeciderNotifies(r))

Spec == Init /\ [][Next]_vars
FairSpec == Spec /\ Fairness

RuntimeTypeOK ==
  /\ workers \in [WorkerIds -> Conns \union {None}]
  /\ conn \in [Conns -> ConnState]
  /\ ctxDone \in [Conns -> BOOLEAN]
  /\ assign \in [Conns -> SUBSET Runs]
  /\ cmds \in [Conns -> Seq(Command)]
  /\ limbo \in [Conns -> SUBSET Runs]
  /\ reader \in [Conns -> ReaderState]

ProcTypeOK ==
  /\ up \in [Conns -> Seq(Update)]
  /\ proc \in [Conns -> [Runs -> ProcState]]

CallerTypeOK ==
  /\ chat \in [Runs -> ChatState]
  /\ decider \in [Runs -> DeciderState]
  /\ disp \in [Threads -> Call]
  /\ faults \in 0 .. MaxFaults

\* The type invariant: the variables of the tables, the service, the worker
\* processes and the callers keep to their types.
TypeOK == RepoTypeOK /\ RuntimeTypeOK /\ ProcTypeOK /\ CallerTypeOK

(***************************************************************************)
(* Safety                                                                  *)
(***************************************************************************)

\* Who is responsible for a run: the workers it is assigned to, the handlers
\* that are about to requeue it, the goroutines that are delivering it.
Holders(r) ==
  {<<"assigned", c>> : c \in {d \in Conns : r \in assign[d]}}
    \union {<<"requeue", c>> : c \in {d \in Conns : r \in limbo[d]}}
    \union {t \in Threads : disp[t].run = r}

\* The run row and its job row never disagree, whichever goroutines' separate
\* transactions interleave: claim, requeue, approval, completion, cancellation.
RunJobAgree ==
  \A r \in Runs :
    /\ run[r] = "queued" => job[r] = "pending"
    /\ Active(r) => job[r] = "in_progress"
    /\ run[r] \in {"absent"} \union Finished => job[r] = run[r]

\* A run that has not ended is in the hands of one goroutine or worker at most,
\* and while it is, nobody else can claim it: two sessions, a teardown and a
\* delivery never own the same run, so no run is requeued or delivered twice.
OneHolder ==
  \A r \in Runs : run[r] \notin Finished =>
    /\ Cardinality(Holders(r)) <= 1
    /\ Holders(r) # {} => job[r] = "in_progress"

\* SendMessage streams until a terminal event of its run: a run that has ended
\* has exactly one, it is the run's last event and it names the outcome; the
\* exception is a run ended by a refused approval, which has none.
TerminalEventOnce ==
  \A r \in Runs :
    LET ends == {i \in DOMAIN log[r] : log[r][i] \in Finished}
    IN  IF run[r] \in Finished /\ approval[r] \notin {"denied", "expired"}
          THEN ends = {Len(log[r])} /\ log[r][Len(log[r])] = run[r]
          ELSE ends = {}

\* jobs.attempt counts what the log shows: every execution attempt has its own
\* agent.run.started, and a job that waits for a worker is one attempt ahead.
StartedPerAttempt ==
  \A r \in Runs :
    LET started == Cardinality({i \in DOMAIN log[r] : log[r][i] = "started"})
    IN  /\ run[r] = "queued" => attempt[r] = started + 1
        /\ Active(r) => attempt[r] = started
        /\ attempt[r] \in started .. started + 1

\* No worker is given more runs than it asked for, however many goroutines
\* dispatch to it at once, the run being delivered to it included.
CapacityRespected ==
  \A c \in Conns :
    Cardinality(assign[c] \union {disp[t].run : t \in {u \in Threads : disp[u].at = c /\ disp[u].run # None}})
      <= MaxConcurrent

\* The lease of a job in progress names the worker that holds the run.
LeaseNamesHolder ==
  \A c \in Conns, r \in Runs :
    r \in assign[c] \union limbo[c] /\ job[r] = "in_progress" => lease[r] = WorkerOf[c]

\* Two sessions never serve the same worker id, and the one that does is the
\* one cancellations and approval notifications are routed to.
OneSessionPerId ==
  \A c \in Conns : conn[c] \in {"accepting", "serving", "dying"} => workers[WorkerOf[c]] = c

\* The status of a run that has ended never changes again, and neither does its
\* job or its log, whatever updates, decisions and requeues are still under way.
FinishedForever ==
  [][\A r \in Runs : run[r] \in Finished =>
       run'[r] = run[r] /\ job'[r] = job[r] /\ log'[r] = log[r]]_vars

\* Nobody lets go of a run that is running: the run is requeued, has ended, or
\* waits for the user's decision when its worker goes away.  (Not so when the
\* orchestrator itself is restarted.)
NeverDropped ==
  [][\A r \in Runs : Holders(r) # {} /\ run'[r] = "running" => Holders(r)' # {}]_vars

\* The connection at which a run is: assigned, being requeued or delivered.
HolderOf(r) ==
  LET at == {c \in Conns : \/ r \in assign[c] \union limbo[c]
                           \/ \E t \in Threads : disp[t].run = r /\ disp[t].at = c}
  IN  IF at = {} THEN None ELSE CHOOSE c \in at : TRUE

Lifecycle == INSTANCE RunLifecycle WITH
  Sessions <- Conns,
  status   <- run,
  holder   <- [r \in Runs |-> HolderOf(r)]

\* Every interleaving of the goroutines, the worker processes and the users is
\* one of the lifecycle's: a run is claimed by one session at a time, completes
\* and is requeued only in its holder's hands, and is let go only when allowed.
ImplementsLifecycle == Lifecycle!LifecycleSpec

(***************************************************************************)
(* Liveness                                                                *)
(***************************************************************************)

\* A run that has ended gives its worker's slot back: by its last update, by
\* the refusal, by the cancel command, or because the stream is torn down.
SlotsFreed ==
  \A c \in Conns, r \in Runs :
    (r \in assign[c] /\ run[r] \in Finished) ~> (r \notin assign[c])

\* A run that is running in somebody's hands ends, is queued again or asks the
\* user: no lost command, disconnection or cancellation leaves it running for ever.
RunningEnds ==
  \A r \in Runs : (run[r] = "running" /\ Holders(r) # {}) ~> (run[r] # "running")

\* While a worker is connected, a queued run is claimed.
QueuedServed ==
  \A r \in Runs :
    (run[r] = "queued" /\ \E c \in Conns : conn[c] = "serving")
      ~> (run[r] # "queued" \/ \A c \in Conns : conn[c] # "serving")

(***************************************************************************)
(* What the design documents say                                           *)
(***************************************************************************)

\* "... are persisted as failed runs, and then the stream ends normally".
FailedStreamEnds == \A r \in Runs : (run[r] = "failed") ~> (chat[r] = "done")

\* "If the internal worker stream disconnects, the orchestrator must lease or
\* requeue unfinished work".
UnfinishedIsHeld == \A r \in Runs : Active(r) => Holders(r) # {}

\* "Approval denial and expiration are normal run outcomes": where no process,
\* network or client fails, the stream of a worker does not end.
StreamsStay == \A c \in Conns : conn[c] # "dying"
=============================================================================
