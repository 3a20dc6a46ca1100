----------------------------- MODULE ToolCalls -----------------------------
(***************************************************************************)
(* One file-writing tool call after another, from the agent's BEFORE       *)
(* beacon to the file and back:                                            *)
(*   - the goroutine in the worker process that makes the call             *)
(*     (agent-runtime-go/internal/tools, orchestrator, mcp);               *)
(*   - the reader goroutine of the worker's stream, which keeps the        *)
(*     tool_calls rows (service/runtime, repository/toolcalls.go);         *)
(*   - the user's decision and the file server's consumption of the        *)
(*     approval (service/approvals, repository/approvals.go);              *)
(*   - the file server, which serves every request in a goroutine of its   *)
(*     own and goes on when its caller is gone (mcp-files).                *)
(* The agent knows one such call, files.create of one path.  An attempt to *)
(* execute a run makes one call, with a fresh id; a run that is requeued   *)
(* makes its next call in another worker process.                          *)
(***************************************************************************)
EXTENDS Naturals, Sequences, FiniteSets

CONSTANTS
  Runs,      \* the runs that ask for a file
  Calls,     \* the tool calls, one per execution attempt of a run
  RunOf,     \* the run a call is made for
  None       \* no file

ASSUME ToolCallsAssumption ==
  /\ RunOf \in [Calls -> Runs]
  /\ None \notin Calls

VARIABLES
  run,       \* agent_runs.status
  row,       \* tool_calls.status of each call
  approval,  \* approvals.status of each call
  old,       \* the calls whose approval is a minute old
  decider,   \* where a client's ApproveApproval of a call is
  pc,        \* where the goroutine that makes the call is
  outcome,   \* the status of its AFTER beacon
  up,        \* its updates on the stream, not read yet
  reader,    \* where the reader goroutine is
  request,   \* where the file server is with the call's request
  file,      \* the call the file was created by
  wrote      \* the calls whose write has succeeded

rowVars    == <<run, row, approval>>
workerVars == <<pc, outcome, up>>
fileVars   == <<request, file, wrote>>
vars == <<rowVars, old, decider, workerVars, reader, fileVars>>

RunStatus      == {"queued", "running", "waiting_approval", "completed", "failed", "cancelled"}
RowStatus      == {"absent", "requested", "approval_required", "completed", "failed", "denied"}
ApprovalStatus == {"absent", "pending", "approved", "denied", "expired", "consumed"}
PC       == {"idle", "before", "waiting", "calling", "after", "done", "gone", "requeued"}
Outcome  == {"none", "completed", "failed", "denied"}
Reader   == {"idle", "before", "recorded", "asked", "after", "answered"}
Request  == {"none", "received", "consumed", "absent", "written", "refused"}

Init ==
  /\ run = [r \in Runs |-> "queued"]
  /\ row = [c \in Calls |-> "absent"]
  /\ approval = [c \in Calls |-> "absent"]
  /\ old = {}
  /\ decider = [c \in Calls |-> "idle"]
  /\ pc = [c \in Calls |-> "idle"]
  /\ outcome = [c \in Calls |-> "none"]
  /\ up = [c \in Calls |-> <<>>]
  /\ reader = [c \in Calls |-> "idle"]
  /\ request = [c \in Calls |-> "none"]
  /\ file = None
  /\ wrote = {}

CallsOf(r)     == {c \in Calls : RunOf[c] = r}
StatusOf(c)    == run[RunOf[c]]
Active(c)      == StatusOf(c) \in {"running", "waiting_approval"}
Cancellable(c) == StatusOf(c) = "queued" \/ Active(c)
Waiting(c)     == StatusOf(c) = "waiting_approval"
SetRun(c, s)   == run' = [run EXCEPT ![RunOf[c]] = s]

\* The stream the call's worker process is connected by is open.
Connected(c) == pc[c] \notin {"idle", "gone", "requeued"}

(***************************************************************************)
(* The goroutine in the worker process: Runner.Run.                        *)
(***************************************************************************)
Goes(c, to, posts) ==
  /\ pc' = [pc EXCEPT ![c] = to]
  /\ up' = [up EXCEPT ![c] = @ \o posts]

\* The run is claimed and handed to a process, whose agent posts the beacon.
Begin(c) ==
  /\ pc[c] = "idle"
  /\ StatusOf(c) = "queued"
  /\ SetRun(c, "running")
  /\ Goes(c, "before", <<"before">>)
  /\ UNCHANGED <<row, approval, old, decider, outcome, reader, fileVars>>

\* postAfter
PostsAfter(c, status) ==
  /\ outcome' = [outcome EXCEPT ![c] = status]
  /\ Goes(c, "after", <<"after">>)
  /\ UNCHANGED <<rowVars, old, decider, reader, file, wrote>>

\* WaitForApprovalToken polls once more; with a token the file server is called.
PollApproved(c) ==
  /\ pc[c] = "waiting"
  /\ approval[c] = "approved"
  /\ Goes(c, "calling", <<>>)
  /\ request' = [request EXCEPT ![c] = "received"]
  /\ UNCHANGED <<rowVars, old, decider, outcome, reader, file, wrote>>

PollRefused(c) ==
  /\ pc[c] = "waiting"
  /\ approval[c] \in {"denied", "expired", "consumed"}
  /\ PostsAfter(c, "denied")
  /\ UNCHANGED request

\* Mutant: only the verdict ends the wait.
NeverTimesOut(c) ==
  /\ pc[c] = "waiting"
  /\ approval[c] = "expired"
  /\ PostsAfter(c, "denied")
  /\ UNCHANGED request

\* Its 65 seconds are over, and whatever the row says now.
PollTimesOut(c) ==
  /\ pc[c] = "waiting"
  /\ c \in old
  /\ PostsAfter(c, "denied")
  /\ UNCHANGED request

\* GetApprovalState fails.
PollFails(c) ==
  /\ pc[c] = "waiting"
  /\ PostsAfter(c, "denied")
  /\ UNCHANGED request

CallAnswered(c) ==
  /\ pc[c] = "calling"
  /\ request[c] \in {"written", "refused"}
  /\ PostsAfter(c, IF request[c] = "written" THEN "completed" ELSE "failed")
  /\ UNCHANGED request

\* Mutant: a call without an answer is reported as one that was not made.
CallLostDenied(c) ==
  /\ pc[c] = "calling"
  /\ PostsAfter(c, "denied")
  /\ UNCHANGED request

\* The connection breaks, or the answer cannot be decoded.
CallLost(c) ==
  /\ pc[c] = "calling"
  /\ PostsAfter(c, "failed")
  /\ UNCHANGED request

\* The cancel command reaches the process: whatever the goroutine waits for fails,
\* and it posts its AFTER beacon and the run's end without waiting for a decision.
Interrupted(c) ==
  /\ StatusOf(c) = "cancelled"
  /\ pc[c] \in {"before", "waiting", "calling", "after"}
  /\ outcome' = [outcome EXCEPT ![c] =
       IF pc[c] = "after" THEN @ ELSE IF pc[c] = "waiting" THEN "denied" ELSE "failed"]
  /\ Goes(c, "done", IF pc[c] = "after" THEN <<"end">> ELSE <<"after", "end">>)
  /\ UNCHANGED <<rowVars, old, decider, reader, fileVars>>

WorkerStep(c) ==
  \/ PollApproved(c) \/ PollRefused(c) \/ PollTimesOut(c)
  \/ CallAnswered(c) \/ Interrupted(c)

(***************************************************************************)
(* The stream of the process ends: it exits, and what the orchestrator has *)
(* not read is gone.  The run is requeued some time later, if it can be.   *)
(***************************************************************************)
StreamEnds(c) ==
  /\ pc' = [pc EXCEPT ![c] = "gone"]
  /\ up' = [up EXCEPT ![c] = <<>>]
  /\ reader' = [reader EXCEPT ![c] = "idle"]

WorkerDrops(c) ==
  /\ Connected(c)
  /\ StreamEnds(c)
  /\ UNCHANGED <<rowVars, old, decider, outcome, fileVars>>

\* RequeueClaimedJob; its failure is ignored.
Requeue(c) ==
  /\ pc[c] = "gone"
  /\ pc' = [pc EXCEPT ![c] = "requeued"]
  /\ IF StatusOf(c) = "running" THEN SetRun(c, "queued") ELSE UNCHANGED run
  /\ UNCHANGED <<row, approval, old, decider, outcome, up, reader, fileVars>>

(***************************************************************************)
(* The reader goroutine: handleToolBeacon, then handleToolBefore or        *)
(* handleToolAfter, a transaction at a time.  An error ends the stream.    *)
(***************************************************************************)
ReadsNext(c, kind) == Connected(c) /\ reader[c] = "idle" /\ up[c] # <<>> /\ Head(up[c]) = kind

Reads(c, kind, to) ==
  /\ ReadsNext(c, kind)
  /\ Active(c)
  /\ up' = [up EXCEPT ![c] = Tail(@)]
  /\ reader' = [reader EXCEPT ![c] = to]
  /\ UNCHANGED <<rowVars, old, decider, pc, outcome, fileVars>>

ReadsBefore(c) == Reads(c, "before", "before")
ReadsAfter(c)  == Reads(c, "after", "after")

RecordToolCallBefore(c) ==
  /\ reader[c] = "before"
  /\ row' = [row EXCEPT ![c] = "requested"]
  /\ reader' = [reader EXCEPT ![c] = "recorded"]
  /\ UNCHANGED <<run, approval, old, decider, workerVars, fileVars>>

\* Mutant: the run is left as it is.
CreateApprovalOnly(c) ==
  /\ reader[c] = "recorded" /\ Cancellable(c)
  /\ approval' = [approval EXCEPT ![c] = "pending"]
  /\ row' = [row EXCEPT ![c] = "approval_required"]
  /\ reader' = [reader EXCEPT ![c] = "asked"]
  /\ UNCHANGED <<run, old, decider, workerVars, fileVars>>

CreateApproval(c) ==
  /\ reader[c] = "recorded" /\ Cancellable(c)
  /\ approval' = [approval EXCEPT ![c] = "pending"]
  /\ row' = [row EXCEPT ![c] = "approval_required"]
  /\ SetRun(c, "waiting_approval")
  /\ reader' = [reader EXCEPT ![c] = "asked"]
  /\ UNCHANGED <<old, decider, workerVars, fileVars>>

\* The decision is delivered; a goroutine that has stopped waiting ignores it.
DecisionDelivered(c) ==
  /\ reader[c] = "asked"
  /\ pc' = [pc EXCEPT ![c] = IF @ = "before" THEN "waiting" ELSE @]
  /\ reader' = [reader EXCEPT ![c] = "idle"]
  /\ UNCHANGED <<rowVars, old, decider, outcome, up, fileVars>>

RecordToolCallAfter(c) ==
  /\ reader[c] = "after"
  /\ row' = [row EXCEPT ![c] = outcome[c]]
  /\ reader' = [reader EXCEPT ![c] = "answered"]
  /\ UNCHANGED <<run, approval, old, decider, workerVars, fileVars>>

\* The goroutine goes on to report the run as completed or failed.
AfterAnswered(c) ==
  /\ reader[c] = "answered"
  /\ IF pc[c] = "after" THEN Goes(c, "done", <<"end">>) ELSE UNCHANGED <<pc, up>>
  /\ reader' = [reader EXCEPT ![c] = "idle"]
  /\ UNCHANGED <<rowVars, old, decider, outcome, fileVars>>

\* CompleteRunWithEvent or FailRunWithEvent.
ReadsEnd(c) ==
  /\ ReadsNext(c, "end")
  /\ IF outcome[c] = "completed"
       THEN Active(c) /\ SetRun(c, "completed")
       ELSE Cancellable(c) /\ SetRun(c, "failed")
  /\ up' = [up EXCEPT ![c] = Tail(@)]
  /\ UNCHANGED <<row, approval, old, decider, pc, outcome, reader, fileVars>>

\* The run has ended meanwhile.
ReaderRejects(c) ==
  /\ ~Active(c)
  /\ reader[c] = "recorded" \/ \E kind \in {"before", "after", "end"} : ReadsNext(c, kind)
  /\ StreamEnds(c)
  /\ UNCHANGED <<rowVars, old, decider, outcome, fileVars>>

ReaderStep(c) ==
  \/ ReadsBefore(c) \/ RecordToolCallBefore(c) \/ CreateApproval(c) \/ DecisionDelivered(c)
  \/ ReadsAfter(c) \/ RecordToolCallAfter(c) \/ AfterAnswered(c) \/ ReadsEnd(c)
  \/ ReaderRejects(c)

(***************************************************************************)
(* The user.  ApproveApproval reads the row, looks at the clock, signs a   *)
(* token and commits; it expires an approval that is too old, and nothing  *)
(* else does.                                                              *)
(***************************************************************************)
Ages(c) ==
  /\ approval[c] # "absent"
  /\ c \notin old
  /\ old' = old \union {c}
  /\ UNCHANGED <<rowVars, decider, workerVars, reader, fileVars>>

\* Mutant: the verdict is written to the run as well.
DecidesRunToo(c, verdict, status) ==
  /\ approval[c] = "pending" /\ Waiting(c)
  /\ approval' = [approval EXCEPT ![c] = verdict]
  /\ SetRun(c, verdict)
  /\ UNCHANGED <<row, old, workerVars, reader, fileVars>>

Decides(c, verdict, status) ==
  /\ approval[c] = "pending" /\ Waiting(c)
  /\ approval' = [approval EXCEPT ![c] = verdict]
  /\ SetRun(c, status)
  /\ UNCHANGED <<row, old, workerVars, reader, fileVars>>

ApproveReads(c) ==
  /\ decider[c] = "idle"
  /\ approval[c] = "pending" /\ c \notin old
  /\ decider' = [decider EXCEPT ![c] = "signed"]
  /\ UNCHANGED <<rowVars, old, workerVars, reader, fileVars>>

ApproveCommits(c) ==
  /\ decider[c] = "signed"
  /\ decider' = [decider EXCEPT ![c] = "idle"]
  /\ \/ Decides(c, "approved", "running")
     \/ /\ approval[c] # "pending" \/ ~Waiting(c)
        /\ UNCHANGED <<rowVars, old, workerVars, reader, fileVars>>

ExpireApproval(c) == c \in old /\ Decides(c, "expired", "failed") /\ UNCHANGED decider
DenyApproval(c)   == Decides(c, "denied", "failed") /\ UNCHANGED decider

CancelRun(r) ==
  /\ run[r] \in {"queued", "running", "waiting_approval"}
  /\ run' = [run EXCEPT ![r] = "cancelled"]
  /\ UNCHANGED <<row, approval, old, decider, workerVars, reader, fileVars>>

(***************************************************************************)
(* The file server: Validate, then Create.  Nothing here looks at the run. *)
(***************************************************************************)
Serves(c, from, to) ==
  /\ request[c] = from
  /\ request' = [request EXCEPT ![c] = to]
  /\ UNCHANGED <<run, row, old, decider, workerVars, reader>>

\* Mutant: the token is verified and not consumed.
ValidateOnly(c) ==
  /\ Serves(c, "received", "consumed")
  /\ UNCHANGED <<approval, file, wrote>>

\* The consumption commits; its answer may be lost, or come after 10 seconds.
ConsumeApproval(c) ==
  /\ approval[c] = "approved"
  /\ approval' = [approval EXCEPT ![c] = "consumed"]
  /\ Serves(c, "received", "consumed") \/ Serves(c, "received", "refused")
  /\ UNCHANGED <<file, wrote>>

\* The token has expired, or the orchestrator cannot be reached or refuses.
ValidateFails(c) ==
  /\ Serves(c, "received", "refused")
  /\ UNCHANGED <<approval, file, wrote>>

\* Mutant: the existing file is not looked for.
StatNothing(c) ==
  /\ Serves(c, "consumed", "absent")
  /\ UNCHANGED <<approval, file, wrote>>

Stat(c) ==
  /\ Serves(c, "consumed", IF file = None THEN "absent" ELSE "refused")
  /\ UNCHANGED <<approval, file, wrote>>

WriteFile(c) ==
  /\ Serves(c, "absent", "written")
  /\ file' = c
  /\ wrote' = wrote \union {c}
  /\ UNCHANGED approval

\* The directory cannot be made, or the file is made and not filled.
WriteFails(c) ==
  /\ Serves(c, "absent", "refused")
  /\ file' \in {file, c}
  /\ UNCHANGED <<approval, wrote>>

ServerStep(c) ==
  ConsumeApproval(c) \/ ValidateFails(c) \/ Stat(c) \/ WriteFile(c) \/ WriteFails(c)

UserStep(c) ==
  ApproveReads(c) \/ ApproveCommits(c) \/ ExpireApproval(c) \/ DenyApproval(c)

Next ==
  \/ \E c \in Calls :
       \/ Begin(c) \/ WorkerStep(c) \/ PollFails(c) \/ CallLost(c)
       \/ WorkerDrops(c) \/ Requeue(c)
       \/ ReaderStep(c) \/ Ages(c) \/ UserStep(c) \/ ServerStep(c)
  \/ \E r \in Runs : CancelRun(r)

\* While the worker, its stream's reader or the file server can go on with a call,
\* one of them does, and time passes; nobody has to decide anything, and no worker
\* has to turn up.
CallStep(c) == WorkerStep(c) \/ Requeue(c) \/ ReaderStep(c) \/ ServerStep(c)

Fairness == \A c \in Calls : WF_vars(CallStep(c)) /\ WF_vars(Ages(c))

Spec == Init /\ [][Next]_vars /\ Fairness

TypeOK ==
  /\ run \in [Runs -> RunStatus]
  /\ row \in [Calls -> RowStatus]
  /\ approval \in [Calls -> ApprovalStatus]
  /\ old \in SUBSET Calls
  /\ decider \in [Calls -> {"idle", "signed"}]
  /\ pc \in [Calls -> PC]
  /\ outcome \in [Calls -> Outcome]
  /\ up \in [Calls -> Seq({"before", "after", "end"})]
  /\ reader \in [Calls -> Reader]
  /\ request \in [Calls -> Request]
  /\ file \in Calls \union {None}
  /\ wrote \in SUBSET Calls

(***************************************************************************)
(* Safety                                                                  *)
(***************************************************************************)

\* The tool_calls row never lies about the file, though it is written by another
\* process than the one that writes the file, after lost answers, timeouts and
\* late approvals: completed means written, denied means never written.
RowsTellTheTruth ==
  \A c \in Calls :
    /\ row[c] = "completed" => c \in wrote
    /\ row[c] = "denied" => c \notin wrote /\ request[c] = "none"

\* A file is written, or about to be, for a call whose approval is consumed, and
\* for no other: not one that was denied, expired or is still being decided.
WrittenByConsent ==
  \A c \in Calls :
    request[c] \in {"consumed", "absent", "written"} => approval[c] = "consumed"

\* A run waits for the user exactly when one of its calls has an approval to
\* decide: no attempt's question is mixed up with another's.
WaitingIsAsked ==
  \A r \in Runs :
    LET asked == {c \in CallsOf(r) : approval[c] = "pending"}
    IN  /\ run[r] = "waiting_approval" => Cardinality(asked) = 1
        /\ run[r] \in {"queued", "running", "completed"} => asked = {}

\* Of the calls of a run that is executed again, one at most reports the file as
\* created; a run that completes has one that does.
CreatedOncePerRun ==
  \A r \in Runs :
    LET created == {c \in CallsOf(r) : row[c] = "completed"}
    IN  /\ Cardinality(created) <= 1
        /\ run[r] = "completed" => created # {}

(***************************************************************************)
(* Liveness                                                                *)
(***************************************************************************)

\* The calls that were begun always come to an end, whatever the user, the network
\* and the file server do: no goroutine waits for ever.
CallsEnd == []<>(\A c \in Calls : pc[c] \in {"idle", "done", "requeued"})
=============================================================================
