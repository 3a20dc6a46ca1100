----------------------------- MODULE Repository -----------------------------
(***************************************************************************)
(* The run, job and approval rows the orchestrator keeps in SQLite, and    *)
(* the transactions that change them (orchestrator-go/internal/repository).*)
(* The database is opened with one connection, so a method of the          *)
(* repository is one atomic step.  A method is an operator whose guard is  *)
(* the WHERE clause of its UPDATEs: when the guard is false a row count is *)
(* not 1, the transaction rolls back and the caller gets an error.         *)
(*                                                                         *)
(* A run has one job row, and the approval row kept here is the one of the *)
(* run's latest tool call (a tool call that is executed again after a      *)
(* requeue has a fresh id, hence a fresh approval row).                    *)
(***************************************************************************)
EXTENDS Naturals, Sequences

CONSTANTS
  Runs,        \* the runs of the system, one per user message
  WorkerIds,   \* the ids worker processes register under
  None         \* SQL NULL, and the absence of a value

ASSUME NoneIsNotARun == None \notin Runs

VARIABLES
  run,         \* agent_runs.status
  job,         \* jobs.status
  lease,       \* jobs.lease_owner
  attempt,     \* jobs.attempt
  approval,    \* approvals.status of the run's latest approval
  log          \* the agent.run.* events appended for the run, oldest first

repoVars == <<run, job, lease, attempt, approval, log>>

Finished       == {"completed", "failed", "cancelled"}
RunStatus      == {"absent", "queued", "running", "waiting_approval"} \union Finished
JobStatus      == {"absent", "pending", "in_progress"} \union Finished
ApprovalStatus == {"none", "pending", "approved", "denied", "expired", "consumed"}
RunEvent       == {"queued", "started"} \union Finished

RepoTypeOK ==
  /\ run \in [Runs -> RunStatus]
  /\ job \in [Runs -> JobStatus]
  /\ lease \in [Runs -> WorkerIds \union {None}]
  /\ attempt \in [Runs -> Nat]
  /\ approval \in [Runs -> ApprovalStatus]
  /\ log \in [Runs -> Seq(RunEvent)]

RepoInit ==
  /\ run = [r \in Runs |-> "absent"]
  /\ job = [r \in Runs |-> "absent"]
  /\ lease = [r \in Runs |-> None]
  /\ attempt = [r \in Runs |-> 0]
  /\ approval = [r \in Runs |-> "none"]
  /\ log = [r \in Runs |-> <<>>]

(***************************************************************************)
(* Status tests the transactions and their callers share.                  *)
(***************************************************************************)
Active(r)      == run[r] \in {"running", "waiting_approval"}
Cancellable(r) == run[r] = "queued" \/ Active(r)
Claimable(r)   == run[r] = "queued" /\ job[r] = "pending"

\* Mutant: the job's status is checked, the run's is not.
RequeueableByJob(r) == job[r] = "in_progress"

Requeueable(r) == run[r] = "running" /\ job[r] = "in_progress"

\* Mutant: only a claimed job is closed.
CloseClaimedJob(r, s) ==
  job' = [job EXCEPT ![r] = IF @ = "in_progress" THEN s ELSE @]

\* UPDATE jobs SET status = s ... WHERE status IN ('pending','in_progress').
CloseJob(r, s) ==
  job' = [job EXCEPT ![r] = IF @ \in {"pending", "in_progress"} THEN s ELSE @]

AppendRunEvent(r, e) == log' = [log EXCEPT ![r] = Append(@, e)]

(***************************************************************************)
(* Messages and jobs                                                       *)
(***************************************************************************)
EnqueueUserMessage(r) ==
  /\ run[r] = "absent"
  /\ run' = [run EXCEPT ![r] = "queued"]
  /\ job' = [job EXCEPT ![r] = "pending"]
  /\ attempt' = [attempt EXCEPT ![r] = 1]
  /\ AppendRunEvent(r, "queued")
  /\ UNCHANGED <<lease, approval>>

\* Mutant: the lease is not written.
ClaimWithoutLease(r, id) ==
  /\ Claimable(r)
  /\ run' = [run EXCEPT ![r] = "running"]
  /\ job' = [job EXCEPT ![r] = "in_progress"]
  /\ AppendRunEvent(r, "started")
  /\ UNCHANGED <<lease, attempt, approval>>

\* The query orders by created_at, a string that drops trailing zeros of the
\* fraction, and then by a random id: which of several pending jobs comes
\* first is left open.
ClaimNextJob(r, id) ==
  /\ Claimable(r)
  /\ run' = [run EXCEPT ![r] = "running"]
  /\ job' = [job EXCEPT ![r] = "in_progress"]
  /\ lease' = [lease EXCEPT ![r] = id]
  /\ AppendRunEvent(r, "started")
  /\ UNCHANGED <<attempt, approval>>

\* Mutant: the attempt is not counted.
RequeueSameAttempt(r) ==
  /\ Requeueable(r)
  /\ run' = [run EXCEPT ![r] = "queued"]
  /\ job' = [job EXCEPT ![r] = "pending"]
  /\ lease' = [lease EXCEPT ![r] = None]
  /\ UNCHANGED <<attempt, approval, log>>

\* Neither UPDATE looks at lease_owner: whoever passes the ids may requeue.
RequeueClaimedJob(r) ==
  /\ Requeueable(r)
  /\ run' = [run EXCEPT ![r] = "queued"]
  /\ job' = [job EXCEPT ![r] = "pending"]
  /\ lease' = [lease EXCEPT ![r] = None]
  /\ attempt' = [attempt EXCEPT ![r] = @ + 1]
  /\ UNCHANGED <<approval, log>>

(***************************************************************************)
(* The three ways a run ends with an event in the log                      *)
(***************************************************************************)
CompleteRunWithEvent(r) ==
  /\ Active(r)
  /\ run' = [run EXCEPT ![r] = "completed"]
  /\ CloseJob(r, "completed")
  /\ AppendRunEvent(r, "completed")
  /\ UNCHANGED <<lease, attempt, approval>>

FailRunWithEvent(r) ==
  /\ Cancellable(r)
  /\ run' = [run EXCEPT ![r] = "failed"]
  /\ CloseJob(r, "failed")
  /\ AppendRunEvent(r, "failed")
  /\ UNCHANGED <<lease, attempt, approval>>

\* Mutant: a run that has ended can still be cancelled.
CancelAnyRun(r) ==
  /\ run' = [run EXCEPT ![r] = "cancelled"]
  /\ CloseJob(r, "cancelled")
  /\ AppendRunEvent(r, "cancelled")
  /\ UNCHANGED <<lease, attempt, approval>>

CancelRunWithEvent(r) ==
  /\ Cancellable(r)
  /\ run' = [run EXCEPT ![r] = "cancelled"]
  /\ CloseJob(r, "cancelled")
  /\ AppendRunEvent(r, "cancelled")
  /\ UNCHANGED <<lease, attempt, approval>>

(***************************************************************************)
(* Approvals.  Denying or letting expire also ends the run, but appends no *)
(* agent.run.failed event.                                                 *)
(***************************************************************************)
CreateApproval(r) ==
  /\ Cancellable(r)
  /\ approval' = [approval EXCEPT ![r] = "pending"]
  /\ run' = [run EXCEPT ![r] = "waiting_approval"]
  /\ UNCHANGED <<job, lease, attempt, log>>

Undecided(r) == approval[r] = "pending" /\ run[r] = "waiting_approval"

ApproveApproval(r) ==
  /\ Undecided(r)
  /\ approval' = [approval EXCEPT ![r] = "approved"]
  /\ run' = [run EXCEPT ![r] = "running"]
  /\ UNCHANGED <<job, lease, attempt, log>>

\* Mutant: the verdict is written to the run as well.
RefuseRunToo(r, verdict) ==
  /\ Undecided(r)
  /\ approval' = [approval EXCEPT ![r] = verdict]
  /\ run' = [run EXCEPT ![r] = verdict]
  /\ CloseJob(r, "failed")
  /\ UNCHANGED <<lease, attempt, log>>

RefuseApproval(r, verdict) ==
  /\ Undecided(r)
  /\ approval' = [approval EXCEPT ![r] = verdict]
  /\ run' = [run EXCEPT ![r] = "failed"]
  /\ CloseJob(r, "failed")
  /\ lease' = [lease EXCEPT ![r] = IF job[r] \in {"pending", "in_progress"} THEN None ELSE @]
  /\ UNCHANGED <<attempt, log>>

DenyApproval(r)   == RefuseApproval(r, "denied")
ExpireApproval(r) == RefuseApproval(r, "expired")

\* The run's status is not looked at.
ConsumeApproval(r) ==
  /\ approval[r] = "approved"
  /\ approval' = [approval EXCEPT ![r] = "consumed"]
  /\ UNCHANGED <<run, job, lease, attempt, log>>
=============================================================================
