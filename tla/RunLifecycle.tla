---------------------------- MODULE RunLifecycle ----------------------------
(***************************************************************************)
(* What the orchestrator promises about a run: where its status may go and *)
(* who may move it.  A run is claimed by one worker session at a time; it  *)
(* completes only in the hands of the session that holds it; it goes back  *)
(* to the queue only from those hands; it may be failed or cancelled under *)
(* them; and its holder lets go of it when it has ended or while it waits  *)
(* for the user's decision.  Dispatch implements this specification.       *)
(***************************************************************************)
CONSTANTS
  Runs,      \* runs
  Sessions,  \* worker sessions
  None       \* no session

VARIABLES
  status,  \* the status of each run
  holder   \* the session that holds it, or None

lifecycleVars == <<status, holder>>

Over == {"completed", "failed", "cancelled"}
Held(r) == holder[r] # None

LifecycleTypeOK ==
  /\ status \in [Runs -> {"absent", "queued", "running", "waiting_approval"} \union Over]
  /\ holder \in [Runs -> Sessions \union {None}]

LifecycleInit ==
  /\ status = [r \in Runs |-> "absent"]
  /\ holder = [r \in Runs |-> None]

Becomes(r, s) == status' = [status EXCEPT ![r] = s]

Submit(r) == status[r] = "absent" /\ Becomes(r, "queued") /\ UNCHANGED holder

Claim(r, s) ==
  /\ status[r] = "queued" /\ ~Held(r)
  /\ Becomes(r, "running")
  /\ holder' = [holder EXCEPT ![r] = s]

GiveBack(r) ==
  /\ status[r] = "running" /\ Held(r)
  /\ Becomes(r, "queued")
  /\ holder' = [holder EXCEPT ![r] = None]

AskUser(r) == status[r] = "running" /\ Held(r) /\ Becomes(r, "waiting_approval") /\ UNCHANGED holder

UserDecides(r) ==
  /\ status[r] = "waiting_approval"
  /\ Becomes(r, "running") \/ Becomes(r, "failed")
  /\ UNCHANGED holder

Complete(r) == status[r] = "running" /\ Held(r) /\ Becomes(r, "completed") /\ UNCHANGED holder

Fail(r) ==
  /\ status[r] \in {"running", "waiting_approval"} /\ Held(r)
  /\ Becomes(r, "failed")
  /\ UNCHANGED holder

Cancel(r) ==
  /\ status[r] \in {"queued", "running", "waiting_approval"}
  /\ Becomes(r, "cancelled")
  /\ UNCHANGED holder

LetGo(r) ==
  /\ status[r] \in Over \union {"waiting_approval"} /\ Held(r)
  /\ holder' = [holder EXCEPT ![r] = None]
  /\ UNCHANGED status

\* The orchestrator is restarted.
Crash == holder' = [r \in Runs |-> None] /\ UNCHANGED status

LifecycleNext ==
  \/ \E r \in Runs :
       \/ Submit(r) \/ GiveBack(r) \/ AskUser(r) \/ UserDecides(r)
       \/ Complete(r) \/ Fail(r) \/ Cancel(r) \/ LetGo(r)
       \/ \E s \in Sessions : Claim(r, s)
  \/ Crash

LifecycleSpec == LifecycleInit /\ [][LifecycleNext]_lifecycleVars
=============================================================================
