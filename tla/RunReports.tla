----------------------------- MODULE RunReports -----------------------------
(***************************************************************************)
(* What a worker process promises the orchestrator about the jobs it is    *)
(* given over one stream: a job that was assigned is worked on and ends    *)
(* once, completed or failed; a cancelled one is acknowledged once, and    *)
(* nothing is said of a job after its acknowledgement.  WorkerProcess      *)
(* implements this specification.                                          *)
(***************************************************************************)
CONSTANT Jobs

VARIABLES
  report,  \* what the updates sent so far say of each job
  asked    \* the jobs the orchestrator has cancelled

reportVars == <<report, asked>>

ReportInit ==
  /\ report = [j \in Jobs |-> "none"]
  /\ asked = {}

Reports(j, from, to) ==
  /\ report[j] \in from
  /\ report' = [report EXCEPT ![j] = to]
  /\ UNCHANGED asked

ReportNext ==
  \E j \in Jobs :
    \/ Reports(j, {"none"}, "assigned")
    \/ Reports(j, {"assigned", "working"}, "working")
    \/ Reports(j, {"assigned", "working"}, "ended")
    \/ j \in asked /\ Reports(j, {"assigned", "working", "ended"}, "acked")
    \/ asked' = asked \union {j} /\ UNCHANGED report

ReportSpec == ReportInit /\ [][ReportNext]_reportVars
=============================================================================
