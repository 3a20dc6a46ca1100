---------------------------- MODULE MCProcesses ----------------------------
(***************************************************************************)
(* Three parts that share no state, for TLC to check in one run: tool      *)
(* calls and their approvals, a worker process, and the orchestrator's     *)
(* process.  A behaviour is a behaviour of one of them, while the others   *)
(* stay as they begin: nothing fair is enabled there, so that the fairness *)
(* of each holds of all.                                                   *)
(***************************************************************************)
EXTENDS ToolCalls, WorkerProcess, Orchestrator

CONSTANT r1

VARIABLE part

partVars == <<part, vars, processVars, orchestratorVars>>

PartInit ==
  /\ part \in {"tools", "worker", "orchestrator"}
  /\ Init /\ WorkerInit /\ OrchestratorInit

PartNext ==
  /\ UNCHANGED part
  /\ \/ part = "tools" /\ Next /\ UNCHANGED <<processVars, orchestratorVars>>
     \/ part = "worker" /\ WorkerNext /\ UNCHANGED <<vars, orchestratorVars>>
     \/ part = "orchestrator" /\ OrchestratorNext /\ UNCHANGED <<vars, processVars>>

PartSpec ==
  PartInit /\ [][PartNext]_partVars /\ Fairness /\ WorkerFairness /\ OrchestratorFairness

\* Every call is an attempt of the same run.
OneRun == [c \in Calls |-> r1]

\* Every variable of the worker process and of the orchestrator has its type.
ProcessTypeOK == WorkerTypeOK /\ OrchestratorTypeOK
=============================================================================
