----------------------------- MODULE MCDispatch -----------------------------
(***************************************************************************)
(* Instances of Dispatch for TLC.                                          *)
(***************************************************************************)
EXTENDS Dispatch

\* Every connection is a session of one worker process.
SameId == [c \in Conns |-> CHOOSE i \in WorkerIds : TRUE]

\* Every connection is a worker process of its own, named by its id.
OwnId == [c \in Conns |-> c]
=============================================================================
