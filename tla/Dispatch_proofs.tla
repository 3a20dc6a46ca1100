-------------------------- MODULE Dispatch_proofs --------------------------
(***************************************************************************)
(* Theorems about Dispatch, for any number of runs, connections, slots and *)
(* faults: its types, who holds a run, and what the log, the attempts and  *)
(* the lease of a run say.                                                 *)
(***************************************************************************)
EXTENDS Dispatch, FiniteSetTheorems, TLAPS

(***************************************************************************)
(* What a step may do to the tables: nothing, or one transaction.          *)
(***************************************************************************)
KeepStep ==
  \/ UNCHANGED repoVars
  \/ \E r \in Runs :
       \/ EnqueueUserMessage(r)
       \/ CompleteRunWithEvent(r) \/ FailRunWithEvent(r) \/ CancelRunWithEvent(r)
       \/ CreateApproval(r) /\ \E c \in Conns : reader[c] = At("checked", r) /\ ~ctxDone[c]
       \/ ApproveApproval(r) \/ DenyApproval(r) \/ ExpireApproval(r) \/ ConsumeApproval(r)
       \/ \E id \in WorkerIds : ClaimNextJob(r, id)

RepoStep == KeepStep \/ \E r \in Runs : RequeueClaimedJob(r)

\* The steps of the system one by one.
LEMMA NextCases ==
  [Next]_vars =>
    \/ UNCHANGED vars
    \/ \E t \in Threads :
         \/ DispatchStart(t) \/ DispatchError(t)
         \/ \E c \in Conns :
              \/ DispatchPass(t, c) \/ DispatchNoJob(t, c)
              \/ \E r \in Runs :
                   DispatchClaim(t, c, r) \/ DispatchDeliver(t, c, r) \/ DispatchAbort(t, c, r)
    \/ \E c \in Conns :
         \/ Connect(c) \/ ClientDrop(c) \/ HandlerLeaves(c) \/ SendFails(c)
         \/ Deregister(c) \/ Close(c) \/ HandlerReturns(c)
         \/ ReaderStep(c) \/ SendCommand(c)
         \/ \E r \in Runs : RequeueLimbo(c, r) \/ ProcStreams(c, r) \/ ProcAdvances(c, r)
    \/ \E r \in Runs : RunStep(r)
    \/ Restart
<1>1. \A t \in Threads : DispatchStep(t) =>
         \/ DispatchStart(t) \/ DispatchError(t)
         \/ \E c \in Conns :
              \/ DispatchPass(t, c) \/ DispatchNoJob(t, c)
              \/ \E r \in Runs :
                   DispatchClaim(t, c, r) \/ DispatchDeliver(t, c, r) \/ DispatchAbort(t, c, r)
  BY Zenon DEF DispatchStep
<1>2. \A c \in Conns : ConnStep(c) =>
         \/ Connect(c) \/ ClientDrop(c) \/ HandlerLeaves(c) \/ SendFails(c)
         \/ Deregister(c) \/ Close(c) \/ HandlerReturns(c)
         \/ ReaderStep(c) \/ SendCommand(c)
         \/ \E r \in Runs : RequeueLimbo(c, r) \/ ProcStreams(c, r) \/ ProcAdvances(c, r)
  BY Zenon DEF ConnStep, Teardown
<1> QED
  BY <1>1, <1>2, Zenon DEF Next

\* Only a goroutine that aborts a delivery and a handler that tears a worker
\* down put a run back in the queue.
LEMMA StepKinds ==
  TypeOK /\ [Next]_vars =>
    \/ KeepStep
    \/ \E t \in Threads, c \in Conns, r \in Runs : DispatchAbort(t, c, r)
    \/ \E c \in Conns, r \in Runs : RequeueLimbo(c, r)
<1> SUFFICES ASSUME TypeOK, [Next]_vars,
                    \A t \in Threads, c \in Conns, r \in Runs : ~DispatchAbort(t, c, r),
                    \A c \in Conns, r \in Runs : ~RequeueLimbo(c, r)
             PROVE  KeepStep
  OBVIOUS
<1>1. CASE UNCHANGED vars \/ Restart
  BY <1>1 DEF vars, Restart, KeepStep
<1>2. ASSUME NEW t \in Threads, DispatchStart(t) \/ DispatchError(t) PROVE KeepStep
  BY <1>2 DEF DispatchStart, DispatchError, KeepStep
<1>3. ASSUME NEW t \in Threads, NEW c \in Conns, DispatchPass(t, c) \/ DispatchNoJob(t, c)
      PROVE  KeepStep
  BY <1>3 DEF DispatchPass, DispatchNoJob, KeepStep
<1>4. ASSUME NEW t \in Threads, NEW c \in Conns, NEW r \in Runs,
             DispatchClaim(t, c, r) \/ DispatchDeliver(t, c, r)
      PROVE  KeepStep
  <2>1. WorkerOf[c] \in WorkerIds
    BY DispatchAssumption
  <2> QED
    BY <1>4, <2>1 DEF DispatchClaim, DispatchDeliver, KeepStep
<1>5. ASSUME NEW c \in Conns,
             \/ Connect(c) \/ ClientDrop(c) \/ HandlerLeaves(c) \/ SendFails(c)
             \/ Deregister(c) \/ Close(c) \/ HandlerReturns(c) \/ SendCommand(c)
      PROVE  KeepStep
  BY <1>5 DEF Connect, ClientDrop, HandlerLeaves, SendFails, Deregister, Close, HandlerReturns,
              SendCommand, KeepStep
<1>6. ASSUME NEW c \in Conns, ReaderStep(c) PROVE KeepStep
  <2>1. ASSUME NEW k \in {"event", "beacon", "before", "completed", "empty", "failed", "ack"},
               NEW r \in Runs,
               \/ ReaderRejects(c, Msg(k, r))
               \/ ReaderNotes(c, Msg(k, r))
               \/ ReaderEnds(c, Msg(k, r))
        PROVE  KeepStep
    BY <2>1 DEF ReaderRejects, ReaderNotes, ReaderEnds, Msg, KeepStep
  <2>2. CASE ReaderAsks(c)
    <3>1. reader[c].run \in Runs /\ reader[c] = At("checked", reader[c].run)
      BY <2>2 DEF ReaderAsks, At, TypeOK, RuntimeTypeOK, ReaderState, AtRun
    <3> QED
      BY <2>2, <3>1 DEF ReaderAsks, KeepStep
  <2>3. CASE ReaderAnswers(c) \/ ReaderQuits(c) \/ ReaderReleases(c)
    BY <2>3 DEF ReaderAnswers, ReaderQuits, ReaderReleases, KeepStep
  <2> QED
    BY <1>6, <2>1, <2>2, <2>3 DEF ReaderStep
<1>7. ASSUME NEW c \in Conns, NEW r \in Runs, ProcStreams(c, r) \/ ProcAdvances(c, r) PROVE KeepStep
  BY <1>7 DEF ProcStreams, ProcAdvances, ProcCallsTool, ProcApproved, ProcRefused, ProcFinishes, KeepStep
<1>8. ASSUME NEW r \in Runs, RunStep(r) PROVE KeepStep
  BY <1>8 DEF RunStep, SendMessage, ChatHangsUp, ChatStep, ChatEnds, ChatCancels, CancelRun,
              ChatTells, Decide, DeciderNotifies, KeepStep
<1> QED
  BY <1>1, <1>2, <1>3, <1>4, <1>5, <1>6, <1>7, <1>8, NextCases

\* Every step of the system is one transaction on the tables at most.
LEMMA NextIsRepoStep == TypeOK /\ [Next]_vars => RepoStep
<1>1. ASSUME NEW t \in Threads, NEW c \in Conns, NEW r \in Runs, DispatchAbort(t, c, r)
      PROVE  RepoStep
  BY <1>1 DEF DispatchAbort, RequeueOrDrop, RepoStep, KeepStep
<1>2. ASSUME NEW c \in Conns, NEW r \in Runs, RequeueLimbo(c, r) PROVE RepoStep
  BY <1>2 DEF RequeueLimbo, RequeueOrDrop, RepoStep, KeepStep
<1> QED
  BY <1>1, <1>2, StepKinds DEF RepoStep

(***************************************************************************)
(* Types                                                                   *)
(***************************************************************************)
LEMMA RepoTypes == RepoTypeOK /\ RepoStep => RepoTypeOK'
<1> SUFFICES ASSUME RepoTypeOK, RepoStep PROVE RepoTypeOK'
  OBVIOUS
<1> USE DEF RepoTypeOK, RunStatus, JobStatus, ApprovalStatus, RunEvent, Finished
<1>1. CASE UNCHANGED repoVars
  BY <1>1 DEF repoVars
<1>2. ASSUME NEW r \in Runs, EnqueueUserMessage(r) PROVE RepoTypeOK'
  BY <1>2 DEF EnqueueUserMessage, AppendRunEvent
<1>3. ASSUME NEW r \in Runs, NEW id \in WorkerIds, ClaimNextJob(r, id) PROVE RepoTypeOK'
  BY <1>3 DEF ClaimNextJob, AppendRunEvent
<1>4. ASSUME NEW r \in Runs, RequeueClaimedJob(r) PROVE RepoTypeOK'
  BY <1>4 DEF RequeueClaimedJob
<1>5. ASSUME NEW r \in Runs,
             CompleteRunWithEvent(r) \/ FailRunWithEvent(r) \/ CancelRunWithEvent(r)
      PROVE  RepoTypeOK'
  <2>1. CASE CompleteRunWithEvent(r)
    BY <2>1 DEF CompleteRunWithEvent, CloseJob, AppendRunEvent
  <2>2. CASE FailRunWithEvent(r)
    BY <2>2 DEF FailRunWithEvent, CloseJob, AppendRunEvent
  <2>3. CASE CancelRunWithEvent(r)
    BY <2>3 DEF CancelRunWithEvent, CloseJob, AppendRunEvent
  <2> QED
    BY <1>5, <2>1, <2>2, <2>3
<1>6. ASSUME NEW r \in Runs, CreateApproval(r) \/ ApproveApproval(r) \/ ConsumeApproval(r)
      PROVE  RepoTypeOK'
  BY <1>6 DEF CreateApproval, ApproveApproval, ConsumeApproval
<1>7. ASSUME NEW r \in Runs, DenyApproval(r) \/ ExpireApproval(r) PROVE RepoTypeOK'
  BY <1>7 DEF DenyApproval, ExpireApproval, RefuseApproval, CloseJob
<1> QED
  BY <1>1, <1>2, <1>3, <1>4, <1>5, <1>6, <1>7 DEF RepoStep, KeepStep

LEMMA Unchanged ==
  /\ RuntimeTypeOK /\ UNCHANGED runtimeVars => RuntimeTypeOK'
  /\ ProcTypeOK /\ UNCHANGED procVars => ProcTypeOK'
  /\ CallerTypeOK /\ UNCHANGED <<callerVars, disp, faults>> => CallerTypeOK'
BY DEF RuntimeTypeOK, ProcTypeOK, CallerTypeOK, runtimeVars, procVars, callerVars

\* DispatchPending returns or goes on.
LEMMA ReturnTypes ==
  ASSUME TypeOK, NEW t \in Threads,
         NEW ok \in BOOLEAN, Return(t, ok),
         UNCHANGED <<workers, ctxDone, assign, cmds, limbo, procVars>>, faults' \in 0 .. MaxFaults
  PROVE  RuntimeTypeOK' /\ ProcTypeOK' /\ CallerTypeOK'
<1>1. NoCall \in Call
  BY DEF NoCall, Call
<1>2. At("idle", None) \in ReaderState /\ At("err", None) \in ReaderState
  BY DEF At, ReaderState, AtRun
<1>3. disp' \in [Threads -> Call]
  BY <1>1 DEF Return, TypeOK, CallerTypeOK
<1>4. ProcTypeOK'
  BY Unchanged DEF TypeOK
<1>5. conn' \in [Conns -> ConnState] /\ reader' \in [Conns -> ReaderState]
  BY <1>2 DEF Return, TypeOK, RuntimeTypeOK, ConnState, callerVars
<1>6. chat' \in [Runs -> ChatState] /\ decider' \in [Runs -> DeciderState]
  BY DEF Return, TypeOK, CallerTypeOK, ChatState, DeciderState, callerVars
<1> QED
  BY <1>3, <1>4, <1>5, <1>6 DEF TypeOK, RuntimeTypeOK, CallerTypeOK

LEMMA ContinueTypes ==
  ASSUME TypeOK, NEW t \in Threads,
         NEW left \in SUBSET Conns, Continue(t, left),
         UNCHANGED <<workers, ctxDone, assign, cmds, limbo, procVars, faults>>
  PROVE  RuntimeTypeOK' /\ ProcTypeOK' /\ CallerTypeOK'
<1>1. CASE left = {}
  BY <1>1, ReturnTypes DEF Continue, TypeOK, CallerTypeOK
<1>2. CASE left # {}
  <2>1. [on |-> TRUE, todo |-> left, at |-> None, run |-> None] \in Call
    BY DEF Call
  <2>2. disp' \in [Threads -> Call] /\ Stay
    BY <1>2, <2>1 DEF Continue, TypeOK, CallerTypeOK
  <2> QED
    BY <2>2, Unchanged DEF TypeOK, RuntimeTypeOK, CallerTypeOK, Stay, callerVars
<1> QED
  BY <1>1, <1>2

OtherTypesOK == RuntimeTypeOK /\ ProcTypeOK /\ CallerTypeOK

LEMMA HeadTail ==
  ASSUME NEW S, NEW s \in Seq(S), s # <<>>
  PROVE  Head(s) \in S /\ Tail(s) \in Seq(S)
OBVIOUS

LEMMA FaultTypes == \A kind : TypeOK /\ Fault(kind) => faults' \in 0 .. MaxFaults
BY DispatchAssumption DEF TypeOK, CallerTypeOK, Fault

LEMMA MsgTypes ==
  /\ \A r \in Runs, k \in {"assigned", "cancelled", "decision", "ask", "updated"} : Msg(k, r) \in Command
  /\ \A r \in Runs, k \in {"event", "beacon", "before", "completed", "empty", "failed", "ack"} :
       Msg(k, r) \in Update
BY DEF Msg, Command, Update

LEMMA DispatchTypes ==
  ASSUME TypeOK, NEW t \in Threads, DispatchStep(t)
  PROVE  OtherTypesOK'
<1> USE DEF OtherTypesOK
<1>1. CASE DispatchStart(t)
  BY <1>1, ContinueTypes DEF DispatchStart, Registered
<1>2. CASE DispatchError(t)
  <2>1. faults' \in 0 .. MaxFaults
    BY <1>2, FaultTypes DEF DispatchError, CallerCancelled, TypeOK, CallerTypeOK
  <2> QED
    BY <1>2, <2>1, ReturnTypes DEF DispatchError
<1>3. ASSUME NEW c \in Conns, DispatchPass(t, c) PROVE OtherTypesOK'
  <2>1. disp[t].todo \ {c} \in SUBSET Conns
    BY DEF TypeOK, CallerTypeOK, Call
  <2> QED
    BY <1>3, <2>1, ContinueTypes DEF DispatchPass
<1>4. ASSUME NEW c \in Conns, DispatchNoJob(t, c) PROVE OtherTypesOK'
  <2>1. faults' \in 0 .. MaxFaults
    BY <1>4 DEF DispatchNoJob, TypeOK, CallerTypeOK
  <2> QED
    BY <1>4, <2>1, ReturnTypes DEF DispatchNoJob
<1>5. ASSUME NEW c \in Conns, NEW r \in Runs, DispatchClaim(t, c, r) PROVE OtherTypesOK'
  <2>1. [on |-> TRUE, todo |-> disp[t].todo, at |-> c, run |-> r] \in Call
    BY DEF TypeOK, CallerTypeOK, Call
  <2>2. disp' \in [Threads -> Call]
    BY <1>5, <2>1 DEF DispatchClaim, TypeOK, CallerTypeOK
  <2> QED
    BY <1>5, <2>2, Unchanged DEF DispatchClaim, Stay, TypeOK, CallerTypeOK, RuntimeTypeOK, callerVars
<1>6. ASSUME NEW c \in Conns, NEW r \in Runs, DispatchDeliver(t, c, r) PROVE OtherTypesOK'
  <2>1. [disp[t] EXCEPT !.run = None] \in Call
    BY DEF TypeOK, CallerTypeOK, Call
  <2>2. disp' \in [Threads -> Call]
    BY <1>6, <2>1 DEF DispatchDeliver, TypeOK, CallerTypeOK
  <2>3. cmds' \in [Conns -> Seq(Command)] /\ assign' \in [Conns -> SUBSET Runs]
    BY <1>6, MsgTypes DEF DispatchDeliver, TypeOK, RuntimeTypeOK
  <2> QED
    BY <1>6, <2>2, <2>3, Unchanged DEF DispatchDeliver, Stay, TypeOK, CallerTypeOK, RuntimeTypeOK, callerVars
<1>7. ASSUME NEW c \in Conns, NEW r \in Runs, DispatchAbort(t, c, r) PROVE OtherTypesOK'
  <2>1. faults' \in 0 .. MaxFaults
    BY <1>7, FaultTypes DEF DispatchAbort, CallerCancelled, TypeOK, CallerTypeOK
  <2> QED
    BY <1>7, <2>1, ReturnTypes DEF DispatchAbort
<1> QED
  BY <1>1, <1>2, <1>3, <1>4, <1>5, <1>6, <1>7 DEF DispatchStep

LEMMA TeardownTypes ==
  ASSUME TypeOK, NEW c \in Conns, Connect(c) \/ ClientDrop(c) \/ Teardown(c)
  PROVE  OtherTypesOK'
<1> USE DEF OtherTypesOK, TypeOK
<1>1. Off \in ReaderState
  BY DEF Off, At, ReaderState, AtRun
<1>2. CASE Connect(c)
  BY <1>1, <1>2, DispatchAssumption, Unchanged
  DEF Connect, RuntimeTypeOK, CallerTypeOK, ConnState, callerVars
<1>3. ProcGone(c) => ProcTypeOK'
  BY DEF ProcGone, ProcTypeOK, ProcState
<1>4. CASE ClientDrop(c)
  BY <1>3, <1>4, FaultTypes DEF ClientDrop, RuntimeTypeOK, CallerTypeOK, callerVars
<1>5. CASE SendFails(c)
  <2>1. Head(cmds[c]).run \in Runs /\ Tail(cmds[c]) \in Seq(Command)
    <3>1. cmds[c] \in Seq(Command) /\ cmds[c] # <<>>
      BY <1>5 DEF SendFails, RuntimeTypeOK
    <3>2. Head(cmds[c]) \in Command /\ Tail(cmds[c]) \in Seq(Command)
      BY <3>1, HeadTail
    <3> QED
      BY <3>2 DEF Command
  <2>2. assign' \in [Conns -> SUBSET Runs] /\ limbo' \in [Conns -> SUBSET Runs]
    <3>1. CASE UNCHANGED <<assign, limbo>>
      BY <3>1 DEF RuntimeTypeOK
    <3>2. CASE /\ assign' = [assign EXCEPT ![c] = @ \ {Head(cmds[c]).run}]
               /\ limbo' = [limbo EXCEPT ![c] = {Head(cmds[c]).run}]
      BY <2>1, <3>2 DEF RuntimeTypeOK
    <3> QED
      BY <1>5, <3>1, <3>2 DEF SendFails
  <2> QED
    BY <1>5, <2>1, <2>2, Unchanged DEF SendFails, RuntimeTypeOK, ConnState
<1>6. CASE HandlerLeaves(c) \/ Deregister(c)
  BY <1>6, DispatchAssumption, Unchanged DEF HandlerLeaves, Deregister, RuntimeTypeOK, ConnState
<1>7. CASE Close(c)
  BY <1>7, Unchanged DEF Close, RuntimeTypeOK, ConnState
<1>8. CASE HandlerReturns(c)
  BY <1>3, <1>8, Unchanged DEF HandlerReturns, RuntimeTypeOK, ConnState
<1>9. ASSUME NEW r \in Runs, RequeueLimbo(c, r) PROVE OtherTypesOK'
  BY <1>9, Unchanged DEF RequeueLimbo, RuntimeTypeOK
<1> QED
  BY <1>2, <1>4, <1>5, <1>6, <1>7, <1>8, <1>9 DEF Teardown

LEMMA ReaderTypes ==
  ASSUME TypeOK, NEW c \in Conns, ReaderStep(c)
  PROVE  OtherTypesOK'
<1> USE DEF OtherTypesOK, TypeOK
<1>1. ASSUME NEW pc \in {"idle", "checked", "answer", "release", "err"},
             up[c] # <<>>, Take(c, pc)
      PROVE  OtherTypesOK'
  <2>1. Head(up[c]).run \in Runs /\ Tail(up[c]) \in Seq(Update)
    <3>1. up[c] \in Seq(Update)
      BY DEF ProcTypeOK
    <3>2. Head(up[c]) \in Update /\ Tail(up[c]) \in Seq(Update)
      BY <1>1, <3>1, HeadTail
    <3> QED
      BY <3>2 DEF Update
  <2>2. At(pc, Head(up[c]).run) \in ReaderState
    BY <2>1 DEF At, ReaderState, AtRun
  <2> QED
    BY <1>1, <2>1, <2>2, Unchanged DEF Take, RuntimeTypeOK, ProcTypeOK
<1>2. ASSUME NEW k \in {"event", "beacon", "before", "completed", "empty", "failed", "ack"},
             NEW r \in Runs,
             \/ ReaderRejects(c, Msg(k, r))
             \/ ReaderNotes(c, Msg(k, r))
             \/ ReaderEnds(c, Msg(k, r))
      PROVE  OtherTypesOK'
  BY <1>1, <1>2 DEF ReaderRejects, ReaderNotes, ReaderEnds, Reading
<1>3. ASSUME NEW pc \in {"idle", "ask", "dispatch", "err"}, reader[c].pc \in AtRun, ReaderGoes(c, pc)
      PROVE  reader' \in [Conns -> ReaderState]
  <2>1. At(pc, reader[c].run) \in ReaderState
    BY <1>3 DEF At, RuntimeTypeOK, ReaderState, AtRun
  <2> QED
    BY <1>3, <2>1 DEF ReaderGoes, RuntimeTypeOK
<1>4. CASE ReaderAsks(c)
  BY <1>3, <1>4, Unchanged DEF ReaderAsks, ReaderGoes, RuntimeTypeOK, AtRun
<1>5. CASE ReaderAnswers(c)
  <2>1. reader[c].run \in Runs
    BY <1>5 DEF ReaderAnswers, RuntimeTypeOK, ReaderState, AtRun
  <2>2. cmds' \in [Conns -> Seq(Command)]
    BY <1>5, <2>1, MsgTypes DEF ReaderAnswers, RuntimeTypeOK
  <2> QED
    BY <1>3, <1>5, <2>2, Unchanged DEF ReaderAnswers, ReaderGoes, RuntimeTypeOK, AtRun
<1>6. CASE ReaderQuits(c) \/ ReaderReleases(c)
  BY <1>3, <1>6, Unchanged DEF ReaderQuits, ReaderReleases, ReaderGoes, RuntimeTypeOK, AtRun
<1> QED
  BY <1>2, <1>4, <1>5, <1>6 DEF ReaderStep

LEMMA ProcTypes ==
  ASSUME TypeOK, NEW c \in Conns,
         SendCommand(c) \/ \E r \in Runs : ProcStreams(c, r) \/ ProcAdvances(c, r)
  PROVE  OtherTypesOK'
<1> USE DEF OtherTypesOK, TypeOK
<1>1. CASE SendCommand(c)
  <2> DEFINE r == Head(cmds[c]).run
  <2>1. r \in Runs /\ Tail(cmds[c]) \in Seq(Command)
    <3>1. cmds[c] \in Seq(Command) /\ cmds[c] # <<>>
      BY <1>1 DEF SendCommand, RuntimeTypeOK
    <3>2. Head(cmds[c]) \in Command /\ Tail(cmds[c]) \in Seq(Command)
      BY <3>1, HeadTail
    <3> QED
      BY <3>2 DEF Command
  <2>2. ASSUME NEW msgs \in Seq(Update), Post(c, msgs) PROVE up' \in [Conns -> Seq(Update)]
    BY <2>2 DEF Post, ProcTypeOK
  <2>3. /\ Msg("beacon", r) \in Update /\ Msg("failed", r) \in Update /\ Msg("ack", r) \in Update
    BY <2>1, MsgTypes
  <2>4. ASSUME ProcCancels(c, r) PROVE ProcTypeOK'
    <3>1. proc' \in [Conns -> [Runs -> ProcState]] /\ proc[c][r] \in ProcState
      BY <2>1, <2>4 DEF ProcCancels, ProcTypeOK, ProcState
    <3>2. LastWords(c, r) \subseteq Seq(Update)
      <4> DEFINE a == <<Msg("ack", r)>>
                 f == <<Msg("failed", r), Msg("ack", r)>>
                 b == <<Msg("beacon", r), Msg("failed", r), Msg("ack", r)>>
      <4>1. <<>> \in Seq(Update) /\ a \in Seq(Update) /\ f \in Seq(Update) /\ b \in Seq(Update)
        BY <2>3
      <4>2. LastWords(c, r) \in {{<<>>}, {f, a}, {b}, {b, f}, {f}}
        BY <3>1, Zenon DEF LastWords, ProcState
      <4> HIDE DEF a, f, b
      <4> QED
        BY <4>1, <4>2
    <3>3. up' \in [Conns -> Seq(Update)]
      BY <2>2, <2>4, <3>2 DEF ProcCancels
    <3> QED
      BY <3>1, <3>3 DEF ProcTypeOK
  <2>5. ASSUME ProcDecided(c, r) PROVE ProcTypeOK'
    <3>1. <<Msg("failed", r)>> \in Seq(Update)
      BY <2>3
    <3>2. CASE Post(c, <<Msg("failed", r)>>) /\ proc' = [proc EXCEPT ![c][r] = "off"]
      BY <2>1, <2>2, <3>1, <3>2 DEF ProcTypeOK, ProcState
    <3>3. CASE UNCHANGED up /\ proc' = [proc EXCEPT ![c][r] = "model"]
      BY <2>1, <3>3 DEF ProcTypeOK, ProcState
    <3>4. CASE UNCHANGED procVars
      BY <3>4, Unchanged
    <3> QED
      BY <2>5, <3>2, <3>3, <3>4 DEF ProcDecided
  <2>6. ProcTypeOK'
    <3>1. CASE UNCHANGED procVars
      BY <3>1, Unchanged
    <3>2. ASSUME NEW s \in ProcState, proc' = [proc EXCEPT ![c][r] = s], UNCHANGED up
          PROVE  ProcTypeOK'
      BY <2>1, <3>2 DEF ProcTypeOK
    <3>3. proc[c][r] \in ProcState
      BY <2>1 DEF ProcTypeOK
    <3> QED
      BY <1>1, <2>4, <2>5, <3>1, <3>2, <3>3 DEF SendCommand, ProcState
  <2> QED
    BY <1>1, <2>1, <2>6, Unchanged DEF SendCommand, RuntimeTypeOK
<1>2. ASSUME NEW r \in Runs, NEW from \in ProcState, NEW to \in ProcState,
             NEW k \in {"event", "beacon", "before", "completed", "empty", "failed", "ack"},
             ProcMoves(c, r, from, to, <<Msg(k, r)>>), faults' \in 0 .. MaxFaults
      PROVE  OtherTypesOK'
  <2>1. <<Msg(k, r)>> \in Seq(Update)
    BY MsgTypes
  <2> QED
    BY <1>2, <2>1, Unchanged DEF ProcMoves, Post, ProcTypeOK, CallerTypeOK, callerVars
<1>3. faults \in 0 .. MaxFaults
  BY DEF CallerTypeOK
<1>4. ASSUME NEW r \in Runs, ProcStreams(c, r) \/ ProcAdvances(c, r) PROVE OtherTypesOK'
  BY <1>2, <1>3, <1>4, FaultTypes
  DEF ProcStreams, ProcAdvances, ProcCallsTool, ProcApproved, ProcRefused, ProcFinishes, ProcState
<1> QED
  BY <1>1, <1>4

LEMMA RunTypes ==
  ASSUME TypeOK, NEW r \in Runs, RunStep(r)
  PROVE  OtherTypesOK'
<1> USE DEF OtherTypesOK, TypeOK
<1>1. faults \in 0 .. MaxFaults
  BY DEF CallerTypeOK
<1>2. ASSUME NEW kind \in {"cancelled", "updated"}, TellOwner(r, kind)
      PROVE  cmds' \in [Conns -> Seq(Command)]
  BY <1>2, MsgTypes DEF TellOwner, Owners, Registered, RuntimeTypeOK
<1>3. ASSUME NEW pc \in ChatState, ChatGoes(r, pc), faults' \in 0 .. MaxFaults,
             cmds' \in [Conns -> Seq(Command)]
      PROVE  OtherTypesOK'
  BY <1>3, Unchanged DEF ChatGoes, RuntimeTypeOK, CallerTypeOK
<1>4. ASSUME NEW pc \in DeciderState, DeciderGoes(r, pc), faults' \in 0 .. MaxFaults,
             cmds' \in [Conns -> Seq(Command)], assign' \in [Conns -> SUBSET Runs]
      PROVE  OtherTypesOK'
  BY <1>4, Unchanged DEF DeciderGoes, RuntimeTypeOK, CallerTypeOK
<1>5. cmds \in [Conns -> Seq(Command)] /\ assign \in [Conns -> SUBSET Runs]
  BY DEF RuntimeTypeOK
<1>6. CASE SendMessage(r) \/ ChatHangsUp(r) \/ ChatStep(r)
  BY <1>1, <1>2, <1>3, <1>5, <1>6, FaultTypes
  DEF SendMessage, ChatHangsUp, ChatStep, ChatEnds, ChatCancels, CancelRun, ChatTells, ChatState
<1>7. CASE Decide(r)
  BY <1>1, <1>4, <1>5, <1>7, FaultTypes DEF Decide, DeciderState
<1>8. CASE DeciderNotifies(r)
  BY <1>1, <1>2, <1>4, <1>5, <1>8 DEF DeciderNotifies, DeciderState
<1> QED
  BY <1>6, <1>7, <1>8 DEF RunStep

LEMMA RestartTypes == TypeOK /\ Restart => OtherTypesOK'
<1>1. Off \in ReaderState /\ NoCall \in Call
  BY DEF Off, At, ReaderState, AtRun, NoCall, Call
<1> SUFFICES ASSUME TypeOK, Restart PROVE OtherTypesOK'
  OBVIOUS
<1>2. RuntimeTypeOK'
  BY <1>1 DEF Restart, RuntimeTypeOK, ConnState
<1>3. ProcTypeOK'
  BY DEF Restart, ProcTypeOK, ProcState
<1>4. faults' \in 0 .. MaxFaults
  BY FaultTypes DEF Restart
<1>5. CallerTypeOK'
  BY <1>1, <1>4 DEF Restart, CallerTypeOK, ChatState, DeciderState, TypeOK
<1> QED
  BY <1>2, <1>3, <1>5 DEF OtherTypesOK

LEMMA InitTypes == Init => TypeOK
<1> SUFFICES ASSUME Init PROVE TypeOK
  OBVIOUS
<1>1. Off \in ReaderState /\ NoCall \in Call
  BY DEF Off, At, ReaderState, AtRun, NoCall, Call
<1>2. RepoTypeOK
  BY DEF Init, RepoInit, RepoTypeOK, RunStatus, JobStatus, ApprovalStatus, Finished
<1> QED
  BY <1>1, <1>2, DispatchAssumption
  DEF Init, TypeOK, RuntimeTypeOK, ProcTypeOK, CallerTypeOK, ConnState, ProcState, ChatState, DeciderState

LEMMA NextTypes == TypeOK /\ [Next]_vars => TypeOK'
<1> SUFFICES ASSUME TypeOK, [Next]_vars PROVE TypeOK'
  OBVIOUS
<1>1. RepoTypeOK'
  BY NextIsRepoStep, RepoTypes DEF TypeOK
<1>2. OtherTypesOK'
  <2>1. CASE UNCHANGED vars
    BY <2>1, Unchanged DEF vars, TypeOK, OtherTypesOK
  <2>2. ASSUME NEW c \in Conns, ConnStep(c) PROVE OtherTypesOK'
    BY <2>2, TeardownTypes, ReaderTypes, ProcTypes DEF ConnStep
  <2> QED
    BY <2>1, <2>2, DispatchTypes, RunTypes, RestartTypes DEF Next
<1> QED
  BY <1>1, <1>2 DEF TypeOK, OtherTypesOK

\* Every variable keeps to its type: in particular every update and command in
\* flight names a run, and the reader always knows the run it is working for.
THEOREM TypeCorrect == Spec => []TypeOK
<1>1. TypeOK /\ [Next]_vars => TypeOK'
  BY NextTypes
<1> QED
  BY <1>1, InitTypes, PTL DEF Spec

(***************************************************************************)
(* A run that has not ended has one holder at most, and its row agrees     *)
(* with its job's.  The two are proved together: approvals are created     *)
(* only for runs in progress because the reader that creates them works    *)
(* for a run its connection holds, and a held run is never back in the     *)
(* queue because only its one holder requeues it.                          *)
(***************************************************************************)
Ended(r) == run[r] \in Finished

\* c is responsible for r: it serves it, or its handler is about to requeue it.
Responsible(c, r) == r \in assign[c] \/ r \in limbo[c]

\* Only active runs are held.
HeldIsActive ==
  \A r \in Runs : ~Ended(r) =>
    /\ \A c \in Conns : Responsible(c, r) => Active(r)
    /\ \A t \in Threads : disp[t].run = r => Active(r)

\* Two different holders hold different runs.
OneOwner ==
  \A r \in Runs : ~Ended(r) =>
    /\ \A c, d \in Conns : Responsible(c, r) /\ Responsible(d, r) => c = d
    /\ \A c \in Conns : r \notin assign[c] \/ r \notin limbo[c]
    /\ \A t, u \in Threads : disp[t].run = r /\ disp[u].run = r => t = u
    /\ \A t \in Threads, c \in Conns : disp[t].run = r => ~Responsible(c, r)

\* An assignment that a live handler has yet to send is in the worker's map.
CommandsAssigned ==
  \A c \in Conns : conn[c] \notin {"dying", "removed"} =>
    \A i \in DOMAIN cmds[c] :
      cmds[c][i].kind = "assigned" => cmds[c][i].run \in assign[c] \/ Ended(cmds[c][i].run)

\* A reader between its status check and CreateApproval serves a held run, and
\* its stream is alive; the run a reader releases has ended.
ReaderHolds ==
  \A c \in Conns :
    /\ reader[c].pc = "checked" /\ ~ctxDone[c] =>
         conn[c] = "serving" /\ (reader[c].run \in assign[c] \/ Ended(reader[c].run))
    /\ reader[c].pc = "release" => Ended(reader[c].run)

\* A goroutine delivers to a worker that cannot be closed meanwhile.
DeliversToOpen ==
  \A t \in Threads : disp[t].run # None => disp[t].at \in Conns /\ ~Closed(disp[t].at)

\* The run of a refused approval has ended.
RefusedEnded == \A r \in Runs : decider[r] = "refused" => Ended(r)

HoldersInv ==
  /\ TypeOK
  /\ RunJobAgree
  /\ HeldIsActive
  /\ OneOwner
  /\ CommandsAssigned
  /\ ReaderHolds
  /\ DeliversToOpen
  /\ RefusedEnded

(***************************************************************************)
(* What a transaction does to the status of a run.                         *)
(***************************************************************************)

\* The status, the job and the log of a run that has ended are left alone.
LEMMA EndedStays ==
  ASSUME RepoTypeOK, RepoStep, NEW r \in Runs, Ended(r)
  PROVE  run'[r] = run[r] /\ job'[r] = job[r] /\ log'[r] = log[r]
<1> USE DEF Ended, Finished, RepoTypeOK
<1>1. CASE UNCHANGED repoVars
  BY <1>1 DEF repoVars
<1>2. ASSUME NEW s \in Runs,
             \/ EnqueueUserMessage(s) \/ RequeueClaimedJob(s)
             \/ \E id \in WorkerIds : ClaimNextJob(s, id)
      PROVE  run'[r] = run[r] /\ job'[r] = job[r] /\ log'[r] = log[r]
  BY <1>2 DEF EnqueueUserMessage, ClaimNextJob, Claimable, RequeueClaimedJob, Requeueable, AppendRunEvent
<1>3. ASSUME NEW s \in Runs,
             CompleteRunWithEvent(s) \/ FailRunWithEvent(s) \/ CancelRunWithEvent(s)
      PROVE  run'[r] = run[r] /\ job'[r] = job[r] /\ log'[r] = log[r]
  BY <1>3 DEF CompleteRunWithEvent, FailRunWithEvent, CancelRunWithEvent, Active, Cancellable, CloseJob,
              AppendRunEvent
<1>4. ASSUME NEW s \in Runs, CreateApproval(s) \/ ApproveApproval(s) \/ ConsumeApproval(s)
      PROVE  run'[r] = run[r] /\ job'[r] = job[r] /\ log'[r] = log[r]
  BY <1>4 DEF CreateApproval, ApproveApproval, ConsumeApproval, Undecided, Cancellable, Active
<1>5. ASSUME NEW s \in Runs, DenyApproval(s) \/ ExpireApproval(s)
      PROVE  run'[r] = run[r] /\ job'[r] = job[r] /\ log'[r] = log[r]
  BY <1>5 DEF DenyApproval, ExpireApproval, RefuseApproval, Undecided, CloseJob
<1> QED
  BY <1>1, <1>2, <1>3, <1>4, <1>5 DEF RepoStep, KeepStep

\* Without a requeue, an active run stays active or ends.
LEMMA ActiveStays ==
  ASSUME RepoTypeOK, KeepStep, NEW r \in Runs, Active(r)
  PROVE  Active(r)' \/ Ended(r)'
<1> USE DEF Ended, Finished, RepoTypeOK, Active
<1>1. CASE UNCHANGED repoVars
  BY <1>1 DEF repoVars
<1>2. ASSUME NEW s \in Runs, EnqueueUserMessage(s) \/ \E id \in WorkerIds : ClaimNextJob(s, id)
      PROVE  Active(r)' \/ Ended(r)'
  BY <1>2 DEF EnqueueUserMessage, ClaimNextJob
<1>3. ASSUME NEW s \in Runs,
             CompleteRunWithEvent(s) \/ FailRunWithEvent(s) \/ CancelRunWithEvent(s)
      PROVE  Active(r)' \/ Ended(r)'
  BY <1>3 DEF CompleteRunWithEvent, FailRunWithEvent, CancelRunWithEvent
<1>4. ASSUME NEW s \in Runs, CreateApproval(s) \/ ApproveApproval(s) \/ ConsumeApproval(s)
      PROVE  Active(r)' \/ Ended(r)'
  BY <1>4 DEF CreateApproval, ApproveApproval, ConsumeApproval
<1>5. ASSUME NEW s \in Runs, DenyApproval(s) \/ ExpireApproval(s)
      PROVE  Active(r)' \/ Ended(r)'
  BY <1>5 DEF DenyApproval, ExpireApproval, RefuseApproval
<1> QED
  BY <1>1, <1>2, <1>3, <1>4, <1>5 DEF KeepStep

\* A run that has ended never changes again: the status, job and log columns are
\* out of reach of every transaction, whatever updates, decisions, cancellations
\* and requeues are still under way.
THEOREM EndedForGood == Spec => FinishedForever
<1>1. TypeOK /\ [Next]_vars =>
        [\A r \in Runs : run[r] \in Finished =>
           run'[r] = run[r] /\ job'[r] = job[r] /\ log'[r] = log[r]]_vars
  BY NextIsRepoStep, EndedStays DEF TypeOK, Ended
<1> QED
  BY <1>1, TypeCorrect, PTL DEF Spec, FinishedForever

(***************************************************************************)
(* The run row and the job row.                                            *)
(***************************************************************************)
LEMMA AgreeStep ==
  ASSUME RepoTypeOK, RunJobAgree, RepoStep,
         \A c \in Conns, r \in Runs :
           reader[c] = At("checked", r) /\ ~ctxDone[c] /\ Cancellable(r) => Active(r)
  PROVE  RunJobAgree'
<1> USE DEF RunJobAgree, Finished, RepoTypeOK, RunStatus, Active
<1>1. CASE UNCHANGED repoVars
  BY <1>1 DEF repoVars
<1>2. ASSUME NEW s \in Runs, EnqueueUserMessage(s) PROVE RunJobAgree'
  BY <1>2 DEF EnqueueUserMessage
<1>3. ASSUME NEW s \in Runs, NEW id \in WorkerIds, ClaimNextJob(s, id) PROVE RunJobAgree'
  BY <1>3 DEF ClaimNextJob
<1>4. ASSUME NEW s \in Runs, RequeueClaimedJob(s) PROVE RunJobAgree'
  BY <1>4 DEF RequeueClaimedJob
<1>5. ASSUME NEW s \in Runs, CompleteRunWithEvent(s) PROVE RunJobAgree'
  BY <1>5 DEF CompleteRunWithEvent, CloseJob
<1>6. ASSUME NEW s \in Runs, FailRunWithEvent(s) PROVE RunJobAgree'
  BY <1>6 DEF FailRunWithEvent, CloseJob, Cancellable
<1>7. ASSUME NEW s \in Runs, CancelRunWithEvent(s) PROVE RunJobAgree'
  BY <1>7 DEF CancelRunWithEvent, CloseJob, Cancellable
<1>8. ASSUME NEW s \in Runs, NEW c \in Conns, CreateApproval(s),
             reader[c] = At("checked", s), ~ctxDone[c]
      PROVE  RunJobAgree'
  BY <1>8 DEF CreateApproval
<1>9. ASSUME NEW s \in Runs, ApproveApproval(s) \/ ConsumeApproval(s) PROVE RunJobAgree'
  BY <1>9 DEF ApproveApproval, ConsumeApproval, Undecided
<1>10. ASSUME NEW s \in Runs, DenyApproval(s) \/ ExpireApproval(s) PROVE RunJobAgree'
  BY <1>10 DEF DenyApproval, ExpireApproval, RefuseApproval, Undecided, CloseJob
<1> QED
  BY <1>1, <1>2, <1>3, <1>4, <1>5, <1>6, <1>7, <1>8, <1>9, <1>10 DEF RepoStep, KeepStep

(***************************************************************************)
(* Holders.                                                                *)
(***************************************************************************)

\* The statuses of held runs allow for every holder to stay.
Settles == \A r \in Runs : (Ended(r) => Ended(r)') /\ (Active(r) => Active(r)' \/ Ended(r)')

LEMMA KeepSettles == TypeOK /\ KeepStep => Settles
BY EndedStays, ActiveStays DEF Settles, TypeOK, RepoStep, Ended

\* Letting go of runs keeps every other holder's claim.
LEMMA Shrinks ==
  ASSUME TypeOK, HeldIsActive, OneOwner, Settles,
         \A c \in Conns : assign'[c] \subseteq assign[c] /\ limbo'[c] \subseteq limbo[c],
         \A t \in Threads : disp'[t].run \in {disp[t].run, None}
  PROVE  HeldIsActive' /\ OneOwner'
<1>1. \A c \in Conns, r \in Runs : Responsible(c, r)' => Responsible(c, r)
  BY DEF Responsible
<1>2. \A t \in Threads, r \in Runs : disp'[t].run = r => disp[t].run = r
  BY NoneIsNotARun
<1>3. HeldIsActive'
  BY <1>1, <1>2 DEF HeldIsActive, Settles
<1>4. OneOwner'
  BY <1>1, <1>2 DEF OneOwner, Settles
<1> QED
  BY <1>3, <1>4

\* A claimed run was held by nobody.
LEMMA ClaimHolders ==
  ASSUME TypeOK, HeldIsActive, OneOwner, Settles,
         NEW t \in Threads, NEW c \in Conns, NEW r \in Runs, DispatchClaim(t, c, r)
  PROVE  HeldIsActive' /\ OneOwner'
<1>1. UNCHANGED <<assign, limbo>>
  BY DEF DispatchClaim
<1>2. /\ disp'[t].run = r
      /\ \A u \in Threads \ {t} : disp'[u] = disp[u]
  BY DEF DispatchClaim, TypeOK, CallerTypeOK
<1>3. run[r] = "queued" /\ run'[r] = "running"
  BY DEF DispatchClaim, ClaimNextJob, Claimable, TypeOK, RepoTypeOK
<1>4. ~Ended(r) /\ ~Active(r) /\ Active(r)'
  BY <1>3 DEF Ended, Finished, Active
<1>5. /\ \A d \in Conns : ~Responsible(d, r)
      /\ \A u \in Threads : disp[u].run # r
  BY <1>4 DEF HeldIsActive
<1>6. \A d \in Conns, s \in Runs : Responsible(d, s)' <=> Responsible(d, s)
  BY <1>1 DEF Responsible
<1>7. \A u \in Threads, s \in Runs \ {r} : disp'[u].run = s => disp[u].run = s
  BY <1>2
<1>8. \A u \in Threads : disp'[u].run = r => u = t
  BY <1>2, <1>5
<1>9. HeldIsActive'
  BY <1>4, <1>6, <1>7 DEF HeldIsActive, Settles
<1>10. OneOwner'
  BY <1>1, <1>5, <1>6, <1>7, <1>8 DEF OneOwner, Settles, Responsible
<1> QED
  BY <1>9, <1>10

LEMMA DeliverTakes ==
  ASSUME TypeOK, NEW t \in Threads, NEW c \in Conns, NEW r \in Runs, DispatchDeliver(t, c, r)
  PROVE  /\ disp[t].run = r
         /\ disp'[t].run = None
         /\ \A u \in Threads \ {t} : disp'[u] = disp[u]
BY DEF DispatchDeliver, TypeOK, CallerTypeOK, Call

\* A delivery hands the run over to the worker.
LEMMA DeliverHolders ==
  ASSUME TypeOK, HeldIsActive, OneOwner, Settles,
         NEW t \in Threads, NEW c \in Conns, NEW r \in Runs, DispatchDeliver(t, c, r)
  PROVE  HeldIsActive' /\ OneOwner'
<1>1. /\ disp[t].run = r
      /\ disp'[t].run = None
      /\ \A u \in Threads \ {t} : disp'[u] = disp[u]
  BY DeliverTakes
<1>2. UNCHANGED <<run, limbo>>
  BY DEF DispatchDeliver, repoVars
<1>3. /\ assign'[c] = assign[c] \union {r}
      /\ \A d \in Conns \ {c} : assign'[d] = assign[d]
  BY DEF DispatchDeliver, TypeOK, RuntimeTypeOK
<1>4. ~Ended(r) => \A d \in Conns : ~Responsible(d, r)
  BY <1>1 DEF OneOwner
<1>5. \A u \in Threads, s \in Runs : disp'[u].run = s => disp[u].run = s /\ u # t
  BY <1>1, NoneIsNotARun
<1>6. ~Ended(r) => \A u \in Threads : disp'[u].run # r
  BY <1>1, <1>5 DEF OneOwner
<1>7. \A d \in Conns, s \in Runs : Responsible(d, s)' => Responsible(d, s) \/ (d = c /\ s = r)
  BY <1>2, <1>3 DEF Responsible
<1>8. \A s \in Runs : (Ended(s)' <=> Ended(s)) /\ (Active(s)' <=> Active(s))
  BY <1>2 DEF Ended, Active
<1>9. HeldIsActive'
  BY <1>1, <1>5, <1>7, <1>8 DEF HeldIsActive
<1>10. \A s \in Runs, d \in Conns : ~Ended(s) => s \notin assign'[d] \/ s \notin limbo'[d]
  BY <1>2, <1>3, <1>4 DEF OneOwner, Responsible
<1>11. OneOwner'
  BY <1>4, <1>5, <1>6, <1>7, <1>8, <1>10 DEF OneOwner
<1> QED
  BY <1>9, <1>11

\* A run goes back to the queue from the hands of its only holder.
LEMMA GivesBack ==
  ASSUME TypeOK, HeldIsActive, OneOwner,
         NEW r \in Runs, RequeueClaimedJob(r),
         \A c \in Conns : assign'[c] \subseteq assign[c] /\ limbo'[c] \subseteq limbo[c],
         \A t \in Threads : disp'[t].run \in {disp[t].run, None},
         \A c \in Conns : ~Responsible(c, r)',
         \A t \in Threads : disp'[t].run # r
  PROVE  HeldIsActive' /\ OneOwner'
<1>1. \A s \in Runs \ {r} : (Ended(s)' <=> Ended(s)) /\ (Active(s)' <=> Active(s))
  BY DEF RequeueClaimedJob, TypeOK, RepoTypeOK, Ended, Active
<1>2. \A c \in Conns, s \in Runs : Responsible(c, s)' => Responsible(c, s) /\ s # r
  BY DEF Responsible
<1>3. \A t \in Threads, s \in Runs : disp'[t].run = s => disp[t].run = s /\ s # r
  BY NoneIsNotARun
<1>4. HeldIsActive'
  BY <1>1, <1>2, <1>3 DEF HeldIsActive
<1>5. \A c \in Conns, s \in Runs : s \in assign'[c] => s \in assign[c] /\ s # r
  BY <1>2 DEF Responsible
<1>6. OneOwner'
  BY <1>1, <1>2, <1>3, <1>5 DEF OneOwner
<1> QED
  BY <1>4, <1>6

LEMMA AbortHolders ==
  ASSUME TypeOK, HeldIsActive, OneOwner,
         NEW t \in Threads, NEW c \in Conns, NEW r \in Runs, DispatchAbort(t, c, r)
  PROVE  HeldIsActive' /\ OneOwner'
<1>1. UNCHANGED <<assign, limbo>>
  BY DEF DispatchAbort
<1>2. /\ disp[t].run = r
      /\ disp'[t].run = None
      /\ \A u \in Threads \ {t} : disp'[u] = disp[u]
  BY DEF DispatchAbort, Return, NoCall, TypeOK, CallerTypeOK
<1>3. CASE UNCHANGED repoVars
  <2>1. Settles
    BY <1>3, KeepSettles DEF KeepStep
  <2> QED
    BY <1>1, <1>2, <2>1, Shrinks
<1>4. CASE RequeueClaimedJob(r)
  <2>1. ~Ended(r)
    BY <1>4 DEF RequeueClaimedJob, Requeueable, Ended, Finished
  <2>2. /\ \A d \in Conns : ~Responsible(d, r)'
        /\ \A u \in Threads : disp'[u].run # r
    BY <1>1, <1>2, <2>1, NoneIsNotARun DEF OneOwner, Responsible
  <2> QED
    BY <1>1, <1>2, <1>4, <2>2, GivesBack
<1> QED
  BY <1>3, <1>4 DEF DispatchAbort, RequeueOrDrop

LEMMA LimboHolders ==
  ASSUME TypeOK, HeldIsActive, OneOwner,
         NEW c \in Conns, NEW r \in Runs, RequeueLimbo(c, r)
  PROVE  HeldIsActive' /\ OneOwner'
<1>1. /\ r \in limbo[c]
      /\ limbo'[c] = limbo[c] \ {r}
      /\ \A d \in Conns \ {c} : limbo'[d] = limbo[d]
      /\ UNCHANGED <<assign, disp>>
  BY DEF RequeueLimbo, TypeOK, RuntimeTypeOK
<1>2. CASE UNCHANGED repoVars
  <2>1. Settles
    BY <1>2, KeepSettles DEF KeepStep
  <2> QED
    BY <1>1, <2>1, Shrinks
<1>3. CASE RequeueClaimedJob(r)
  <2>1. ~Ended(r)
    BY <1>3 DEF RequeueClaimedJob, Requeueable, Ended, Finished
  <2>2. /\ \A d \in Conns : ~Responsible(d, r)'
        /\ \A u \in Threads : disp'[u].run # r
    BY <1>1, <2>1 DEF OneOwner, Responsible
  <2> QED
    BY <1>1, <1>3, <2>2, GivesBack
<1> QED
  BY <1>2, <1>3 DEF RequeueLimbo, RequeueOrDrop

\* A run whose assignment cannot be sent moves to the handler that requeues it.
LEMMA SendFailsHolders ==
  ASSUME TypeOK, HeldIsActive, OneOwner, CommandsAssigned,
         NEW c \in Conns, SendFails(c)
  PROVE  HeldIsActive' /\ OneOwner'
<1>1. Settles
  BY KeepSettles DEF SendFails, KeepStep
<1>2. UNCHANGED <<run, disp>>
  BY DEF SendFails, repoVars
<1>3. CASE UNCHANGED <<assign, limbo>>
  BY <1>1, <1>2, <1>3, Shrinks
<1>4. CASE Head(cmds[c]).kind = "assigned"
  <2> DEFINE r == Head(cmds[c]).run
  <2>1. cmds[c] \in Seq(Command) /\ cmds[c] # <<>>
    BY DEF SendFails, TypeOK, RuntimeTypeOK
  <2>2. r \in Runs
    <3>1. Head(cmds[c]) \in Command
      BY <2>1, HeadTail
    <3> QED
      BY <3>1 DEF Command
  <2>3. r \in assign[c] \/ Ended(r)
    <3>1. 1 \in DOMAIN cmds[c] /\ cmds[c][1] = Head(cmds[c])
      BY <2>1
    <3> QED
      BY <1>4, <3>1 DEF CommandsAssigned, SendFails
  <2>4. /\ assign'[c] = assign[c] \ {r}
        /\ limbo'[c] = {r}
        /\ \A d \in Conns \ {c} : assign'[d] = assign[d] /\ limbo'[d] = limbo[d]
    BY <1>4 DEF SendFails, TypeOK, RuntimeTypeOK
  <2> HIDE DEF r
  <2>5. \A s \in Runs : (Ended(s)' <=> Ended(s)) /\ (Active(s)' <=> Active(s))
    BY <1>2 DEF Ended, Active
  <2>6. \A d \in Conns, s \in Runs : ~Ended(s) /\ Responsible(d, s)' => Responsible(d, s)
    BY <2>3, <2>4 DEF Responsible
  <2>7. \A d \in Conns, s \in Runs : ~Ended(s) => s \notin assign'[d] \/ s \notin limbo'[d]
    BY <2>4 DEF OneOwner
  <2>8. HeldIsActive'
    BY <1>2, <2>5, <2>6 DEF HeldIsActive
  <2>9. OneOwner'
    BY <1>2, <2>5, <2>6, <2>7 DEF OneOwner
  <2> QED
    BY <2>8, <2>9
<1> QED
  BY <1>3, <1>4 DEF SendFails

\* Closing a worker moves its runs to the handler that requeues them.
LEMMA CloseHolders ==
  ASSUME TypeOK, HeldIsActive, OneOwner, NEW c \in Conns, Close(c)
  PROVE  HeldIsActive' /\ OneOwner'
<1>1. /\ assign'[c] = {} /\ limbo'[c] = assign[c]
      /\ \A d \in Conns \ {c} : assign'[d] = assign[d] /\ limbo'[d] = limbo[d]
      /\ UNCHANGED <<run, disp>>
  BY DEF Close, TypeOK, RuntimeTypeOK, repoVars
<1>2. \A s \in Runs : (Ended(s)' <=> Ended(s)) /\ (Active(s)' <=> Active(s))
  BY <1>1 DEF Ended, Active
<1>3. \A d \in Conns, s \in Runs : Responsible(d, s)' => Responsible(d, s)
  BY <1>1 DEF Responsible
<1>4. \A d \in Conns, s \in Runs : ~Ended(s) => s \notin assign'[d] \/ s \notin limbo'[d]
  BY <1>1 DEF OneOwner
<1>5. HeldIsActive'
  BY <1>1, <1>2, <1>3 DEF HeldIsActive
<1>6. OneOwner'
  BY <1>1, <1>2, <1>3, <1>4 DEF OneOwner
<1> QED
  BY <1>5, <1>6

\* Steps of the reader release runs at most.
LEMMA ReaderShrinks ==
  ASSUME TypeOK, NEW c \in Conns, ReaderStep(c)
  PROVE  /\ \A d \in Conns : assign'[d] \subseteq assign[d]
         /\ UNCHANGED <<conn, ctxDone, limbo, callerVars, disp, workers>>
         /\ \A d \in Conns \ {c} : reader'[d] = reader[d] /\ assign'[d] = assign[d] /\ cmds'[d] = cmds[d]
<1>1. ASSUME NEW k \in {"event", "beacon", "before", "completed", "empty", "failed", "ack"},
             NEW r \in Runs,
             \/ ReaderRejects(c, Msg(k, r))
             \/ ReaderNotes(c, Msg(k, r))
             \/ ReaderEnds(c, Msg(k, r))
      PROVE  /\ UNCHANGED <<assign, cmds, conn, ctxDone, limbo, callerVars, disp, workers>>
             /\ \A d \in Conns \ {c} : reader'[d] = reader[d]
  BY <1>1 DEF ReaderRejects, ReaderNotes, ReaderEnds, Take, TypeOK, RuntimeTypeOK
<1>2. CASE ReaderAsks(c) \/ ReaderAnswers(c) \/ ReaderQuits(c) \/ ReaderReleases(c)
  BY <1>2 DEF ReaderAsks, ReaderAnswers, ReaderQuits, ReaderReleases, ReaderGoes, TypeOK, RuntimeTypeOK
<1> QED
  BY <1>1, <1>2 DEF ReaderStep

LEMMA HoldersStep ==
  ASSUME HoldersInv, [Next]_vars
  PROVE  HeldIsActive' /\ OneOwner'
<1> USE DEF HoldersInv
<1>1. ASSUME NEW t \in Threads, NEW c \in Conns, NEW r \in Runs,
             DispatchClaim(t, c, r) \/ DispatchDeliver(t, c, r) \/ DispatchAbort(t, c, r)
      PROVE  HeldIsActive' /\ OneOwner'
  <2>1. DispatchClaim(t, c, r) \/ DispatchDeliver(t, c, r) => Settles
    <3>1. WorkerOf[c] \in WorkerIds
      BY DispatchAssumption
    <3> QED
      BY <3>1, KeepSettles DEF DispatchClaim, DispatchDeliver, KeepStep
  <2> QED
    BY <1>1, <2>1, ClaimHolders, DeliverHolders, AbortHolders
<1>2. ASSUME NEW c \in Conns, \/ SendFails(c) \/ Close(c) \/ \E r \in Runs : RequeueLimbo(c, r)
      PROVE  HeldIsActive' /\ OneOwner'
  BY <1>2, SendFailsHolders, CloseHolders, LimboHolders
<1>3. ASSUME KeepStep,
             \A c \in Conns : assign'[c] \subseteq assign[c] /\ limbo'[c] \subseteq limbo[c],
             \A t \in Threads : disp'[t].run \in {disp[t].run, None}
      PROVE  HeldIsActive' /\ OneOwner'
  BY <1>3, KeepSettles, Shrinks
<1>4. CASE UNCHANGED vars
  BY <1>3, <1>4 DEF vars, runtimeVars, KeepStep
<1>5. CASE Restart
  BY <1>3, <1>5 DEF Restart, KeepStep, NoCall
<1>6. ASSUME NEW t \in Threads,
             \/ DispatchStart(t) \/ DispatchError(t)
             \/ \E c \in Conns : DispatchPass(t, c) \/ DispatchNoJob(t, c)
      PROVE  HeldIsActive' /\ OneOwner'
  <2>1. UNCHANGED <<repoVars, assign, limbo>>
    BY <1>6 DEF DispatchStart, DispatchError, DispatchPass, DispatchNoJob
  <2>2. \A u \in Threads : disp'[u].run \in {disp[u].run, None}
    BY <1>6 DEF DispatchStart, DispatchError, DispatchPass, DispatchNoJob, Continue, Return, NoCall,
                TypeOK, CallerTypeOK
  <2> QED
    BY <1>3, <2>1, <2>2 DEF KeepStep
<1>7. ASSUME NEW c \in Conns,
             \/ Connect(c) \/ ClientDrop(c) \/ HandlerLeaves(c) \/ Deregister(c)
             \/ HandlerReturns(c) \/ SendCommand(c)
      PROVE  HeldIsActive' /\ OneOwner'
  BY <1>3, <1>7 DEF Connect, ClientDrop, HandlerLeaves, Deregister, HandlerReturns, SendCommand, KeepStep
<1>8. ASSUME NEW c \in Conns, ReaderStep(c) PROVE HeldIsActive' /\ OneOwner'
  <2>1. KeepStep \/ (\E t \in Threads, d \in Conns, r \in Runs : DispatchAbort(t, d, r))
                 \/ (\E d \in Conns, r \in Runs : RequeueLimbo(d, r))
    BY StepKinds
  <2> QED
    BY <1>3, <1>8, <2>1, AbortHolders, LimboHolders, ReaderShrinks
<1>9. ASSUME NEW c \in Conns, NEW r \in Runs, ProcStreams(c, r) \/ ProcAdvances(c, r)
      PROVE  HeldIsActive' /\ OneOwner'
  <2>1. UNCHANGED <<assign, limbo, disp>>
    BY <1>9 DEF ProcStreams, ProcAdvances, ProcCallsTool, ProcApproved, ProcRefused, ProcFinishes,
                ProcMoves, runtimeVars
  <2>2. KeepStep
    BY <1>9 DEF ProcStreams, ProcAdvances, ProcCallsTool, ProcApproved, ProcRefused, ProcFinishes, KeepStep
  <2> QED
    BY <1>3, <2>1, <2>2
<1>10. ASSUME NEW r \in Runs, RunStep(r) PROVE HeldIsActive' /\ OneOwner'
  <2>1. UNCHANGED <<limbo, disp>> /\ \A c \in Conns : assign'[c] \subseteq assign[c]
    BY <1>10 DEF RunStep, SendMessage, ChatHangsUp, ChatStep, ChatEnds, ChatCancels, CancelRun,
                 ChatTells, ChatGoes, Decide, DeciderNotifies, DeciderGoes
  <2>2. KeepStep \/ (\E t \in Threads, d \in Conns, s \in Runs : DispatchAbort(t, d, s))
                 \/ (\E d \in Conns, s \in Runs : RequeueLimbo(d, s))
    BY StepKinds
  <2> QED
    BY <1>3, <2>1, <2>2, AbortHolders, LimboHolders
<1> QED
  BY <1>1, <1>2, <1>4, <1>5, <1>6, <1>7, <1>8, <1>9, <1>10, NextCases

(***************************************************************************)
(* The facts about goroutines that the holders rest on.                    *)
(***************************************************************************)
LEMMA EndsStay == TypeOK /\ [Next]_vars => \A r \in Runs : Ended(r) => Ended(r)'
BY NextIsRepoStep, EndedStays DEF TypeOK, Ended

LEMMA ReturnFrame ==
  ASSUME TypeOK, NEW t \in Threads, NEW ok \in BOOLEAN, Return(t, ok)
  PROVE  /\ \A u \in Threads : disp'[u] = disp[u] \/ disp'[u].run = None
         /\ \A c \in Conns : \/ conn'[c] = conn[c]
                             \/ conn[c] = "accepting" /\ conn'[c] \in {"serving", "dying"}
         /\ \A c \in Conns : reader'[c] = reader[c] \/ reader'[c].pc \in {"idle", "err"}
         /\ \A r \in Runs : decider'[r] \in {decider[r], "idle"}
<1>1. \A u \in Threads : disp'[u] = disp[u] \/ disp'[u].run = None
  BY DEF Return, NoCall, TypeOK, CallerTypeOK
<1>2. \A c \in Conns : t = <<"conn", c>> => conn[c] = "accepting"
  BY DEF Return, Calling
<1>3. \A c \in Conns : \/ conn'[c] = conn[c]
                       \/ conn[c] = "accepting" /\ conn'[c] \in {"serving", "dying"}
  BY <1>2 DEF Return, TypeOK, RuntimeTypeOK
<1>4. At("idle", None).pc = "idle" /\ At("err", None).pc = "err"
  BY DEF At
<1>5. \A c \in Conns : reader'[c] = reader[c] \/ reader'[c].pc \in {"idle", "err"}
  BY <1>4 DEF Return, TypeOK, RuntimeTypeOK
<1>6. \A r \in Runs : decider'[r] \in {decider[r], "idle"}
  BY DEF Return, TypeOK, CallerTypeOK, callerVars
<1> QED
  BY <1>1, <1>3, <1>5, <1>6

\* What a step of DispatchPending does to the goroutines.
LEMMA DispatchFrame ==
  ASSUME TypeOK, NEW t \in Threads, DispatchStep(t)
  PROVE  /\ \A u \in Threads :
              \/ disp'[u] = disp[u]
              \/ disp'[u].run = None
              \/ \E c \in Conns : disp'[u].at = c /\ ~Closed(c)
         /\ \A c \in Conns : \/ conn'[c] = conn[c]
                             \/ conn[c] = "accepting" /\ conn'[c] \in {"serving", "dying"}
         /\ \A c \in Conns : reader'[c] = reader[c] \/ reader'[c].pc \in {"idle", "err"}
         /\ \A r \in Runs : decider'[r] \in {decider[r], "idle"}
         /\ \A c \in Conns : assign[c] \subseteq assign'[c]
         /\ UNCHANGED ctxDone
<1> DEFINE Frame ==
         /\ \A u \in Threads :
              \/ disp'[u] = disp[u]
              \/ disp'[u].run = None
              \/ \E c \in Conns : disp'[u].at = c /\ ~Closed(c)
         /\ \A c \in Conns : \/ conn'[c] = conn[c]
                             \/ conn[c] = "accepting" /\ conn'[c] \in {"serving", "dying"}
         /\ \A c \in Conns : reader'[c] = reader[c] \/ reader'[c].pc \in {"idle", "err"}
         /\ \A r \in Runs : decider'[r] \in {decider[r], "idle"}
<1>1. ASSUME NEW ok \in BOOLEAN, Return(t, ok) PROVE Frame
  BY <1>1, ReturnFrame
<1>2. ASSUME Stay, \A u \in Threads : disp'[u] = disp[u] \/ disp'[u].run = None PROVE Frame
  BY <1>2 DEF Stay, callerVars
<1>3. ASSUME NEW left, Continue(t, left) PROVE Frame
  <2>1. CASE left = {}
    BY <1>1, <1>3, <2>1 DEF Continue
  <2>2. CASE left # {}
    <3> DEFINE call == [on |-> TRUE, todo |-> left, at |-> None, run |-> None]
    <3>0. disp' = [disp EXCEPT ![t] = call] /\ call.run = None
      BY <1>3, <2>2 DEF Continue
    <3> HIDE DEF call
    <3>1. \A u \in Threads : disp'[u] = disp[u] \/ disp'[u].run = None
      BY <3>0 DEF TypeOK, CallerTypeOK
    <3> QED
      BY <1>2, <1>3, <2>2, <3>1 DEF Continue
  <2> QED
    BY <2>1, <2>2
<1>4. ASSUME NEW c \in Conns, NEW r \in Runs, DispatchClaim(t, c, r) PROVE Frame
  <2>1. \A u \in Threads : disp'[u] = disp[u] \/ (disp'[u].at = c /\ ~Closed(c))
    BY <1>4 DEF DispatchClaim, TypeOK, CallerTypeOK
  <2> QED
    BY <1>4, <2>1 DEF DispatchClaim, Stay, callerVars
<1>5. ASSUME NEW c \in Conns, NEW r \in Runs, DispatchDeliver(t, c, r)
      PROVE  Frame /\ \A d \in Conns : assign[d] \subseteq assign'[d]
  <2>1. /\ disp'[t].run = None
        /\ \A u \in Threads \ {t} : disp'[u] = disp[u]
    BY <1>5, DeliverTakes
  <2>2. \A d \in Conns : assign[d] \subseteq assign'[d]
    BY <1>5 DEF DispatchDeliver, TypeOK, RuntimeTypeOK
  <2> QED
    BY <1>2, <1>5, <2>1, <2>2 DEF DispatchDeliver
<1> HIDE DEF Frame
<1>6. Frame
  BY <1>1, <1>3, <1>4, <1>5
  DEF DispatchStep, DispatchStart, DispatchError, DispatchPass, DispatchNoJob, DispatchAbort
<1>7. (\A c \in Conns : assign[c] \subseteq assign'[c]) /\ UNCHANGED ctxDone
  BY <1>5
  DEF DispatchStep, DispatchStart, DispatchError, DispatchPass, DispatchNoJob, DispatchClaim,
      DispatchDeliver, DispatchAbort
<1> QED
  BY <1>6, <1>7 DEF Frame

LEMMA DeliversStep ==
  ASSUME HoldersInv, [Next]_vars
  PROVE  DeliversToOpen'
<1> USE DEF HoldersInv
<1>1. \A t \in Threads :
        \/ disp'[t] = disp[t]
        \/ disp'[t].run = None
        \/ \E c \in Conns : disp'[t].at = c /\ ~Closed(c)
  <2>1. CASE \E t \in Threads : DispatchStep(t)
    BY <2>1, DispatchFrame
  <2>2. CASE UNCHANGED disp \/ Restart
    BY <2>2 DEF Restart, NoCall
  <2>3. ASSUME NEW c \in Conns, ConnStep(c) PROVE UNCHANGED disp
    BY <2>3, ReaderShrinks
    DEF ConnStep, Connect, ClientDrop, Teardown, HandlerLeaves, SendFails, Deregister, Close,
        HandlerReturns, RequeueLimbo, SendCommand, ProcStreams, ProcAdvances, ProcCallsTool,
        ProcApproved, ProcRefused, ProcFinishes, ProcMoves
  <2>4. ASSUME NEW r \in Runs, RunStep(r) PROVE UNCHANGED disp
    BY <2>4 DEF RunStep, SendMessage, ChatHangsUp, ChatStep, ChatEnds, ChatCancels, CancelRun,
                ChatTells, ChatGoes, Decide, DeciderNotifies, DeciderGoes
  <2> QED
    BY <2>1, <2>2, <2>3, <2>4 DEF Next, vars
<1>2. \A t \in Threads : disp'[t].run # None => disp'[t].at \in Conns /\ ~Closed(disp'[t].at)
  BY <1>1 DEF DeliversToOpen
<1>3. \A c \in Conns : ~Closed(c) =>
        \/ ~Closed(c)'
        \/ Close(c)
        \/ \A t \in Threads : disp'[t].run = None
  <2>1. ASSUME NEW t \in Threads, DispatchStep(t), NEW c \in Conns, ~Closed(c) PROVE ~Closed(c)'
    BY <2>1, DispatchFrame DEF Closed
  <2>2. CASE UNCHANGED conn \/ Restart
    BY <2>2 DEF Restart, NoCall, Closed
  <2>3. ASSUME NEW d \in Conns, ConnStep(d), NEW c \in Conns, ~Closed(c) PROVE ~Closed(c)' \/ Close(c)
    <3>1. CASE ReaderStep(d) \/ SendCommand(d) \/ ClientDrop(d)
      BY <2>3, <3>1, ReaderShrinks DEF SendCommand, ClientDrop, Closed
    <3>2. CASE \E r \in Runs : ProcStreams(d, r) \/ ProcAdvances(d, r) \/ RequeueLimbo(d, r)
      BY <2>3, <3>2
      DEF ProcStreams, ProcAdvances, ProcCallsTool, ProcApproved, ProcRefused, ProcFinishes, ProcMoves,
          RequeueLimbo, runtimeVars, Closed
    <3>3. CASE Connect(d) \/ HandlerLeaves(d) \/ SendFails(d) \/ Deregister(d)
      BY <2>3, <3>3
      DEF Connect, HandlerLeaves, SendFails, Deregister, Closed, TypeOK, RuntimeTypeOK, ConnState
    <3>4. CASE Close(d) \/ HandlerReturns(d)
      BY <2>3, <3>4 DEF Close, HandlerReturns, Closed, TypeOK, RuntimeTypeOK, ConnState
    <3> QED
      BY <2>3, <3>1, <3>2, <3>3, <3>4 DEF ConnStep, Teardown
  <2>4. ASSUME NEW r \in Runs, RunStep(r) PROVE UNCHANGED conn
    BY <2>4 DEF RunStep, SendMessage, ChatHangsUp, ChatStep, ChatEnds, ChatCancels, CancelRun,
                ChatTells, ChatGoes, Decide, DeciderNotifies, DeciderGoes
  <2> QED
    BY <2>1, <2>2, <2>3, <2>4 DEF Next, vars, runtimeVars
<1>4. ASSUME NEW t \in Threads, disp'[t].run # None, Close(disp'[t].at) PROVE FALSE
  <2>1. disp'[t] = disp[t]
    BY <1>4 DEF Close
  <2> QED
    BY <1>4, <2>1 DEF Close, LockFree
<1> QED
  BY <1>2, <1>3, <1>4 DEF DeliversToOpen

LEMMA RefusedStep ==
  ASSUME HoldersInv, [Next]_vars
  PROVE  RefusedEnded'
<1> USE DEF HoldersInv
<1>1. \A r \in Runs : decider'[r] = "refused" => decider[r] = "refused" \/ Ended(r)'
  <2>1. ASSUME NEW t \in Threads, DispatchStep(t), NEW r \in Runs, decider'[r] = "refused"
        PROVE  decider[r] = "refused"
    BY <2>1, DispatchFrame
  <2>2. CASE UNCHANGED decider \/ Restart
    BY <2>2 DEF Restart
  <2>3. ASSUME NEW c \in Conns, ConnStep(c) PROVE UNCHANGED decider
    BY <2>3, ReaderShrinks
    DEF ConnStep, Connect, ClientDrop, Teardown, HandlerLeaves, SendFails, Deregister, Close,
        HandlerReturns, RequeueLimbo, SendCommand, ProcStreams, ProcAdvances, ProcCallsTool,
        ProcApproved, ProcRefused, ProcFinishes, ProcMoves, callerVars
  <2>4. ASSUME NEW s \in Runs, NEW r \in Runs, RunStep(s), decider'[r] = "refused"
        PROVE  decider[r] = "refused" \/ Ended(r)'
    <3>1. CASE SendMessage(s) \/ ChatHangsUp(s) \/ ChatStep(s)
      BY <2>4, <3>1 DEF SendMessage, ChatHangsUp, ChatStep, ChatEnds, ChatCancels, CancelRun,
                        ChatTells, ChatGoes
    <3>2. CASE Decide(s) \/ DeciderNotifies(s)
      BY <2>4, <3>2
      DEF Decide, DeciderNotifies, DeciderGoes, DenyApproval, ExpireApproval, RefuseApproval, Ended,
          Finished, TypeOK, CallerTypeOK, RepoTypeOK
    <3> QED
      BY <2>4, <3>1, <3>2 DEF RunStep
  <2> QED
    BY <2>1, <2>2, <2>3, <2>4 DEF Next, vars, callerVars
<1> QED
  BY <1>1, EndsStay DEF RefusedEnded

(***************************************************************************)
(* Commands: a live connection's assignments are assigned.                 *)
(***************************************************************************)
LEMMA AppendParts ==
  ASSUME NEW S, NEW s \in Seq(S), NEW e \in S, NEW i \in DOMAIN Append(s, e)
  PROVE  Append(s, e)[i] = e \/ (i \in DOMAIN s /\ Append(s, e)[i] = s[i])
OBVIOUS

LEMMA TailParts ==
  ASSUME NEW S, NEW s \in Seq(S), s # <<>>, NEW i \in DOMAIN Tail(s)
  PROVE  i + 1 \in DOMAIN s /\ Tail(s)[i] = s[i + 1]
OBVIOUS

\* The commands of c are old ones, or do not assign, or assign a held run.
OldCommands(c) ==
  \A i \in DOMAIN cmds'[c] :
    \/ cmds'[c][i].kind # "assigned"
    \/ cmds'[c][i].run \in assign'[c]
    \/ \E j \in DOMAIN cmds[c] : cmds'[c][i] = cmds[c][j]

LEMMA AppendIsOld ==
  ASSUME TypeOK, NEW c \in Conns, NEW m \in Command, cmds'[c] = Append(cmds[c], m),
         m.kind # "assigned" \/ m.run \in assign'[c]
  PROVE  OldCommands(c)
<1>1. cmds[c] \in Seq(Command)
  BY DEF TypeOK, RuntimeTypeOK
<1>2. ASSUME NEW i \in DOMAIN Append(cmds[c], m)
      PROVE  Append(cmds[c], m)[i] = m \/ (i \in DOMAIN cmds[c] /\ Append(cmds[c], m)[i] = cmds[c][i])
  BY <1>1, <1>2, AppendParts
<1> QED
  BY <1>2, Zenon DEF OldCommands

LEMMA TailIsOld ==
  ASSUME TypeOK, NEW c \in Conns, cmds[c] # <<>>, cmds'[c] = Tail(cmds[c])
  PROVE  OldCommands(c)
<1>1. cmds[c] \in Seq(Command)
  BY DEF TypeOK, RuntimeTypeOK
<1>2. ASSUME NEW i \in DOMAIN Tail(cmds[c])
      PROVE  i + 1 \in DOMAIN cmds[c] /\ Tail(cmds[c])[i] = cmds[c][i + 1]
  BY <1>1, <1>2, TailParts
<1> QED
  BY <1>2, Zenon DEF OldCommands

LEMMA SameIsOld == \A c : cmds'[c] = cmds[c] => OldCommands(c)
BY DEF OldCommands

LEMMA CommandsStep ==
  ASSUME HoldersInv, [Next]_vars
  PROVE  CommandsAssigned'
<1> DEFINE Out(c)  == conn[c] \in {"dying", "removed"}
           Kept(c) == OldCommands(c) /\ \A r \in assign[c] : r \in assign'[c] \/ Ended(r)
<1> USE DEF HoldersInv
<1>1. SUFFICES ASSUME NEW c \in Conns
               PROVE  \/ Out(c)'
                      \/ cmds'[c] = <<>>
                      \/ ~Out(c) /\ Kept(c)
  <2> SUFFICES ASSUME NEW c \in Conns, ~Out(c)', NEW i \in DOMAIN cmds'[c], cmds'[c][i].kind = "assigned"
               PROVE  cmds'[c][i].run \in assign'[c] \/ run'[cmds'[c][i].run] \in Finished
    BY DEF CommandsAssigned, Ended
  <2>1. ~Out(c) /\ Kept(c)
    <3>1. cmds'[c] # <<>>
      OBVIOUS
    <3> QED
      BY <1>1, <3>1
  <2>2. CASE cmds'[c][i].run \in assign'[c]
    BY <2>2
  <2>3. ASSUME NEW j \in DOMAIN cmds[c], cmds'[c][i] = cmds[c][j]
        PROVE  cmds'[c][i].run \in assign'[c] \/ run'[cmds'[c][i].run] \in Finished
    <3>1. cmds[c][j].run \in assign[c] \/ Ended(cmds[c][j].run)
      BY <2>1, <2>3 DEF CommandsAssigned
    <3>2. cmds[c][j].run \in Runs
      <4>1. cmds[c] \in Seq(Command)
        BY DEF TypeOK, RuntimeTypeOK
      <4>2. cmds[c][j] \in Command
        BY <2>3, <4>1
      <4> QED
        BY <4>2 DEF Command
    <3>3. cmds[c][j].run \in assign'[c] \/ Ended(cmds[c][j].run)
      BY <2>1, <3>1
    <3> QED
      BY <2>3, <3>2, <3>3, EndsStay DEF Ended
  <2> QED
    BY <2>1, <2>2, <2>3 DEF OldCommands
<1>2. ASSUME Out(c)' <=> Out(c), UNCHANGED <<assign, cmds>> PROVE Out(c)' \/ (~Out(c) /\ Kept(c))
  BY <1>2, SameIsOld
<1>3. CASE UNCHANGED vars
  BY <1>2, <1>3 DEF vars, runtimeVars
<1>4. CASE Restart
  BY <1>4 DEF Restart
<1>5. ASSUME NEW t \in Threads, DispatchStep(t)
      PROVE  Out(c)' \/ (~Out(c) /\ Kept(c))
  <2>1. ~Out(c)' => ~Out(c)
    BY <1>5, DispatchFrame DEF TypeOK, RuntimeTypeOK
  <2>2. OldCommands(c)
    <3>1. ASSUME NEW d \in Conns, NEW r \in Runs, DispatchDeliver(t, d, r) PROVE OldCommands(c)
      <4>1. CASE c # d
        BY <3>1, <4>1, SameIsOld DEF DispatchDeliver, TypeOK, RuntimeTypeOK
      <4>2. CASE c = d
        <5>1. cmds'[c] = Append(cmds[c], Msg("assigned", r)) /\ r \in assign'[c]
          BY <3>1, <4>2 DEF DispatchDeliver, TypeOK, RuntimeTypeOK
        <5>2. Msg("assigned", r) \in Command /\ Msg("assigned", r).run = r
          BY MsgTypes DEF Msg
        <5> QED
          BY <5>1, <5>2, AppendIsOld
      <4> QED
        BY <4>1, <4>2
    <3>2. CASE UNCHANGED cmds
      BY <3>2, SameIsOld
    <3> QED
      BY <1>5, <3>1, <3>2
      DEF DispatchStep, DispatchStart, DispatchError, DispatchPass, DispatchNoJob, DispatchClaim,
          DispatchAbort
  <2>3. assign[c] \subseteq assign'[c]
    BY <1>5, DispatchFrame
  <2> QED
    BY <2>1, <2>2, <2>3
<1>6. ASSUME NEW d \in Conns,
             \/ Connect(d) \/ ClientDrop(d)
             \/ \E r \in Runs : RequeueLimbo(d, r) \/ ProcStreams(d, r) \/ ProcAdvances(d, r)
      PROVE  Out(c)' \/ (~Out(c) /\ Kept(c))
  <2>1. UNCHANGED <<assign, cmds>>
    BY <1>6
    DEF Connect, ClientDrop, RequeueLimbo, ProcStreams, ProcAdvances, ProcCallsTool, ProcApproved,
        ProcRefused, ProcFinishes, ProcMoves, runtimeVars
  <2>2. Out(c)' <=> Out(c)
    <3>1. CASE Connect(d)
      BY <3>1 DEF Connect, TypeOK, RuntimeTypeOK
    <3>2. CASE ~Connect(d)
      <4>1. UNCHANGED conn
        BY <1>6, <3>2
        DEF ClientDrop, RequeueLimbo, ProcStreams, ProcAdvances, ProcCallsTool, ProcApproved,
            ProcRefused, ProcFinishes, ProcMoves, runtimeVars
      <4> QED
        BY <4>1
    <3> QED
      BY <3>1, <3>2
  <2> QED
    BY <1>2, <2>1, <2>2
<1>7. ASSUME NEW d \in Conns, SendFails(d) \/ HandlerLeaves(d) \/ Deregister(d)
      PROVE  Out(c)' \/ (~Out(c) /\ Kept(c))
  <2>1. CASE d = c
    BY <1>7, <2>1 DEF SendFails, HandlerLeaves, Deregister, TypeOK, RuntimeTypeOK
  <2>2. CASE d # c
    <3>1. conn'[c] = conn[c] /\ assign'[c] = assign[c] /\ cmds'[c] = cmds[c]
      BY <1>7, <2>2 DEF SendFails, HandlerLeaves, Deregister, TypeOK, RuntimeTypeOK
    <3> QED
      BY <3>1, SameIsOld
  <2> QED
    BY <2>1, <2>2
<1>8. ASSUME NEW d \in Conns, Close(d) \/ HandlerReturns(d)
      PROVE  Out(c)' \/ cmds'[c] = <<>> \/ (~Out(c) /\ Kept(c))
  <2>1. CASE Close(d) /\ d = c
    BY <2>1 DEF Close, TypeOK, RuntimeTypeOK
  <2>2. CASE HandlerReturns(d) /\ d = c
    BY <2>2, SameIsOld DEF HandlerReturns, TypeOK, RuntimeTypeOK
  <2>3. CASE d # c
    <3>1. conn'[c] = conn[c] /\ assign'[c] = assign[c] /\ cmds'[c] = cmds[c]
      BY <1>8, <2>3 DEF Close, HandlerReturns, TypeOK, RuntimeTypeOK
    <3> QED
      BY <3>1, SameIsOld
  <2> QED
    BY <1>8, <2>1, <2>2, <2>3
<1>9. ASSUME NEW d \in Conns, SendCommand(d)
      PROVE  Out(c)' \/ (~Out(c) /\ Kept(c))
  <2>1. UNCHANGED <<conn, assign>>
    BY <1>9 DEF SendCommand
  <2>2. OldCommands(c)
    <3>1. CASE d = c
      BY <1>9, <3>1, TailIsOld DEF SendCommand, TypeOK, RuntimeTypeOK
    <3>2. CASE d # c
      BY <1>9, <3>2, SameIsOld DEF SendCommand, TypeOK, RuntimeTypeOK
    <3> QED
      BY <3>1, <3>2
  <2> QED
    BY <2>1, <2>2
<1>10. ASSUME NEW d \in Conns, ReaderStep(d)
       PROVE  Out(c)' \/ (~Out(c) /\ Kept(c))
  <2>1. OldCommands(c)
    <3>1. CASE UNCHANGED cmds
      BY <3>1, SameIsOld
    <3>2. CASE ReaderAnswers(d) /\ d = c
      <4> DEFINE m == Msg(IF reader[c].pc = "ask" THEN "ask" ELSE "decision", reader[c].run)
      <4>1. reader[c].run \in Runs
        BY <3>2 DEF ReaderAnswers, TypeOK, RuntimeTypeOK, ReaderState, AtRun
      <4>2. m \in Command /\ m.kind # "assigned"
        BY <4>1, MsgTypes DEF Msg
      <4>3. cmds'[c] = Append(cmds[c], m)
        BY <3>2 DEF ReaderAnswers, TypeOK, RuntimeTypeOK
      <4> HIDE DEF m
      <4> QED
        BY <4>2, <4>3, AppendIsOld
    <3>3. CASE d # c
      BY <1>10, <3>3, ReaderShrinks, SameIsOld
    <3> QED
      BY <1>10, <3>1, <3>2, <3>3
      DEF ReaderStep, ReaderRejects, ReaderNotes, ReaderEnds, Take, ReaderAsks, ReaderQuits, ReaderReleases
  <2>2. \A r \in assign[c] : r \in assign'[c] \/ Ended(r)
    <3>1. CASE ReaderReleases(d)
      BY <3>1 DEF ReaderReleases, ReaderHolds, TypeOK, RuntimeTypeOK
    <3>2. CASE UNCHANGED assign
      BY <3>2
    <3> QED
      BY <1>10, <3>1, <3>2
      DEF ReaderStep, ReaderRejects, ReaderNotes, ReaderEnds, Take, ReaderAsks, ReaderQuits, ReaderAnswers
  <2> QED
    BY <1>10, <2>1, <2>2, ReaderShrinks
<1>11. ASSUME NEW r \in Runs, RunStep(r)
       PROVE  Out(c)' \/ (~Out(c) /\ Kept(c))
  <2>1. OldCommands(c)
    <3>1. ASSUME NEW kind \in {"cancelled", "updated"}, TellOwner(r, kind) PROVE OldCommands(c)
      <4>1. CASE cmds'[c] = cmds[c]
        BY <4>1, SameIsOld
      <4>2. CASE cmds'[c] = Append(cmds[c], Msg(kind, r))
        <5>1. Msg(kind, r) \in Command /\ Msg(kind, r).kind # "assigned"
          BY MsgTypes DEF Msg
        <5> QED
          BY <4>2, <5>1, AppendIsOld
      <4> QED
        BY <3>1, <4>1, <4>2 DEF TellOwner, Owners, Registered, TypeOK, RuntimeTypeOK
    <3>2. CASE UNCHANGED cmds
      BY <3>2, SameIsOld
    <3> QED
      BY <1>11, <3>1, <3>2
      DEF RunStep, SendMessage, ChatHangsUp, ChatStep, ChatEnds, ChatCancels, CancelRun, ChatTells,
          Decide, DeciderNotifies
  <2>2. (\A s \in assign[c] : s \in assign'[c] \/ Ended(s)) /\ UNCHANGED conn
    BY <1>11
    DEF RunStep, SendMessage, ChatHangsUp, ChatStep, ChatEnds, ChatCancels, CancelRun, ChatTells,
        ChatGoes, Decide, DeciderNotifies, DeciderGoes, RefusedEnded
  <2> QED
    BY <2>1, <2>2
<1> HIDE DEF Out, Kept
<1> QED
  BY <1>3, <1>4, <1>5, <1>6, <1>7, <1>8, <1>9, <1>10, <1>11 DEF Next, ConnStep, Teardown

(***************************************************************************)
(* Readers: a reader past its status check works for a held run.           *)
(***************************************************************************)

\* What ReaderHolds says of one connection.
HoldsAt(c) ==
  /\ reader[c].pc = "checked" /\ ~ctxDone[c] =>
       conn[c] = "serving" /\ (reader[c].run \in assign[c] \/ Ended(reader[c].run))
  /\ reader[c].pc = "release" => Ended(reader[c].run)

\* The reader stays where it is, and its connection and run stay as they are.
LEMMA HoldsStays ==
  ASSUME HoldersInv, [Next]_vars, NEW c \in Conns,
         reader'[c] = reader[c],
         ctxDone'[c] \/ (ctxDone'[c] = ctxDone[c] /\ (conn[c] = "serving" => conn'[c] = "serving")),
         \A r \in assign[c] : ctxDone'[c] \/ r \in assign'[c] \/ Ended(r)
  PROVE  HoldsAt(c)'
<1>1. HoldsAt(c)
  BY DEF HoldersInv, ReaderHolds, HoldsAt
<1>2. reader[c].pc \in AtRun => reader[c].run \in Runs
  BY DEF HoldersInv, TypeOK, RuntimeTypeOK, ReaderState, AtRun
<1>3. reader[c].pc \in AtRun /\ Ended(reader[c].run) => run'[reader[c].run] \in Finished
  BY <1>2, EndsStay DEF HoldersInv, Ended
<1> QED
  BY <1>1, <1>3 DEF HoldsAt, AtRun, Ended

\* The reader is past its work.
LEMMA HoldsIdle == \A c \in Conns : reader'[c].pc \notin {"checked", "release"} => HoldsAt(c)'
BY DEF HoldsAt

LEMMA ReaderStepHolds ==
  ASSUME HoldersInv, [Next]_vars, NEW c \in Conns, NEW d \in Conns, ReaderStep(d)
  PROVE  HoldsAt(c)'
<1> USE DEF HoldersInv
<1>1. CASE c # d
  BY <1>1, ReaderShrinks, HoldsStays
<1>2. ASSUME c = d,
             NEW k \in {"event", "beacon", "before", "completed", "empty", "failed", "ack"},
             NEW r \in Runs,
             \/ ReaderRejects(c, Msg(k, r))
             \/ ReaderNotes(c, Msg(k, r))
             \/ ReaderEnds(c, Msg(k, r))
      PROVE  HoldsAt(c)'
  <2>1. Head(up[c]) = Msg(k, r) /\ Msg(k, r).run = r /\ Msg(k, r).kind = k
    BY <1>2 DEF ReaderRejects, ReaderNotes, ReaderEnds, Reading, Msg
  <2>2. ASSUME NEW pc \in {"idle", "err", "answer", "checked", "release"}, Take(c, pc)
        PROVE  reader'[c].pc = pc /\ (pc \in AtRun => reader'[c].run = r)
    BY <2>1, <2>2 DEF Take, At, TypeOK, RuntimeTypeOK
  <2>3. CASE ReaderRejects(c, Msg(k, r))
    <3>1. reader'[c].pc = "err"
      BY <2>2, <2>3 DEF ReaderRejects
    <3> QED
      BY <3>1, HoldsIdle
  <2>4. CASE ReaderNotes(c, Msg(k, r))
    <3>1. CASE Take(c, "idle") \/ Take(c, "answer")
      BY <2>2, <3>1, HoldsIdle
    <3>2. CASE Take(c, "checked")
      <4>1. reader'[c].pc = "checked" /\ reader'[c].run = r
        BY <2>2, <3>2 DEF AtRun
      <4>2. conn[c] = "serving" /\ r \in assign[c]
        BY <2>1, <2>4 DEF ReaderNotes, Reading, Acceptable
      <4>3. UNCHANGED <<conn, assign>>
        BY <3>2 DEF Take
      <4> QED
        BY <4>1, <4>2, <4>3 DEF HoldsAt
    <3> QED
      BY <2>4, <3>1, <3>2 DEF ReaderNotes
  <2>5. CASE ReaderEnds(c, Msg(k, r))
    <3>1. reader'[c].pc = "release" /\ reader'[c].run = r
      BY <2>2, <2>5 DEF ReaderEnds, AtRun
    <3>2. run'[r] \in Finished
      BY <2>1, <2>5
      DEF ReaderEnds, Acceptable, CompleteRunWithEvent, FailRunWithEvent, repoVars, Finished, TypeOK, RepoTypeOK
    <3> QED
      BY <3>1, <3>2 DEF HoldsAt, Ended
  <2> QED
    BY <1>2, <2>3, <2>4, <2>5
<1>3. ASSUME NEW pc \in {"idle", "ask", "dispatch", "err"}, ReaderGoes(c, pc) PROVE HoldsAt(c)'
  <2>1. reader'[c].pc = pc
    BY <1>3 DEF ReaderGoes, At, TypeOK, RuntimeTypeOK
  <2> QED
    BY <2>1, HoldsIdle
<1> QED
  BY <1>1, <1>2, <1>3 DEF ReaderStep, ReaderAsks, ReaderAnswers, ReaderQuits, ReaderReleases

LEMMA ReadersStep ==
  ASSUME HoldersInv, [Next]_vars
  PROVE  ReaderHolds'
<1> USE DEF HoldersInv
<1>1. SUFFICES ASSUME NEW c \in Conns PROVE HoldsAt(c)'
  BY DEF ReaderHolds, HoldsAt
<1>2. CASE UNCHANGED <<reader, ctxDone, conn, assign>>
  BY <1>2, HoldsStays
<1>3. CASE Restart
  <2>1. reader'[c].pc = "off"
    BY <1>3 DEF Restart, Off, At
  <2> QED
    BY <2>1, HoldsIdle
<1>4. ASSUME NEW t \in Threads, DispatchStep(t) PROVE HoldsAt(c)'
  <2>1. CASE reader'[c] = reader[c]
    <3>1. /\ conn[c] = "serving" => conn'[c] = "serving"
          /\ ctxDone'[c] = ctxDone[c]
          /\ assign[c] \subseteq assign'[c]
      BY <1>4, DispatchFrame
    <3> QED
      BY <2>1, <3>1, HoldsStays
  <2>2. CASE reader'[c].pc \in {"idle", "err"}
    BY <2>2, HoldsIdle
  <2> QED
    BY <1>4, <2>1, <2>2, DispatchFrame
<1>5. ASSUME NEW d \in Conns, Connect(d) PROVE HoldsAt(c)'
  <2>1. CASE d = c
    <3>1. reader'[c].pc = "off"
      BY <1>5, <2>1 DEF Connect, Off, At, TypeOK, RuntimeTypeOK
    <3> QED
      BY <3>1, HoldsIdle
  <2>2. CASE d # c
    <3>1. reader'[c] = reader[c] /\ ctxDone'[c] = ctxDone[c] /\ conn'[c] = conn[c] /\ assign' = assign
      BY <1>5, <2>2 DEF Connect, TypeOK, RuntimeTypeOK
    <3> QED
      BY <3>1, HoldsStays
  <2> QED
    BY <2>1, <2>2
<1>6. ASSUME NEW d \in Conns, ClientDrop(d) \/ HandlerReturns(d) PROVE HoldsAt(c)'
  <2>1. /\ UNCHANGED <<reader, assign>>
        /\ ctxDone'[c] \/ (ctxDone'[c] = ctxDone[c] /\ conn'[c] = conn[c])
    BY <1>6 DEF ClientDrop, HandlerReturns, TypeOK, RuntimeTypeOK
  <2> QED
    BY <2>1, HoldsStays
<1>7. ASSUME NEW d \in Conns, HandlerLeaves(d) PROVE HoldsAt(c)'
  <2>1. CASE d # c \/ ctxDone[c]
    <3>1. /\ UNCHANGED <<reader, assign, ctxDone>>
          /\ ctxDone[c] \/ conn'[c] = conn[c]
      BY <1>7, <2>1 DEF HandlerLeaves, TypeOK, RuntimeTypeOK
    <3> QED
      BY <3>1, HoldsStays
  <2>2. CASE d = c /\ reader[c].pc = "err"
    BY <1>7, <2>2, HoldsIdle DEF HandlerLeaves
  <2> QED
    BY <1>7, <2>1, <2>2 DEF HandlerLeaves
<1>8. ASSUME NEW d \in Conns, SendFails(d) PROVE HoldsAt(c)'
  <2>1. /\ UNCHANGED <<reader, ctxDone>>
        /\ ctxDone[c] \/ (conn'[c] = conn[c] /\ assign'[c] = assign[c])
    BY <1>8 DEF SendFails, TypeOK, RuntimeTypeOK
  <2> QED
    BY <2>1, HoldsStays
<1>9. ASSUME NEW d \in Conns, Deregister(d) PROVE HoldsAt(c)'
  <2>1. /\ UNCHANGED <<reader, ctxDone, assign>>
        /\ conn[c] = "serving" => conn'[c] = "serving"
    BY <1>9 DEF Deregister, TypeOK, RuntimeTypeOK
  <2> QED
    BY <2>1, HoldsStays
<1>10. ASSUME NEW d \in Conns, Close(d) PROVE HoldsAt(c)'
  <2>1. CASE d # c
    <3>1. reader'[c] = reader[c] /\ ctxDone'[c] = ctxDone[c] /\ conn'[c] = conn[c] /\ assign'[c] = assign[c]
      BY <1>10, <2>1 DEF Close, TypeOK, RuntimeTypeOK
    <3> QED
      BY <3>1, HoldsStays
  <2>2. CASE d = c
    <3>1. UNCHANGED <<run, reader, ctxDone>> /\ conn[c] = "removed"
      BY <1>10, <2>2 DEF Close, repoVars
    <3> QED
      BY <3>1 DEF HoldsAt, ReaderHolds, Ended
  <2> QED
    BY <2>1, <2>2
<1>11. ASSUME NEW d \in Conns, ReaderStep(d) PROVE HoldsAt(c)'
  BY <1>11, ReaderStepHolds
<1>12. ASSUME NEW d \in Conns,
              \/ SendCommand(d)
              \/ \E r \in Runs : RequeueLimbo(d, r) \/ ProcStreams(d, r) \/ ProcAdvances(d, r)
       PROVE  HoldsAt(c)'
  BY <1>2, <1>12
  DEF SendCommand, RequeueLimbo, ProcStreams, ProcAdvances, ProcCallsTool, ProcApproved, ProcRefused,
      ProcFinishes, ProcMoves, runtimeVars
<1>13. ASSUME NEW r \in Runs, RunStep(r) PROVE HoldsAt(c)'
  <2>1. UNCHANGED <<reader, ctxDone, conn>> /\ \A s \in assign[c] : s \in assign'[c] \/ Ended(s)
    BY <1>13
    DEF RunStep, SendMessage, ChatHangsUp, ChatStep, ChatEnds, ChatCancels, CancelRun, ChatTells,
        ChatGoes, Decide, DeciderNotifies, DeciderGoes, RefusedEnded
  <2> QED
    BY <2>1, HoldsStays
<1> QED
  BY <1>2, <1>3, <1>4, <1>5, <1>6, <1>7, <1>8, <1>9, <1>10, <1>11, <1>12, <1>13
  DEF Next, ConnStep, Teardown, vars, runtimeVars

(***************************************************************************)
(* The theorems.                                                           *)
(***************************************************************************)
LEMMA HoldersInit == Init => HoldersInv
<1> SUFFICES ASSUME Init PROVE HoldersInv
  OBVIOUS
<1>1. RunJobAgree /\ RefusedEnded
  BY DEF Init, RepoInit, RunJobAgree, Active, Finished, RefusedEnded
<1>2. HeldIsActive /\ OneOwner
  BY NoneIsNotARun DEF Init, HeldIsActive, OneOwner, Responsible, NoCall
<1>3. CommandsAssigned /\ DeliversToOpen
  BY DEF Init, CommandsAssigned, DeliversToOpen, NoCall
<1>4. ReaderHolds
  BY DEF Init, ReaderHolds, Off, At
<1> QED
  BY <1>1, <1>2, <1>3, <1>4, InitTypes DEF HoldersInv

LEMMA HoldersNext == HoldersInv /\ [Next]_vars => HoldersInv'
<1> SUFFICES ASSUME HoldersInv, [Next]_vars PROVE HoldersInv'
  OBVIOUS
<1>1. \A c \in Conns, r \in Runs :
        reader[c] = At("checked", r) /\ ~ctxDone[c] /\ Cancellable(r) => Active(r)
  BY DEF HoldersInv, ReaderHolds, HeldIsActive, Responsible, At, AtRun, Ended, Cancellable, Active, Finished
<1>2. RunJobAgree'
  BY <1>1, AgreeStep, NextIsRepoStep DEF HoldersInv, TypeOK
<1> QED
  BY <1>2, NextTypes, HoldersStep, CommandsStep, ReadersStep, DeliversStep, RefusedStep DEF HoldersInv

\* The inductive invariant behind the two theorems below.
THEOREM HoldersAlways == Spec => []HoldersInv
<1> QED
  BY HoldersInit, HoldersNext, PTL DEF Spec

\* The run row and the job row never disagree, though approvals, claims, requeues,
\* completions and cancellations are separate transactions of many goroutines.
THEOREM RowsAgree == Spec => []RunJobAgree
<1>1. HoldersInv => RunJobAgree
  BY DEF HoldersInv
<1> QED
  BY <1>1, HoldersAlways, PTL

\* A run that has not ended is in one pair of hands at most, and only while its
\* job is in progress: nobody delivers or requeues it twice.
THEOREM HeldOnce == Spec => []OneHolder
<1>1. ASSUME HoldersInv, NEW r \in Runs, run[r] \notin Finished
      PROVE  Cardinality(Holders(r)) <= 1 /\ (Holders(r) # {} => job[r] = "in_progress")
  <2> DEFINE Hands(x) == \/ \E c \in Conns : x = <<"assigned", c>> /\ r \in assign[c]
                         \/ \E c \in Conns : x = <<"requeue", c>> /\ r \in limbo[c]
                         \/ x \in Threads /\ disp[x].run = r
  <2>1. \A x : x \in Holders(r) <=> Hands(x)
    BY DEF Holders
  <2>2. \A x, y : Hands(x) /\ Hands(y) => x = y
    BY <1>1 DEF HoldersInv, OneOwner, Ended, Responsible
  <2>3. (\E x : Hands(x)) => Active(r)
    BY <1>1 DEF HoldersInv, HeldIsActive, Ended, Responsible
  <2> HIDE DEF Hands
  <2>4. Holders(r) = {} \/ \E x : Holders(r) = {x}
    BY <2>1, <2>2
  <2>5. Cardinality(Holders(r)) <= 1
    BY <2>4, FS_EmptySet, FS_Singleton
  <2>6. Holders(r) # {} => Active(r)
    BY <2>1, <2>3
  <2> QED
    BY <1>1, <2>5, <2>6 DEF HoldersInv, RunJobAgree
<1>2. HoldersInv => OneHolder
  BY <1>1 DEF OneHolder
<1> QED
  BY <1>2, HoldersAlways, PTL

(***************************************************************************)
(* What the log, the attempts and the lease of a run say is true, and no   *)
(* worker is given more than it asked for.  The first two follow from what *)
(* a transaction can do to a row at all (RowStep); the others from who can *)
(* get hold of a run: by a claim alone, since every other step passes runs *)
(* on between the goroutines of one connection or lets go of them.         *)
(***************************************************************************)
Refused(r) == approval[r] \in {"denied", "expired"}

(***************************************************************************)
(* The log and the attempts.                                               *)
(***************************************************************************)

\* The status of r, its attempt, its approval and what is appended to its log.
Row(r, status, tries, decision, events) ==
  /\ run'[r] \in status
  /\ attempt'[r] = tries
  /\ approval'[r] \in decision
  /\ log'[r] = events

\* What a transaction does to a row.
RowStep(r) ==
  \/ /\ Row(r, {run[r]}, attempt[r], {approval[r], "consumed"}, log[r])
     /\ approval'[r] # approval[r] => approval[r] = "approved"
  \/ run[r] = "absent" /\ Row(r, {"queued"}, 1, {approval[r]}, Append(log[r], "queued"))
  \/ run[r] = "queued" /\ Row(r, {"running"}, attempt[r], {approval[r]}, Append(log[r], "started"))
  \/ run[r] = "running" /\ Row(r, {"queued"}, attempt[r] + 1, {approval[r]}, log[r])
  \/ Active(r) /\ Row(r, {"waiting_approval"}, attempt[r], {"pending"}, log[r])
  \/ run[r] = "waiting_approval" /\ Row(r, {"running"}, attempt[r], {"approved"}, log[r])
  \/ run[r] = "waiting_approval" /\ Row(r, {"failed"}, attempt[r], {"denied", "expired"}, log[r])
  \/ /\ Cancellable(r)
     /\ \E e \in Finished : Row(r, {e}, attempt[r], {approval[r]}, Append(log[r], e))

LEMMA RowSteps ==
  ASSUME RepoTypeOK, RepoStep, NEW r \in Runs,
         \A c \in Conns, s \in Runs :
           reader[c] = At("checked", s) /\ ~ctxDone[c] /\ Cancellable(s) => Active(s)
  PROVE  RowStep(r)
<1> USE DEF RepoTypeOK, RowStep, Row
<1>1. CASE UNCHANGED repoVars
  BY <1>1 DEF repoVars
<1>2. ASSUME NEW s \in Runs, EnqueueUserMessage(s) PROVE RowStep(r)
  BY <1>2 DEF EnqueueUserMessage, AppendRunEvent
<1>3. ASSUME NEW s \in Runs, NEW id \in WorkerIds, ClaimNextJob(s, id) PROVE RowStep(r)
  BY <1>3 DEF ClaimNextJob, Claimable, AppendRunEvent
<1>4. ASSUME NEW s \in Runs, RequeueClaimedJob(s) PROVE RowStep(r)
  BY <1>4 DEF RequeueClaimedJob, Requeueable
<1>5. ASSUME NEW s \in Runs,
             CompleteRunWithEvent(s) \/ FailRunWithEvent(s) \/ CancelRunWithEvent(s)
      PROVE  RowStep(r)
  <2>1. CASE r = s
    BY <1>5, <2>1
    DEF CompleteRunWithEvent, FailRunWithEvent, CancelRunWithEvent, Cancellable, AppendRunEvent, Finished
  <2>2. CASE r # s
    BY <1>5, <2>2 DEF CompleteRunWithEvent, FailRunWithEvent, CancelRunWithEvent, AppendRunEvent
  <2> QED
    BY <2>1, <2>2
<1>6. ASSUME NEW s \in Runs, NEW c \in Conns, CreateApproval(s), reader[c] = At("checked", s), ~ctxDone[c]
      PROVE  RowStep(r)
  BY <1>6 DEF CreateApproval
<1>7. ASSUME NEW s \in Runs, ApproveApproval(s) \/ ConsumeApproval(s) PROVE RowStep(r)
  BY <1>7 DEF ApproveApproval, ConsumeApproval, Undecided
<1>8. ASSUME NEW s \in Runs, DenyApproval(s) \/ ExpireApproval(s) PROVE RowStep(r)
  BY <1>8 DEF DenyApproval, ExpireApproval, RefuseApproval, Undecided
<1> QED
  BY <1>1, <1>2, <1>3, <1>4, <1>5, <1>6, <1>7, <1>8 DEF RepoStep, KeepStep

LEMMA RowsStep == HoldersInv /\ [Next]_vars => \A r \in Runs : RowStep(r)
<1> SUFFICES ASSUME HoldersInv, [Next]_vars, NEW r \in Runs PROVE RowStep(r)
  OBVIOUS
<1>1. \A c \in Conns, s \in Runs :
        reader[c] = At("checked", s) /\ ~ctxDone[c] /\ Cancellable(s) => Active(s)
  BY DEF HoldersInv, ReaderHolds, HeldIsActive, Responsible, At, AtRun, Ended, Cancellable, Active, Finished
<1> QED
  BY <1>1, RowSteps, NextIsRepoStep DEF HoldersInv, TypeOK

\* No event of the log is terminal; the last one is, and no other.
NoEnd(s)   == \A i \in DOMAIN s : s[i] \notin Finished
EndsAs(s, e) ==
  /\ s # <<>> /\ s[Len(s)] = e
  /\ \A i \in DOMAIN s : s[i] \in Finished => i = Len(s)

LEMMA AppendEnds ==
  ASSUME NEW s \in Seq(RunEvent), NEW e \in RunEvent, NoEnd(s)
  PROVE  /\ e \notin Finished => NoEnd(Append(s, e))
         /\ e \in Finished => EndsAs(Append(s, e), e)
<1>1. \A i \in DOMAIN Append(s, e) : i = Len(s) + 1 \/ (i \in DOMAIN s /\ Append(s, e)[i] = s[i])
  OBVIOUS
<1>2. Append(s, e) # <<>> /\ Len(Append(s, e)) = Len(s) + 1 /\ Append(s, e)[Len(s) + 1] = e
  OBVIOUS
<1>3. e \notin Finished => NoEnd(Append(s, e))
  BY <1>1, <1>2 DEF NoEnd
<1>4. e \in Finished => EndsAs(Append(s, e), e)
  BY <1>1, <1>2 DEF NoEnd, EndsAs
<1> QED
  BY <1>3, <1>4

\* A refused approval is that of a failed run.
EndsInv ==
  \A r \in Runs :
    /\ Refused(r) => run[r] = "failed"
    /\ Ended(r) /\ ~Refused(r) => EndsAs(log[r], run[r])
    /\ ~Ended(r) \/ Refused(r) => NoEnd(log[r])

LEMMA EndsNext == HoldersInv /\ EndsInv /\ [Next]_vars => EndsInv'
<1> SUFFICES ASSUME HoldersInv, EndsInv, [Next]_vars, NEW r \in Runs
             PROVE  /\ Refused(r)' => run'[r] = "failed"
                    /\ Ended(r)' /\ ~Refused(r)' => EndsAs(log'[r], run'[r])
                    /\ ~Ended(r)' \/ Refused(r)' => NoEnd(log'[r])
  BY DEF EndsInv, Ended
<1>1. run[r] \in RunStatus /\ log[r] \in Seq(RunEvent) /\ approval[r] \in ApprovalStatus
  BY DEF HoldersInv, TypeOK, RepoTypeOK
<1>2. /\ Refused(r) => run[r] = "failed"
      /\ Ended(r) /\ ~Refused(r) => EndsAs(log[r], run[r])
      /\ ~Ended(r) \/ Refused(r) => NoEnd(log[r])
  BY DEF EndsInv
<1>3. \A e \in RunEvent : NoEnd(log[r]) =>
        /\ e \notin Finished => NoEnd(Append(log[r], e))
        /\ e \in Finished => EndsAs(Append(log[r], e), e)
  BY <1>1, AppendEnds
<1>4. RowStep(r)
  BY RowsStep
<1> HIDE DEF NoEnd, EndsAs
<1>5. CASE log'[r] = log[r]
  <2>1. \A e \in RunEvent : Append(log[r], e) # log[r]
    <3>1. \A e \in RunEvent : Len(Append(log[r], e)) = Len(log[r]) + 1 /\ Len(log[r]) \in Nat
      BY <1>1
    <3> QED
      BY <3>1
  <2>2. Row(r, {run[r]}, attempt[r], {approval[r], "consumed"}, log[r]) /\ approval'[r] # approval[r]
          => approval[r] = "approved"
    BY <1>1, <1>4, <1>5, <2>1 DEF RowStep, Row, Active, Finished, RunEvent
  <2> QED
    BY <1>1, <1>2, <1>4, <1>5, <2>1 DEF RunEvent, RowStep, Row, Refused, Ended, Finished, Active
<1>6. ASSUME NEW e \in {"queued", "started"}, log'[r] = Append(log[r], e),
             run'[r] \notin Finished, ~Ended(r), approval'[r] = approval[r]
      PROVE  /\ Refused(r)' => run'[r] = "failed"
             /\ Ended(r)' /\ ~Refused(r)' => EndsAs(log'[r], run'[r])
             /\ ~Ended(r)' \/ Refused(r)' => NoEnd(log'[r])
  BY <1>2, <1>3, <1>6 DEF Refused, Ended, Finished, RunEvent
<1>7. ASSUME NEW e \in Finished, log'[r] = Append(log[r], e),
             run'[r] = e, ~Ended(r), approval'[r] = approval[r]
      PROVE  /\ Refused(r)' => run'[r] = "failed"
             /\ Ended(r)' /\ ~Refused(r)' => EndsAs(log'[r], run'[r])
             /\ ~Ended(r)' \/ Refused(r)' => NoEnd(log'[r])
  BY <1>2, <1>3, <1>7 DEF Refused, Ended, Finished, RunEvent
<1>8. \/ log'[r] = log[r]
      \/ \E e \in {"queued", "started"} :
           log'[r] = Append(log[r], e) /\ run'[r] \notin Finished /\ ~Ended(r) /\ approval'[r] = approval[r]
      \/ \E e \in Finished :
           log'[r] = Append(log[r], e) /\ run'[r] = e /\ ~Ended(r) /\ approval'[r] = approval[r]
  BY <1>4 DEF RowStep, Row, Ended, Finished, Cancellable, Active
<1> QED
  BY <1>5, <1>6, <1>7, <1>8

\* A run that has ended has one terminal event, its last and the right one, and a
\* run whose approval was refused has none: no order of completions, failures,
\* cancellations, refusals and requeues appends a second one or the wrong one.
THEOREM OneTerminalEvent == Spec => []TerminalEventOnce
<1>1. Init => EndsInv
  <2> SUFFICES ASSUME Init, NEW r \in Runs PROVE ~Refused(r) /\ ~Ended(r) /\ NoEnd(log[r])
    BY DEF EndsInv
  <2>1. run[r] = "absent" /\ approval[r] = "none" /\ log[r] = <<>>
    BY DEF Init, RepoInit
  <2>2. NoEnd(<<>>)
    BY DEF NoEnd
  <2> QED
    BY <2>1, <2>2 DEF Refused, Ended, Finished
<1>2. HoldersInv /\ EndsInv => TerminalEventOnce
  <2> SUFFICES ASSUME HoldersInv, EndsInv, NEW r \in Runs
               PROVE  LET ends == {i \in DOMAIN log[r] : log[r][i] \in Finished}
                      IN  IF run[r] \in Finished /\ approval[r] \notin {"denied", "expired"}
                            THEN ends = {Len(log[r])} /\ log[r][Len(log[r])] = run[r]
                            ELSE ends = {}
    BY DEF TerminalEventOnce
  <2>1. log[r] \in Seq(RunEvent)
    BY DEF HoldersInv, TypeOK, RepoTypeOK
  <2>2. CASE Ended(r) /\ ~Refused(r)
    <3>1. EndsAs(log[r], run[r])
      BY <2>2 DEF EndsInv
    <3>2. Len(log[r]) \in DOMAIN log[r]
      BY <2>1, <3>1 DEF EndsAs
    <3> QED
      BY <2>2, <3>1, <3>2 DEF EndsAs, Ended, Refused
  <2>3. CASE ~Ended(r) \/ Refused(r)
    BY <2>3 DEF EndsInv, NoEnd, Ended, Refused
  <2> QED
    BY <2>2, <2>3
<1> QED
  BY <1>1, <1>2, EndsNext, HoldersInit, HoldersNext, PTL DEF Spec

Started(s) == Cardinality({i \in DOMAIN s : s[i] = "started"})

LEMMA AppendStarts ==
  ASSUME NEW s \in Seq(RunEvent), NEW e \in RunEvent
  PROVE  /\ Started(s) \in Nat
         /\ Started(Append(s, e)) = IF e = "started" THEN Started(s) + 1 ELSE Started(s)
<1> DEFINE S == {i \in DOMAIN s : s[i] = "started"}
           T == {i \in DOMAIN Append(s, e) : Append(s, e)[i] = "started"}
<1>1. IsFiniteSet(1 .. Len(s)) /\ S \subseteq 1 .. Len(s)
  BY FS_Interval
<1>2. IsFiniteSet(S) /\ Cardinality(S) \in Nat
  BY <1>1, FS_Subset, FS_CardinalityType
<1>3. /\ DOMAIN Append(s, e) = 1 .. Len(s) + 1
      /\ \A i \in 1 .. Len(s) : Append(s, e)[i] = s[i]
      /\ Append(s, e)[Len(s) + 1] = e
  OBVIOUS
<1>4. T = IF e = "started" THEN S \union {Len(s) + 1} ELSE S
  BY <1>3
<1>5. Len(s) + 1 \notin S
  OBVIOUS
<1> HIDE DEF S, T
<1>6. Cardinality(T) = IF e = "started" THEN Cardinality(S) + 1 ELSE Cardinality(S)
  BY <1>2, <1>4, <1>5, FS_AddElement
<1> QED
  BY <1>2, <1>6 DEF Started, S, T

AttemptsInv ==
  \A r \in Runs :
    LET n == Started(log[r])
    IN  /\ run[r] = "absent" => attempt[r] = 0 /\ n = 0
        /\ run[r] = "queued" => attempt[r] = n + 1
        /\ Active(r) => attempt[r] = n
        /\ attempt[r] \in {n, n + 1}

LEMMA AttemptsNext == HoldersInv /\ AttemptsInv /\ [Next]_vars => AttemptsInv'
<1> SUFFICES ASSUME HoldersInv, AttemptsInv, [Next]_vars, NEW r \in Runs
             PROVE  /\ run'[r] = "absent" => attempt'[r] = 0 /\ Started(log'[r]) = 0
                    /\ run'[r] = "queued" => attempt'[r] = Started(log'[r]) + 1
                    /\ run'[r] \in {"running", "waiting_approval"} => attempt'[r] = Started(log'[r])
                    /\ attempt'[r] \in {Started(log'[r]), Started(log'[r]) + 1}
  BY DEF AttemptsInv, Active
<1>1. log[r] \in Seq(RunEvent) /\ attempt[r] \in Nat
  BY DEF HoldersInv, TypeOK, RepoTypeOK
<1>2. /\ Started(log[r]) \in Nat
      /\ \A e \in RunEvent :
           Started(Append(log[r], e)) = IF e = "started" THEN Started(log[r]) + 1 ELSE Started(log[r])
  <2>1. "queued" \in RunEvent
    BY DEF RunEvent
  <2> QED
    BY <1>1, <2>1, AppendStarts
<1>3. RowStep(r)
  BY RowsStep
<1> DEFINE n == Started(log[r])
           m == Started(log'[r])
<1>4. /\ run[r] = "absent" => attempt[r] = 0 /\ n = 0
      /\ run[r] = "queued" => attempt[r] = n + 1
      /\ Active(r) => attempt[r] = n
      /\ attempt[r] \in {n, n + 1}
  BY DEF AttemptsInv
<1>5. \/ m = n /\ attempt'[r] = attempt[r] /\ run'[r] = run[r]
      \/ m = n /\ attempt'[r] = 1 /\ run[r] = "absent" /\ run'[r] = "queued"
      \/ m = n + 1 /\ attempt'[r] = attempt[r] /\ run[r] = "queued" /\ run'[r] = "running"
      \/ m = n /\ attempt'[r] = attempt[r] + 1 /\ run[r] = "running" /\ run'[r] = "queued"
      \/ m = n /\ attempt'[r] = attempt[r] /\ Active(r)
           /\ run'[r] \in {"running", "waiting_approval"} \union Finished
      \/ m = n /\ attempt'[r] = attempt[r] /\ run'[r] \in Finished
  <2>1. /\ Started(Append(log[r], "queued")) = n
        /\ Started(Append(log[r], "started")) = n + 1
        /\ \A e \in Finished : Started(Append(log[r], e)) = n
    <3> HIDE DEF Started
    <3> QED
      BY <1>2 DEF RunEvent, Finished
  <2> HIDE DEF n
  <2>2. log'[r] = log[r] => m = n
    BY DEF n
  <2>3. \A e : log'[r] = Append(log[r], e) => m = Started(Append(log[r], e))
    OBVIOUS
  <2> HIDE DEF m, Started
  <2> QED
    BY <1>3, <2>1, <2>2, <2>3 DEF RowStep, Row, Active, Finished
<1> HIDE DEF n, m
<1>6. n \in Nat
  BY <1>2 DEF n
<1>7. /\ run'[r] = "absent" => attempt'[r] = 0 /\ m = 0
      /\ run'[r] = "queued" => attempt'[r] = m + 1
      /\ run'[r] \in {"running", "waiting_approval"} => attempt'[r] = m
      /\ attempt'[r] \in {m, m + 1}
  BY <1>1, <1>4, <1>5, <1>6 DEF Active, Finished
<1> QED
  BY <1>7 DEF m

\* The attempts that a job counts are those its log shows: every execution has its
\* own agent.run.started, and a requeued job is one ahead.
THEOREM AttemptsCounted == Spec => []StartedPerAttempt
<1>1. Init => AttemptsInv
  <2>1. {i \in DOMAIN <<>> : <<>>[i] = "started"} = {}
    OBVIOUS
  <2>2. Started(<<>>) = 0
    BY <2>1, FS_EmptySet DEF Started
  <2> QED
    <3> SUFFICES ASSUME Init, NEW r \in Runs
                 PROVE  run[r] = "absent" /\ attempt[r] = 0 /\ Started(log[r]) = 0
      BY DEF AttemptsInv, Active
    <3>1. run[r] = "absent" /\ attempt[r] = 0 /\ log[r] = <<>>
      BY DEF Init, RepoInit
    <3> QED
      BY <2>2, <3>1
<1>2. HoldersInv /\ AttemptsInv => StartedPerAttempt
  <2> SUFFICES ASSUME HoldersInv, AttemptsInv, NEW r \in Runs
               PROVE  /\ run[r] = "queued" => attempt[r] = Started(log[r]) + 1
                      /\ Active(r) => attempt[r] = Started(log[r])
                      /\ attempt[r] \in Started(log[r]) .. Started(log[r]) + 1
    BY DEF StartedPerAttempt, Started
  <2>1. Started(log[r]) \in Nat
    <3>1. log[r] \in Seq(RunEvent) /\ "queued" \in RunEvent
      BY DEF HoldersInv, TypeOK, RepoTypeOK, RunEvent
    <3> QED
      BY <3>1, AppendStarts
  <2> QED
    BY <2>1 DEF AttemptsInv
<1> QED
  BY <1>1, <1>2, AttemptsNext, HoldersInit, HoldersNext, PTL DEF Spec

(***************************************************************************)
(* Who gets hold of a run.                                                 *)
(***************************************************************************)

\* A goroutine is delivering r to c; c has r in its hands, or is to have it.
Delivers(c, r) == \E t \in Threads : disp[t].run = r /\ disp[t].at = c
Holds(c, r)    == Responsible(c, r) \/ Delivers(c, r)

\* Runs are passed on within a connection, or let go.
Passed ==
  /\ \A t \in Threads : disp'[t] = disp[t] \/ disp'[t].run = None
  /\ \A c \in Conns, r \in Runs : r \in assign'[c] => r \in assign[c] \/ Delivers(c, r)
  /\ \A c \in Conns, r \in Runs : r \in limbo'[c] => Responsible(c, r) \/ Ended(r)

LEMMA NoClaimPasses ==
  ASSUME HoldersInv, [Next]_vars
  PROVE  Passed \/ \E t \in Threads, c \in Conns, r \in Runs : DispatchClaim(t, c, r)
<1> USE DEF HoldersInv
<1>1. ASSUME \A c \in Conns : assign'[c] \subseteq assign[c] /\ limbo'[c] \subseteq limbo[c],
             \A t \in Threads : disp'[t] = disp[t] \/ disp'[t].run = None
      PROVE  Passed
  BY <1>1 DEF Passed, Responsible
<1>2. CASE UNCHANGED vars \/ Restart
  BY <1>1, <1>2 DEF vars, runtimeVars, Restart, NoCall
<1>3. ASSUME NEW t \in Threads,
             \/ DispatchStart(t) \/ DispatchError(t)
             \/ \E c \in Conns : \/ DispatchPass(t, c) \/ DispatchNoJob(t, c)
                                 \/ \E r \in Runs : DispatchAbort(t, c, r)
      PROVE  Passed
  <2>1. UNCHANGED <<assign, limbo>>
    BY <1>3 DEF DispatchStart, DispatchError, DispatchPass, DispatchNoJob, DispatchAbort
  <2>2. \A u \in Threads : disp'[u] = disp[u] \/ disp'[u].run = None
    BY <1>3 DEF DispatchStart, DispatchError, DispatchPass, DispatchNoJob, DispatchAbort, Continue,
                Return, NoCall, TypeOK, CallerTypeOK
  <2> QED
    BY <1>1, <2>1, <2>2
<1>4. ASSUME NEW t \in Threads, NEW c \in Conns, NEW r \in Runs, DispatchDeliver(t, c, r)
      PROVE  Passed
  <2>1. /\ disp[t].run = r /\ disp[t].at = c /\ disp'[t].run = None
        /\ \A u \in Threads \ {t} : disp'[u] = disp[u]
    BY <1>4, DeliverTakes DEF DispatchDeliver
  <2>2. /\ assign'[c] = assign[c] \union {r}
        /\ \A d \in Conns \ {c} : assign'[d] = assign[d]
        /\ UNCHANGED limbo
    BY <1>4 DEF DispatchDeliver, TypeOK, RuntimeTypeOK
  <2> QED
    BY <2>1, <2>2 DEF Passed, Responsible, Delivers
<1>5. ASSUME NEW c \in Conns, SendFails(c) PROVE Passed
  <2>1. CASE UNCHANGED <<assign, limbo, disp>>
    BY <1>1, <2>1
  <2>2. CASE Head(cmds[c]).kind = "assigned"
    <3> DEFINE r == Head(cmds[c]).run
    <3>1. cmds[c] \in Seq(Command) /\ cmds[c] # <<>>
      BY <1>5 DEF SendFails, TypeOK, RuntimeTypeOK
    <3>2. 1 \in DOMAIN cmds[c] /\ cmds[c][1] = Head(cmds[c])
      BY <3>1
    <3>3. r \in assign[c] \/ Ended(r)
      BY <1>5, <2>2, <3>2 DEF CommandsAssigned, SendFails
    <3>4. /\ assign'[c] = assign[c] \ {r} /\ limbo'[c] = {r}
          /\ \A d \in Conns \ {c} : assign'[d] = assign[d] /\ limbo'[d] = limbo[d]
          /\ UNCHANGED disp
      BY <1>5, <2>2 DEF SendFails, TypeOK, RuntimeTypeOK
    <3> HIDE DEF r
    <3> QED
      BY <3>3, <3>4 DEF Passed, Responsible
  <2> QED
    BY <1>5, <2>1, <2>2 DEF SendFails
<1>6. ASSUME NEW c \in Conns, Close(c) PROVE Passed
  <2>1. /\ assign'[c] = {} /\ limbo'[c] = assign[c]
        /\ \A d \in Conns \ {c} : assign'[d] = assign[d] /\ limbo'[d] = limbo[d]
        /\ UNCHANGED disp
    BY <1>6 DEF Close, TypeOK, RuntimeTypeOK
  <2> QED
    BY <2>1 DEF Passed, Responsible
<1>7. ASSUME NEW c \in Conns,
             \/ Connect(c) \/ ClientDrop(c) \/ HandlerLeaves(c) \/ Deregister(c)
             \/ HandlerReturns(c) \/ SendCommand(c)
      PROVE  Passed
  BY <1>1, <1>7 DEF Connect, ClientDrop, HandlerLeaves, Deregister, HandlerReturns, SendCommand
<1>8. ASSUME NEW c \in Conns, NEW r \in Runs, RequeueLimbo(c, r) PROVE Passed
  <2>1. UNCHANGED <<assign, disp>> /\ \A d \in Conns : limbo'[d] \subseteq limbo[d]
    BY <1>8 DEF RequeueLimbo, TypeOK, RuntimeTypeOK
  <2> QED
    BY <1>1, <2>1
<1>9. ASSUME NEW c \in Conns, ReaderStep(c) PROVE Passed
  BY <1>1, <1>9, ReaderShrinks
<1>10. ASSUME NEW c \in Conns, NEW r \in Runs, ProcStreams(c, r) \/ ProcAdvances(c, r) PROVE Passed
  <2>1. UNCHANGED <<assign, limbo, disp>>
    BY <1>10 DEF ProcStreams, ProcAdvances, ProcCallsTool, ProcApproved, ProcRefused, ProcFinishes,
                 ProcMoves, runtimeVars
  <2> QED
    BY <1>1, <2>1
<1>11. ASSUME NEW r \in Runs, RunStep(r) PROVE Passed
  <2>1. UNCHANGED <<limbo, disp>> /\ \A c \in Conns : assign'[c] \subseteq assign[c]
    BY <1>11 DEF RunStep, SendMessage, ChatHangsUp, ChatStep, ChatEnds, ChatCancels, CancelRun,
                 ChatTells, ChatGoes, Decide, DeciderNotifies, DeciderGoes
  <2> QED
    BY <1>1, <2>1
<1> QED
  BY <1>2, <1>3, <1>4, <1>5, <1>6, <1>7, <1>8, <1>9, <1>10, <1>11, NextCases

(***************************************************************************)
(* The lease.                                                              *)
(***************************************************************************)
LeaseInv ==
  \A r \in Runs : ~Ended(r) => \A c \in Conns : Holds(c, r) => lease[r] = WorkerOf[c]

\* While a run is active, nobody touches its lease.
LEMMA LeaseKept ==
  ASSUME RepoTypeOK, RepoStep, NEW r \in Runs, Active(r), Active(r)'
  PROVE  lease'[r] = lease[r]
<1> USE DEF RepoTypeOK, Active
<1>1. CASE UNCHANGED repoVars
  BY <1>1 DEF repoVars
<1>2. ASSUME NEW s \in Runs, EnqueueUserMessage(s) \/ RequeueClaimedJob(s)
      PROVE  lease'[r] = lease[r]
  BY <1>2 DEF EnqueueUserMessage, RequeueClaimedJob
<1>3. ASSUME NEW s \in Runs, NEW id \in WorkerIds, ClaimNextJob(s, id) PROVE lease'[r] = lease[r]
  BY <1>3 DEF ClaimNextJob, Claimable
<1>4. ASSUME NEW s \in Runs,
             \/ CompleteRunWithEvent(s) \/ FailRunWithEvent(s) \/ CancelRunWithEvent(s)
             \/ CreateApproval(s) \/ ApproveApproval(s) \/ ConsumeApproval(s)
      PROVE  lease'[r] = lease[r]
  BY <1>4 DEF CompleteRunWithEvent, FailRunWithEvent, CancelRunWithEvent, CreateApproval,
              ApproveApproval, ConsumeApproval
<1>5. ASSUME NEW s \in Runs, DenyApproval(s) \/ ExpireApproval(s) PROVE lease'[r] = lease[r]
  BY <1>5 DEF DenyApproval, ExpireApproval, RefuseApproval
<1> QED
  BY <1>1, <1>2, <1>3, <1>4, <1>5 DEF RepoStep, KeepStep

LEMMA LeaseNext == HoldersInv /\ LeaseInv /\ [Next]_vars => LeaseInv'
<1> SUFFICES ASSUME HoldersInv, LeaseInv, [Next]_vars,
                    NEW r \in Runs, ~Ended(r)', NEW c \in Conns, Holds(c, r)'
             PROVE  lease'[r] = WorkerOf[c]
  BY DEF LeaseInv
<1>1. HoldersInv'
  BY HoldersNext
<1>2. Active(r)' /\ ~Ended(r)
  BY <1>1, EndsStay DEF HoldersInv, HeldIsActive, Holds, Delivers
<1>3. ASSUME Holds(c, r) PROVE lease'[r] = WorkerOf[c]
  <2>1. Active(r)
    BY <1>2, <1>3 DEF HoldersInv, HeldIsActive, Holds, Delivers
  <2> QED
    BY <1>2, <1>3, <2>1, LeaseKept, NextIsRepoStep DEF HoldersInv, TypeOK, LeaseInv
<1>4. CASE Passed
  <2>1. Responsible(c, r)' => Holds(c, r)
    BY <1>2, <1>4 DEF Passed, Responsible, Holds
  <2>2. Delivers(c, r)' => Holds(c, r)
    BY <1>4, NoneIsNotARun DEF Passed, Delivers, Holds
  <2> QED
    BY <1>3, <2>1, <2>2 DEF Holds
<1>5. ASSUME NEW t \in Threads, NEW d \in Conns, NEW s \in Runs, DispatchClaim(t, d, s)
      PROVE  lease'[r] = WorkerOf[c]
  <2>1. /\ disp'[t].run = s /\ disp'[t].at = d
        /\ \A u \in Threads \ {t} : disp'[u] = disp[u]
        /\ UNCHANGED <<assign, limbo>>
    BY <1>5 DEF DispatchClaim, HoldersInv, TypeOK, CallerTypeOK
  <2>2. lease'[s] = WorkerOf[d] /\ run[s] = "queued"
    BY <1>5 DEF DispatchClaim, ClaimNextJob, Claimable, HoldersInv, TypeOK, RepoTypeOK
  <2>3. Holds(c, r) \/ (c = d /\ r = s)
    BY <2>1 DEF Holds, Responsible, Delivers
  <2> QED
    BY <1>3, <2>2, <2>3
<1> QED
  BY <1>4, <1>5, NoClaimPasses

\* The lease of a job in progress names the worker that has its run, for as long
\* as anybody of that worker's connection has it in hand.
THEOREM LeaseIsTrue == Spec => []LeaseNamesHolder
<1>1. Init => LeaseInv
  BY NoneIsNotARun DEF Init, LeaseInv, Holds, Responsible, Delivers, NoCall
<1>2. HoldersInv /\ LeaseInv => LeaseNamesHolder
  <2> SUFFICES ASSUME HoldersInv, LeaseInv, NEW c \in Conns, NEW r \in Runs,
                      Responsible(c, r), job[r] = "in_progress"
               PROVE  lease[r] = WorkerOf[c]
    BY DEF LeaseNamesHolder, Responsible
  <2>1. ~Ended(r)
    BY DEF HoldersInv, RunJobAgree, Ended, Finished
  <2> QED
    BY <2>1 DEF LeaseInv, Holds
<1> QED
  BY <1>1, <1>2, LeaseNext, HoldersInit, HoldersNext, PTL DEF Spec

(***************************************************************************)
(* Capacity.                                                               *)
(***************************************************************************)

\* One goroutine at a time delivers to a worker.
OneDelivery ==
  \A t, u \in Threads :
    disp[t].run # None /\ disp[u].run # None /\ disp[t].at = disp[u].at => t = u

Delivered(c) == {disp[t].run : t \in {u \in Threads : disp[u].at = c /\ disp[u].run # None}}
Load(c)      == assign[c] \union Delivered(c)

CapacityInv ==
  /\ OneDelivery
  /\ \A c \in Conns : IsFiniteSet(Load(c)) /\ Cardinality(Load(c)) <= MaxConcurrent

LEMMA ClaimLoads ==
  ASSUME HoldersInv, CapacityInv,
         NEW t \in Threads, NEW c \in Conns, NEW r \in Runs, DispatchClaim(t, c, r)
  PROVE  CapacityInv'
<1>1. /\ disp'[t].run = r /\ disp'[t].at = c
      /\ \A u \in Threads \ {t} : disp'[u] = disp[u]
      /\ UNCHANGED assign
      /\ disp[t].run = None
  BY DEF DispatchClaim, Visits, HoldersInv, TypeOK, CallerTypeOK
<1>2. \A u \in Threads : disp[u].at = c => disp[u].run = None
  BY DEF DispatchClaim, Visits, LockFree
<1>3. r # None
  BY NoneIsNotARun
<1>4. OneDelivery'
  BY <1>1, <1>2 DEF OneDelivery, CapacityInv
<1>5. Load(c)' = Load(c) \union {r} /\ Load(c) = assign[c]
  BY <1>1, <1>2, <1>3 DEF Load, Delivered
<1>6. IsFiniteSet(Load(c)) /\ ~(Cardinality(Load(c)) >= MaxConcurrent)
  BY <1>5 DEF CapacityInv, DispatchClaim, Full
<1>7. IsFiniteSet(Load(c)') /\ Cardinality(Load(c)') <= MaxConcurrent
  <2>1. Cardinality(Load(c)) \in Nat
    BY <1>6, FS_CardinalityType
  <2>2. /\ IsFiniteSet(Load(c) \union {r})
        /\ Cardinality(Load(c) \union {r}) = IF r \in Load(c) THEN Cardinality(Load(c)) ELSE Cardinality(Load(c)) + 1
    BY <1>6, FS_AddElement
  <2> HIDE DEF Load
  <2> QED
    BY <1>5, <1>6, <2>1, <2>2, DispatchAssumption
<1>8. \A d \in Conns \ {c} : Load(d)' = Load(d)
  <2> SUFFICES ASSUME NEW d \in Conns \ {c} PROVE Delivered(d)' = Delivered(d)
    BY <1>1 DEF Load
  <2>1. \A u \in Threads : disp'[u].at = d /\ disp'[u].run # None <=> disp[u].at = d /\ disp[u].run # None
    BY <1>1
  <2>2. \A u \in Threads : disp[u].at = d /\ disp[u].run # None => disp'[u] = disp[u]
    BY <1>1
  <2> QED
    BY <2>1, <2>2 DEF Delivered
<1> QED
  BY <1>4, <1>7, <1>8 DEF CapacityInv

LEMMA PassLoads ==
  ASSUME HoldersInv, CapacityInv, [Next]_vars, Passed
  PROVE  CapacityInv'
<1>1. OneDelivery'
  BY DEF Passed, OneDelivery, CapacityInv
<1>2. assign \in [Conns -> SUBSET Runs] /\ assign' \in [Conns -> SUBSET Runs]
  BY NextTypes DEF HoldersInv, TypeOK, RuntimeTypeOK
<1>3. ASSUME NEW c \in Conns PROVE Load(c)' \subseteq Load(c)
  <2>1. \A t \in Threads : disp'[t].run # None => disp'[t] = disp[t]
    BY DEF Passed
  <2>2. Delivered(c)' \subseteq Delivered(c)
    BY <2>1 DEF Delivered
  <2>3. \A r \in Runs : Delivers(c, r) => r \in Delivered(c)
    BY NoneIsNotARun DEF Delivers, Delivered
  <2>4. assign'[c] \subseteq Load(c)
    BY <1>2, <2>3 DEF Passed, Load
  <2> QED
    BY <2>2, <2>4 DEF Load
<1>4. ASSUME NEW c \in Conns
      PROVE  IsFiniteSet(Load(c)') /\ Cardinality(Load(c)') <= MaxConcurrent
  <2>1. /\ IsFiniteSet(Load(c)) /\ Cardinality(Load(c)) <= MaxConcurrent
        /\ Load(c)' \in SUBSET Load(c)
    BY <1>3, <1>4 DEF CapacityInv
  <2>2. IsFiniteSet(Load(c)') /\ Cardinality(Load(c)') <= Cardinality(Load(c))
    BY <2>1, FS_Subset
  <2>3. Cardinality(Load(c)') \in Nat /\ Cardinality(Load(c)) \in Nat
    BY <2>1, <2>2, FS_CardinalityType
  <2> HIDE DEF Load
  <2> QED
    BY <2>1, <2>2, <2>3, DispatchAssumption
<1> QED
  BY <1>1, <1>4 DEF CapacityInv

\* However many goroutines dispatch to a worker at once, the runs it has and the
\* run it is being given are no more than it asked for: the lock that is held from
\* the look at its free slots to the delivery is enough.
THEOREM WithinCapacity == Spec => []CapacityRespected
<1>1. Init => CapacityInv
  <2> SUFFICES ASSUME Init PROVE CapacityInv
    OBVIOUS
  <2>1. \A t \in Threads : disp[t].run = None
    BY DEF Init, NoCall
  <2>2. \A c \in Conns : Load(c) = {}
    BY <2>1 DEF Init, Load, Delivered
  <2> HIDE DEF Load
  <2> QED
    BY <2>1, <2>2, FS_EmptySet, DispatchAssumption DEF CapacityInv, OneDelivery
<1>2. HoldersInv /\ CapacityInv /\ [Next]_vars => CapacityInv'
  BY NoClaimPasses, ClaimLoads, PassLoads
<1>3. CapacityInv => CapacityRespected
  BY DEF CapacityInv, CapacityRespected, Load, Delivered
<1> QED
  BY <1>1, <1>2, <1>3, HoldersInit, HoldersNext, PTL DEF Spec

(***************************************************************************)
(* Sessions.                                                               *)
(***************************************************************************)
LiveConn == {"accepting", "serving", "dying"}

LEMMA SessionsNext == TypeOK /\ OneSessionPerId /\ [Next]_vars => OneSessionPerId'
<1> SUFFICES ASSUME TypeOK, OneSessionPerId, [Next]_vars PROVE OneSessionPerId'
  OBVIOUS
<1>0. WorkerOf \in [Conns -> WorkerIds] /\ None \notin Conns
  BY DispatchAssumption
<1>1. ASSUME UNCHANGED workers,
             \A c \in Conns : conn'[c] = conn[c] \/ conn'[c] \notin LiveConn \/ conn[c] \in LiveConn
      PROVE  OneSessionPerId'
  BY <1>1 DEF OneSessionPerId, LiveConn
<1>2. ASSUME NEW t \in Threads, DispatchStep(t) PROVE OneSessionPerId'
  <2>1. UNCHANGED workers
    BY <1>2 DEF DispatchStep, DispatchStart, DispatchError, DispatchPass, DispatchNoJob, DispatchClaim,
                DispatchDeliver, DispatchAbort
  <2> QED
    BY <1>1, <1>2, <2>1, DispatchFrame DEF LiveConn
<1>3. CASE UNCHANGED vars \/ Restart
  BY <1>1, <1>3 DEF vars, runtimeVars, Restart, OneSessionPerId
<1>4. ASSUME NEW d \in Conns, Connect(d) PROVE OneSessionPerId'
  <2>1. /\ workers[WorkerOf[d]] = None
        /\ workers' = [workers EXCEPT ![WorkerOf[d]] = d]
        /\ \A c \in Conns \ {d} : conn'[c] = conn[c]
    BY <1>4 DEF Connect, TypeOK, RuntimeTypeOK
  <2>2. \A c \in Conns \ {d} : conn[c] \in LiveConn => WorkerOf[c] # WorkerOf[d]
    BY <1>0, <2>1 DEF OneSessionPerId, LiveConn
  <2> QED
    BY <1>0, <2>1, <2>2 DEF OneSessionPerId, LiveConn, TypeOK, RuntimeTypeOK
<1>5. ASSUME NEW d \in Conns, Deregister(d) PROVE OneSessionPerId'
  <2>1. /\ conn[d] = "dying" /\ conn'[d] = "removed"
        /\ workers' = [workers EXCEPT ![WorkerOf[d]] = None]
        /\ \A c \in Conns \ {d} : conn'[c] = conn[c]
    BY <1>5 DEF Deregister, TypeOK, RuntimeTypeOK
  <2>2. \A c \in Conns \ {d} : conn[c] \in LiveConn => WorkerOf[c] # WorkerOf[d]
    BY <2>1 DEF OneSessionPerId, LiveConn
  <2> QED
    BY <1>0, <2>1, <2>2 DEF OneSessionPerId, LiveConn, TypeOK, RuntimeTypeOK
<1>6. ASSUME NEW d \in Conns, HandlerLeaves(d) \/ SendFails(d) \/ Close(d) \/ HandlerReturns(d)
      PROVE  OneSessionPerId'
  <2>1. UNCHANGED workers
    BY <1>6 DEF HandlerLeaves, SendFails, Close, HandlerReturns
  <2>2. \A c \in Conns : conn'[c] = conn[c] \/ conn'[c] \notin LiveConn \/ conn[c] \in LiveConn
    BY <1>6 DEF HandlerLeaves, SendFails, Close, HandlerReturns, LiveConn, TypeOK, RuntimeTypeOK
  <2> QED
    BY <1>1, <2>1, <2>2
<1>7. ASSUME NEW d \in Conns,
             \/ ClientDrop(d) \/ ReaderStep(d) \/ SendCommand(d)
             \/ \E r \in Runs : RequeueLimbo(d, r) \/ ProcStreams(d, r) \/ ProcAdvances(d, r)
      PROVE  OneSessionPerId'
  <2>1. UNCHANGED <<workers, conn>>
    BY <1>7, ReaderShrinks
    DEF ClientDrop, SendCommand, RequeueLimbo, ProcStreams, ProcAdvances, ProcCallsTool, ProcApproved,
        ProcRefused, ProcFinishes, ProcMoves, runtimeVars
  <2> QED
    BY <1>1, <2>1
<1>8. ASSUME NEW r \in Runs, RunStep(r) PROVE OneSessionPerId'
  <2>1. UNCHANGED <<workers, conn>>
    BY <1>8 DEF RunStep, SendMessage, ChatHangsUp, ChatStep, ChatEnds, ChatCancels, CancelRun,
                ChatTells, ChatGoes, Decide, DeciderNotifies, DeciderGoes
  <2> QED
    BY <1>1, <2>1
<1> QED
  BY <1>2, <1>3, <1>4, <1>5, <1>6, <1>7, <1>8 DEF Next, ConnStep, Teardown

\* The connection that serves, or is about to be torn down, is the one that its id
\* leads to: a second session is refused until the first is out of the map, and the
\* first's teardown does not take the second's entry away.
THEOREM OneSession == Spec => []OneSessionPerId
<1>1. Init => OneSessionPerId
  BY DEF Init, OneSessionPerId
<1> QED
  BY <1>1, SessionsNext, TypeCorrect, PTL DEF Spec
=============================================================================
