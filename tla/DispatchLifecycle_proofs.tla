---------------------- MODULE DispatchLifecycle_proofs ----------------------
(***************************************************************************)
(* The orchestrator implements RunLifecycle: every step of its goroutines, *)
(* of the worker processes and of the users is a step of the lifecycle of  *)
(* one run, or none.  What has to be shown beside who holds a run is that  *)
(* the updates of a worker come in turn: a run completes, or asks the      *)
(* user, only while it is running and not while it waits for the user.     *)
(***************************************************************************)
EXTENDS Dispatch_proofs

CommandKinds == {"assigned", "cancelled", "decision", "ask", "updated"}
UpdateKinds  == {"event", "beacon", "before", "completed", "empty", "failed", "ack"}
Kinds        == CommandKinds \union UpdateKinds

\* A message is in a queue; it is there at most once.
In(q, k, r)   == \E i \in DOMAIN q : q[i] = Msg(k, r)
Once(q, k, r) == \A i, j \in DOMAIN q : q[i] = Msg(k, r) /\ q[j] = Msg(k, r) => i = j

\* The handler of c is where commands are sent and updates are read.
Open(c) == conn[c] \in {"accepting", "serving"}

\* A command of kind k for r waits at c; an update of kind k from r does.
Cmd(c, k, r) == In(cmds[c], k, r)
Upd(c, k, r) == In(up[c], k, r)

\* c knows nothing of r.
Idle(c, r) ==
  /\ \A k \in CommandKinds : ~Cmd(c, k, r)
  /\ \A k \in UpdateKinds : ~Upd(c, k, r)
  /\ proc[c][r] = "off"
  /\ reader[c].run # r

\* The question to the user is on its way: CreateApproval is still to come.
Before(c, r) == Upd(c, "before", r) \/ (reader[c] = At("checked", r) /\ ~ctxDone[c])

\* The question was asked, and the process is still to be told.
Asked(c, r) == Cmd(c, "ask", r) \/ reader[c] = At("ask", r)

(***************************************************************************)
(* The invariant                                                           *)
(***************************************************************************)

\* What is left when a stream has ended, and where the reader may be.
GoneAt(c) ==
  /\ ctxDone[c] \/ conn[c] = "down" => up[c] = <<>> /\ \A r \in Runs : proc[c][r] = "off"
  /\ Closed(c) => cmds[c] = <<>> /\ assign[c] = {}
  /\ limbo[c] # {} => conn[c] \in {"dying", "closed"}
  /\ conn[c] = "accepting" => reader[c] = Off
  /\ reader[c].pc \notin {"off", "err"} /\ ~ctxDone[c] => conn[c] = "serving"

GoneInv == \A c \in Conns : GoneAt(c)

\* A run is at one connection, even when it has ended, and in the hands of one
\* goroutine that delivers it.
PlaceInv ==
  \A r \in Runs :
    /\ \A c, d \in Conns : Holds(c, r) /\ Holds(d, r) => c = d
    /\ \A t, u \in Threads : disp[t].run = r /\ disp[u].run = r => t = u

\* A connection knows only of runs it was given, or that have ended; of a run that
\* is being delivered to it, it knows nothing.
KnownAt(c, r) ==
  Open(c) =>
    /\ ~Idle(c, r) => r \in assign[c] \/ Ended(r)
    /\ Delivers(c, r) => Idle(c, r)

\* A run whose assignment has not been sent has done nothing yet.
FreshAt(c, r) ==
  Open(c) /\ Cmd(c, "assigned", r) =>
    /\ r \in assign[c]
    /\ proc[c][r] = "off"
    /\ \A k \in UpdateKinds : ~Upd(c, k, r)
    /\ reader[c].run # r
    /\ ~Cmd(c, "ask", r)
    /\ Once(cmds[c], "assigned", r)

\* A run asks once, and completes last.
TurnAt(c, r) ==
  Open(c) /\ ~Ended(r) =>
    /\ Before(c, r) =>
         /\ proc[c][r] = "tool" /\ ~Upd(c, "completed", r) /\ ~Asked(c, r)
         /\ Once(up[c], "before", r)
         /\ reader[c] = At("checked", r) /\ ~ctxDone[c] => ~Upd(c, "before", r)
    /\ proc[c][r] = "call" => ~Before(c, r) /\ ~Upd(c, "completed", r) /\ ~Asked(c, r)
    /\ Upd(c, "completed", r) => proc[c][r] = "off"

KnownInv == \A c \in Conns, r \in Runs : KnownAt(c, r)
FreshInv == \A c \in Conns, r \in Runs : FreshAt(c, r)
TurnInv  == \A c \in Conns, r \in Runs : TurnAt(c, r)

\* While a run waits for the user nothing is under way that asks or completes.
QuietAt(c, r) ==
  /\ ~Delivers(c, r)
  /\ Open(c) =>
       /\ ~Cmd(c, "assigned", r)
       /\ proc[c][r] \notin {"call", "model", "asking"}
       /\ ~Before(c, r) /\ ~Upd(c, "completed", r)

WaitInv ==
  \A r \in Runs : run[r] = "waiting_approval" =>
    approval[r] = "pending" /\ \A c \in Conns : QuietAt(c, r)

\* Who tells the worker of a cancellation or of a refusal does so after it.
TellInv ==
  \A r \in Runs :
    /\ chat[r] = "telling" => Ended(r)
    /\ \A c \in Conns : Open(c) /\ Cmd(c, "cancelled", r) => Ended(r)
    /\ decider[r] = "refused" =>
         \A c \in Conns : ~Delivers(c, r) /\ (Open(c) => ~Cmd(c, "assigned", r))

TurnsInv == GoneInv /\ PlaceInv /\ KnownInv /\ FreshInv /\ TurnInv /\ WaitInv /\ TellInv

(***************************************************************************)
(* Queues                                                                  *)
(***************************************************************************)

\* p is q with a message of each of the kinds ks for s at most once more.
Gain(q, p, ks, s) ==
  \A k \in Kinds, r \in Runs :
    /\ In(p, k, r) => In(q, k, r) \/ (k \in ks /\ r = s)
    /\ Once(q, k, r) /\ (In(q, k, r) => ~(k \in ks /\ r = s)) => Once(p, k, r)

\* p is q without its first message, which is of kind k for s.
Lose(q, p, k, s) ==
  /\ In(q, k, s)
  /\ Gain(q, p, {}, s)
  /\ Once(q, k, s) => ~In(p, k, s)

LEMMA MsgEqual ==
  \A k, j, r, s : Msg(k, r) = Msg(j, s) <=> k = j /\ r = s
BY DEF Msg

LEMMA Kept == \A q, ks, s : Gain(q, q, ks, s)
BY DEF Gain

LEMMA Emptied == \A k, r : ~In(<<>>, k, r) /\ Once(<<>>, k, r)
BY DEF In, Once

\* The messages that are appended have different kinds.
LEMMA Posted ==
  ASSUME NEW S, NEW q \in Seq(S), NEW n \in Nat, NEW kind \in [1 .. n -> Kinds], NEW s \in Runs,
         NEW p, DOMAIN p = 1 .. Len(q) + n,
         \A i \in 1 .. Len(q) : p[i] = q[i],
         \A i \in 1 .. n : p[Len(q) + i] = Msg(kind[i], s),
         \A i, j \in 1 .. n : kind[i] = kind[j] => i = j,
         NEW ks, \A i \in 1 .. n : kind[i] \in ks
  PROVE  Gain(q, p, ks, s)
<1> HIDE DEF Msg
<1>1. SUFFICES ASSUME NEW k \in Kinds, NEW r \in Runs
               PROVE  /\ In(p, k, r) => In(q, k, r) \/ (k \in ks /\ r = s)
                      /\ Once(q, k, r) /\ (In(q, k, r) => ~(k \in ks /\ r = s)) => Once(p, k, r)
  BY DEF Gain
<1>2. DOMAIN q = 1 .. Len(q) /\ Len(q) \in Nat
  OBVIOUS
<1>3. ASSUME NEW i \in DOMAIN p, p[i] = Msg(k, r)
      PROVE  \/ i \in DOMAIN q /\ q[i] = Msg(k, r)
             \/ i - Len(q) \in 1 .. n /\ kind[i - Len(q)] = k /\ r = s /\ k \in ks
  <2>1. CASE i \in 1 .. Len(q)
    BY <1>2, <1>3, <2>1
  <2>2. CASE i \notin 1 .. Len(q)
    <3> DEFINE m == i - Len(q)
    <3>1. m \in 1 .. n /\ Len(q) + m = i
      BY <1>2, <1>3, <2>2
    <3>2. p[i] = Msg(kind[m], s) /\ kind[m] \in ks
      BY <3>1
    <3> HIDE DEF m
    <3>3. Msg(k, r) = Msg(kind[m], s)
      BY <1>3, <3>2
    <3>4. kind[m] = k /\ r = s
      BY <3>3, MsgEqual
    <3> QED
      BY <3>1, <3>2, <3>4 DEF m
  <2> QED
    BY <2>1, <2>2
<1>4. In(p, k, r) => In(q, k, r) \/ (k \in ks /\ r = s)
  BY <1>3 DEF In
<1>5. ASSUME Once(q, k, r), In(q, k, r) => ~(k \in ks /\ r = s),
             NEW i \in DOMAIN p, NEW j \in DOMAIN p, p[i] = Msg(k, r), p[j] = Msg(k, r)
      PROVE  i = j
  <2>1. CASE i \in DOMAIN q /\ q[i] = Msg(k, r)
    <3>1. j \in DOMAIN q /\ q[j] = Msg(k, r)
      BY <1>3, <1>5, <2>1 DEF In
    <3> QED
      BY <1>5, <2>1, <3>1 DEF Once
  <2>2. CASE i - Len(q) \in 1 .. n /\ kind[i - Len(q)] = k /\ r = s /\ k \in ks
    <3>1. j - Len(q) \in 1 .. n /\ kind[j - Len(q)] = k
      BY <1>3, <1>5, <2>2 DEF In
    <3>2. i - Len(q) = j - Len(q)
      BY <2>2, <3>1
    <3> QED
      BY <1>2, <1>5, <3>2
  <2> QED
    BY <1>3, <1>5, <2>1, <2>2
<1> QED
  BY <1>4, <1>5 DEF Once

LEMMA PostedOne ==
  ASSUME NEW S, NEW q \in Seq(S), NEW k \in Kinds, NEW s \in Runs, Msg(k, s) \in S
  PROVE  Gain(q, Append(q, Msg(k, s)), {k}, s) /\ Gain(q, q \o <<Msg(k, s)>>, {k}, s)
<1> HIDE DEF Msg
<1> DEFINE kind == [i \in 1 .. 1 |-> k]
<1>1. /\ kind \in [1 .. 1 -> Kinds] /\ \A i \in 1 .. 1 : kind[i] = k /\ kind[i] \in {k}
      /\ \A i, j \in 1 .. 1 : i = j
  OBVIOUS
<1> HIDE DEF kind
<1>2. ASSUME NEW p,
             DOMAIN p = 1 .. Len(q) + 1,
             \A i \in 1 .. Len(q) : p[i] = q[i],
             p[Len(q) + 1] = Msg(k, s)
      PROVE  Gain(q, p, {k}, s)
  <2>1. \A i \in 1 .. 1 : p[Len(q) + i] = Msg(kind[i], s)
    BY <1>1, <1>2
  <2>2. /\ 1 \in Nat /\ \A i, j \in 1 .. 1 : kind[i] = kind[j] => i = j
        /\ \A i \in 1 .. 1 : kind[i] \in {k}
    BY <1>1
  <2> QED
    BY <1>1, <1>2, <2>1, <2>2, Posted, Zenon
<1>3. \A p \in {Append(q, Msg(k, s)), q \o <<Msg(k, s)>>} :
        /\ DOMAIN p = 1 .. Len(q) + 1
        /\ \A i \in 1 .. Len(q) : p[i] = q[i]
        /\ p[Len(q) + 1] = Msg(k, s)
  OBVIOUS
<1> QED
  BY <1>2, <1>3

LEMMA Taken ==
  ASSUME NEW S, NEW q \in Seq(S), q # <<>>, NEW k \in Kinds, NEW s \in Runs, Head(q) = Msg(k, s)
  PROVE  Lose(q, Tail(q), k, s)
<1> HIDE DEF Msg
<1>1. /\ 1 \in DOMAIN q /\ q[1] = Msg(k, s)
      /\ \A i \in DOMAIN Tail(q) : i + 1 \in DOMAIN q /\ Tail(q)[i] = q[i + 1] /\ i \in Nat \ {0}
  OBVIOUS
<1>2. In(q, k, s)
  BY <1>1 DEF In
<1> DEFINE p == Tail(q)
<1> HIDE DEF p
<1>3. \A i \in DOMAIN p : i + 1 \in DOMAIN q /\ p[i] = q[i + 1] /\ i \in Nat \ {0}
  BY <1>1 DEF p
<1>4. Gain(q, p, {}, s)
  BY <1>3 DEF Gain, In, Once
<1>5. Once(q, k, s) => ~In(p, k, s)
  <2> SUFFICES ASSUME Once(q, k, s), NEW i \in DOMAIN p, p[i] = Msg(k, s) PROVE FALSE
    BY DEF In
  <2>1. i + 1 = 1
    BY <1>1, <1>3 DEF Once
  <2> QED
    BY <1>3, <2>1
<1> QED
  BY <1>2, <1>4, <1>5 DEF Lose, p

LEMMA HeadOf ==
  /\ \A m \in Command : m.kind \in CommandKinds /\ m.run \in Runs /\ m = Msg(m.kind, m.run)
  /\ \A m \in Update : m.kind \in UpdateKinds /\ m.run \in Runs /\ m = Msg(m.kind, m.run)
BY DEF Command, Update, Msg, CommandKinds, UpdateKinds

\* What a cancelled process posts neither asks nor completes.
LEMMA WordsPosted ==
  ASSUME TypeOK, NEW c \in Conns, NEW s \in Runs, NEW msgs \in LastWords(c, s)
  PROVE  /\ Gain(up[c], up[c] \o msgs, {"beacon", "failed", "ack"}, s)
         /\ proc[c][s] = "off" => msgs = <<>>
<1> HIDE DEF Msg
<1> DEFINE a == <<Msg("ack", s)>>
           f == <<Msg("failed", s), Msg("ack", s)>>
           b == <<Msg("beacon", s), Msg("failed", s), Msg("ack", s)>>
           q == up[c]
           ks == {"beacon", "failed", "ack"}
<1>1. q \in Seq(Update)
  BY DEF TypeOK, ProcTypeOK
<1>2. proc[c][s] \in ProcState
  BY DEF TypeOK, ProcTypeOK
<1>3. /\ LastWords(c, s) \in {{<<>>}, {f, a}, {b}, {b, f}, {f}}
      /\ proc[c][s] = "off" => LastWords(c, s) = {<<>>}
  BY <1>2, Zenon DEF LastWords, ProcState
<1>4. ASSUME NEW n \in 1 .. 3, NEW kind \in [1 .. n -> ks], \A i, j \in 1 .. n : kind[i] = kind[j] => i = j,
             NEW w, DOMAIN w = 1 .. n, Len(w) = n, w \in Seq(Update), \A i \in 1 .. n : w[i] = Msg(kind[i], s)
      PROVE  Gain(q, q \o w, ks, s)
  <2> HIDE DEF q
  <2>1. /\ DOMAIN (q \o w) = 1 .. Len(q) + n
        /\ \A i \in 1 .. Len(q) : (q \o w)[i] = q[i]
        /\ \A i \in 1 .. n : (q \o w)[Len(q) + i] = Msg(kind[i], s)
    BY <1>1, <1>4
  <2>2. kind \in [1 .. n -> Kinds] /\ (\A i \in 1 .. n : kind[i] \in ks) /\ n \in Nat
    BY <1>4 DEF Kinds, UpdateKinds
  <2> HIDE DEF ks
  <2> QED
    BY <1>1, <1>4, <2>1, <2>2, Posted, Zenon
<1>5. Msg("ack", s) \in Update /\ Msg("failed", s) \in Update /\ Msg("beacon", s) \in Update
  BY MsgTypes
<1>6. Gain(q, q \o a, ks, s)
  <2> DEFINE kind == [i \in 1 .. 1 |-> "ack"]
  <2>1. /\ kind \in [1 .. 1 -> ks] /\ 1 \in 1 .. 3
        /\ \A i, j \in 1 .. 1 : kind[i] = kind[j] => i = j
        /\ DOMAIN a = 1 .. 1 /\ Len(a) = 1 /\ a \in Seq(Update)
        /\ \A i \in 1 .. 1 : a[i] = Msg(kind[i], s)
    BY <1>5
  <2> HIDE DEF kind, a, q, ks
  <2> QED
    BY <1>4, <2>1
<1>7. Gain(q, q \o f, ks, s)
  <2> DEFINE kind == [i \in 1 .. 2 |-> IF i = 1 THEN "failed" ELSE "ack"]
  <2>1. /\ kind \in [1 .. 2 -> ks] /\ 2 \in 1 .. 3
        /\ \A i, j \in 1 .. 2 : kind[i] = kind[j] => i = j
        /\ DOMAIN f = 1 .. 2 /\ Len(f) = 2 /\ f \in Seq(Update)
        /\ \A i \in 1 .. 2 : f[i] = Msg(kind[i], s)
    BY <1>5
  <2> HIDE DEF kind, f, q, ks
  <2> QED
    BY <1>4, <2>1
<1>8. Gain(q, q \o b, ks, s)
  <2> DEFINE kind == [i \in 1 .. 3 |-> IF i = 1 THEN "beacon" ELSE IF i = 2 THEN "failed" ELSE "ack"]
  <2>1. /\ kind \in [1 .. 3 -> ks] /\ 3 \in 1 .. 3
        /\ \A i, j \in 1 .. 3 : kind[i] = kind[j] => i = j
        /\ DOMAIN b = 1 .. 3 /\ Len(b) = 3 /\ b \in Seq(Update)
        /\ \A i \in 1 .. 3 : b[i] = Msg(kind[i], s)
    BY <1>5
  <2> HIDE DEF kind, b, q, ks
  <2> QED
    BY <1>4, <2>1
<1>9. q \o <<>> = q
  BY <1>1
<1> HIDE DEF a, f, b, q, ks
<1>10. Gain(q, q \o msgs, ks, s)
  BY <1>3, <1>6, <1>7, <1>8, <1>9, Kept
<1> QED
  BY <1>3, <1>10 DEF q, ks

(***************************************************************************)
(* What a step does at a connection that is open after it                  *)
(***************************************************************************)
Base(c) == Open(c) /\ ctxDone'[c] = ctxDone[c]

\* The process's state of r becomes to.
Turns(c, r, to) == proc'[c][r] = to /\ \A s \in Runs \ {r} : proc'[c][s] = proc[c][s]

SameCmds(c) == cmds'[c] = cmds[c]
SameProc(c) == up'[c] = up[c] /\ proc'[c] = proc[c]
SameRead(c) == reader'[c] = reader[c]

\* Nothing, or the reader is done with its run.
Still(c) == Base(c) /\ SameCmds(c) /\ SameProc(c) /\ (SameRead(c) \/ reader'[c].run = None)

\* Connect, and ClientDrop.
Began(c) ==
  /\ conn[c] = "down" /\ \A t \in Threads : disp'[t].at # c
  /\ SameCmds(c) /\ SameProc(c) /\ reader'[c] = Off
Dropped(c) ==
  /\ Open(c) /\ ctxDone'[c] /\ up'[c] = <<>> /\ \A r \in Runs : proc'[c][r] = "off"
  /\ SameCmds(c) /\ SameRead(c)

\* DispatchDeliver.
Given(c, r) ==
  /\ Base(c) /\ Delivers(c, r) /\ r \in assign'[c] /\ \A d \in Conns : ~Delivers(d, r)'
  /\ Gain(cmds[c], cmds'[c], {"assigned"}, r) /\ SameProc(c) /\ SameRead(c)

\* TellOwner.
Told(c, k, r) ==
  /\ Base(c) /\ r \in assign[c] /\ \A t \in Threads : disp[t].run # r
  /\ k = "cancelled" => chat[r] = "telling"
  /\ Gain(cmds[c], cmds'[c], {k}, r) /\ SameProc(c) /\ SameRead(c)

\* ReaderAnswers, ReaderAsks, and the steps that take an update.
Answered(c, r) ==
  /\ Base(c) /\ reader[c] \in {At("ask", r), At("answer", r)} /\ reader'[c].run = None
  /\ Gain(cmds[c], cmds'[c], {IF reader[c].pc = "ask" THEN "ask" ELSE "decision"}, r) /\ SameProc(c)
Questioned(c, r) ==
  /\ Base(c) /\ ~ctxDone[c] /\ reader[c] = At("checked", r) /\ reader'[c] = At("ask", r)
  /\ SameCmds(c) /\ SameProc(c)
Took(c, k, r) ==
  /\ Base(c) /\ ~ctxDone[c] /\ reader[c].run = None
  /\ Lose(up[c], up'[c], k, r) /\ proc'[c] = proc[c] /\ SameCmds(c)
  /\ \/ k = "before" /\ reader'[c] = At("checked", r)
     \/ reader'[c] \in {At("idle", r), At("err", r), At("answer", r), At("release", r)}

\* SendCommand.
Sent(c, k, r) ==
  /\ Base(c) /\ ~ctxDone[c] /\ Lose(cmds[c], cmds'[c], k, r) /\ SameRead(c)
  /\ \/ k = "assigned" /\ (\E to \in {"call", "model"} : Turns(c, r, to)) /\ up'[c] = up[c]
     \/ /\ k = "cancelled" /\ Turns(c, r, "off")
        /\ Gain(up[c], up'[c], {"beacon", "failed", "ack"}, r)
        /\ proc[c][r] = "off" => up'[c] = up[c]
     \/ k = "ask" /\ proc[c][r] = "tool" /\ Turns(c, r, "await") /\ up'[c] = up[c]
     \/ k = "decision" /\ proc[c][r] = "asking" /\ Turns(c, r, "model") /\ up'[c] = up[c]
     \/ /\ k = "decision" /\ proc[c][r] = "failing" /\ Turns(c, r, "off")
        /\ Gain(up[c], up'[c], {"failed"}, r)
     \/ k # "assigned" /\ SameProc(c)

\* The process of r moves on by itself.
Worked(c, r, to, k) ==
  /\ Base(c) /\ ~ctxDone[c] /\ Turns(c, r, to) /\ Gain(up[c], up'[c], {k}, r)
  /\ SameCmds(c) /\ SameRead(c)
  /\ \/ proc[c][r] = "call" /\ (to = "tool" \/ (to = "off" /\ k = "failed"))
        /\ k \in {"before", "failed"}
     \/ proc[c][r] = "model" /\ to \in {"model", "asking"} /\ k \in {"event", "beacon"}
     \/ proc[c][r] = "model" /\ to = "off" /\ k \in {"completed", "failed", "empty"}
     \/ /\ proc[c][r] = "await" /\ to \in {"asking", "failing"} /\ k = "beacon"
        /\ to = "asking" => approval[r] = "approved"

LocalStep(c) ==
  \/ Still(c) \/ Began(c) \/ Dropped(c)
  \/ \E r \in Runs :
       \/ Given(c, r) \/ Answered(c, r) \/ Questioned(c, r)
       \/ \E k \in {"cancelled", "updated"} : Told(c, k, r)
       \/ \E k \in UpdateKinds : Took(c, k, r)
       \/ \E k \in CommandKinds : Sent(c, k, r)
       \/ \E k \in UpdateKinds, to \in ProcState : Worked(c, r, to, k)

LEMMA StillHere ==
  ASSUME NEW c \in Conns, Open(c), ctxDone'[c] = ctxDone[c], cmds'[c] = cmds[c], up'[c] = up[c],
         proc'[c] = proc[c], reader'[c] = reader[c] \/ reader'[c].run = None
  PROVE  LocalStep(c)
BY DEF LocalStep, Still, Base, SameCmds, SameProc, SameRead

\* A reader that is between two updates works for no run.
LEMMA IdleReader ==
  ASSUME TypeOK, NEW c \in Conns
  PROVE  /\ reader[c].pc \notin AtRun => reader[c].run = None
         /\ reader[c].pc \in AtRun => reader[c].run \in Runs /\ reader[c] = At(reader[c].pc, reader[c].run)
BY DEF TypeOK, RuntimeTypeOK, ReaderState, AtRun, At

LEMMA DispatchLocal ==
  ASSUME TypeOK, TypeOK', PlaceInv, NEW t \in Threads, DispatchStep(t), NEW c \in Conns, Open(c)'
  PROVE  LocalStep(c)
<1>1. Open(c) /\ UNCHANGED ctxDone /\ (reader'[c] = reader[c] \/ reader'[c].pc \in {"idle", "err"})
  BY DispatchFrame DEF Open
<1>2. reader'[c] = reader[c] \/ reader'[c].run = None
  BY <1>1 DEF TypeOK, RuntimeTypeOK, ReaderState, AtRun
<1>3. CASE UNCHANGED <<cmds, procVars>>
  BY <1>1, <1>2, <1>3, StillHere DEF procVars
<1>4. ASSUME NEW d \in Conns, NEW r \in Runs, DispatchDeliver(t, d, r) PROVE LocalStep(c)
  <2>1. UNCHANGED <<procVars, reader>>
    BY <1>4 DEF DispatchDeliver, Stay
  <2>2. CASE c # d
    <3>1. cmds'[c] = cmds[c]
      BY <1>4, <2>2 DEF DispatchDeliver, TypeOK, RuntimeTypeOK
    <3> QED
      BY <1>1, <2>1, <3>1, StillHere DEF procVars
  <2>3. CASE c = d
    <3>1. disp[t].run = r /\ disp[t].at = c
      BY <1>4, <2>3 DEF DispatchDeliver
    <3>2. /\ disp'[t].run = None
          /\ \A u \in Threads \ {t} : disp'[u] = disp[u]
      BY <1>4, DeliverTakes
    <3>3. \A u \in Threads : disp'[u].run # r
      BY <3>1, <3>2, NoneIsNotARun DEF PlaceInv
    <3>4. r \in assign'[c] /\ cmds'[c] = Append(cmds[c], Msg("assigned", r)) /\ cmds[c] \in Seq(Command)
      BY <1>4, <2>3 DEF DispatchDeliver, TypeOK, RuntimeTypeOK
    <3>5. Gain(cmds[c], cmds'[c], {"assigned"}, r)
      <4>1. "assigned" \in Kinds /\ Msg("assigned", r) \in Command
        BY MsgTypes DEF Kinds, CommandKinds
      <4> QED
        BY <3>4, <4>1, PostedOne
    <3>6. Given(c, r)
      BY <1>1, <2>1, <3>1, <3>3, <3>4, <3>5 DEF Given, Base, Delivers, SameProc, SameRead, procVars
    <3> QED
      BY <3>6 DEF LocalStep
  <2> QED
    BY <2>2, <2>3
<1> QED
  BY <1>3, <1>4
  DEF DispatchStep, DispatchStart, DispatchError, DispatchPass, DispatchNoJob, DispatchClaim, DispatchAbort

LEMMA TeardownLocal ==
  ASSUME TypeOK, NEW d \in Conns, NEW c \in Conns, Open(c)',
         \/ Connect(d) \/ ClientDrop(d) \/ HandlerLeaves(d) \/ SendFails(d)
         \/ Deregister(d) \/ Close(d) \/ HandlerReturns(d)
         \/ \E r \in Runs : RequeueLimbo(d, r)
  PROVE  LocalStep(c)
<1> USE DEF TypeOK, RuntimeTypeOK, ProcTypeOK
<1>1. CASE Connect(d) /\ c = d
  <2>1. Began(c)
    BY <1>1 DEF Connect, Began, SameCmds, SameProc, procVars
  <2> QED
    BY <2>1 DEF LocalStep
<1>2. CASE ClientDrop(d) /\ c = d
  <2>1. Dropped(c)
    BY <1>2 DEF ClientDrop, ProcGone, Dropped, SameCmds, SameRead, Open
  <2> QED
    BY <2>1 DEF LocalStep
<1>3. CASE c # d \/ \E r \in Runs : RequeueLimbo(d, r)
  <2>1. /\ conn'[c] = conn[c] /\ ctxDone'[c] = ctxDone[c] /\ cmds'[c] = cmds[c] /\ up'[c] = up[c]
        /\ proc'[c] = proc[c] /\ reader'[c] = reader[c]
    <3>1. CASE ClientDrop(d) \/ HandlerReturns(d)
      BY <1>3, <3>1 DEF ClientDrop, HandlerReturns, ProcGone, RequeueLimbo, procVars
    <3>2. CASE ~ClientDrop(d) /\ ~HandlerReturns(d)
      BY <1>3, <3>2 DEF Connect, HandlerLeaves, SendFails, Deregister, Close, RequeueLimbo, procVars
    <3> QED
      BY <3>1, <3>2
  <2> QED
    BY <2>1, StillHere DEF Open
<1>4. CASE c = d /\ (HandlerLeaves(d) \/ SendFails(d) \/ Deregister(d) \/ Close(d) \/ HandlerReturns(d))
  <2>1. conn'[c] \in {"dying", "removed", "closed", "down"}
    BY <1>4 DEF HandlerLeaves, SendFails, Deregister, Close, HandlerReturns
  <2> QED
    BY <2>1 DEF Open
<1> QED
  BY <1>1, <1>2, <1>3, <1>4

LEMMA ReaderLocal ==
  ASSUME TypeOK, TypeOK', NEW d \in Conns, ReaderStep(d), NEW c \in Conns, Open(c)'
  PROVE  LocalStep(c)
<1>1. UNCHANGED <<conn, ctxDone>> /\ \A e \in Conns \ {d} : reader'[e] = reader[e] /\ cmds'[e] = cmds[e]
  BY ReaderShrinks
<1>2. Open(c)
  BY <1>1 DEF Open
<1>3. proc' = proc /\ \A e \in Conns \ {d} : up'[e] = up[e]
  <2>1. CASE \E pc : Take(d, pc)
    BY <2>1 DEF Take, TypeOK, ProcTypeOK
  <2>2. CASE \E pc : ReaderGoes(d, pc)
    BY <2>2 DEF ReaderGoes, procVars
  <2> QED
    BY <2>1, <2>2
    DEF ReaderStep, ReaderRejects, ReaderNotes, ReaderEnds, ReaderAsks, ReaderAnswers, ReaderQuits, ReaderReleases
<1>4. CASE c # d
  BY <1>1, <1>2, <1>3, <1>4, StillHere
<1>5. ASSUME c = d, NEW k \in UpdateKinds, NEW r \in Runs,
             \/ ReaderRejects(c, Msg(k, r)) \/ ReaderNotes(c, Msg(k, r)) \/ ReaderEnds(c, Msg(k, r))
      PROVE  LocalStep(c)
  <2>1. /\ ~ctxDone[c] /\ up[c] # <<>> /\ Head(up[c]) = Msg(k, r) /\ reader[c].run = None
        /\ \/ k = "before" /\ Take(c, "checked")
           \/ \E pc \in {"idle", "err", "answer", "release"} : Take(c, pc)
    BY <1>5, IdleReader DEF ReaderRejects, ReaderNotes, ReaderEnds, Reading, Msg, AtRun
  <2>2. \A pc : Take(c, pc) => /\ up'[c] = Tail(up[c]) /\ reader'[c] = At(pc, r)
                               /\ UNCHANGED <<cmds, proc>>
    BY <2>1 DEF Take, TypeOK, ProcTypeOK, RuntimeTypeOK, Msg
  <2>3. Lose(up[c], Tail(up[c]), k, r)
    <3>1. up[c] \in Seq(Update) /\ k \in Kinds
      BY DEF TypeOK, ProcTypeOK, Kinds
    <3> QED
      BY <2>1, <3>1, Taken
  <2>4. Took(c, k, r)
    BY <1>1, <1>2, <2>1, <2>2, <2>3 DEF Took, Base, SameCmds
  <2> QED
    BY <2>4 DEF LocalStep
<1>6. CASE c = d /\ ReaderAsks(c)
  <2> DEFINE r == reader[c].run
  <2>1. r \in Runs /\ reader[c] = At("checked", r) /\ ~ctxDone[c]
    BY <1>6, IdleReader DEF ReaderAsks, AtRun
  <2>2. UNCHANGED <<cmds, up, proc>>
    BY <1>6 DEF ReaderAsks, ReaderGoes, procVars
  <2>3. CASE ReaderGoes(c, "ask")
    <3>1. reader'[c] = At("ask", r)
      BY <2>3 DEF ReaderGoes, TypeOK, RuntimeTypeOK
    <3>2. Questioned(c, r)
      BY <1>1, <1>2, <2>1, <2>2, <3>1 DEF Questioned, Base, SameCmds, SameProc
    <3> QED
      BY <2>1, <3>2 DEF LocalStep
  <2>4. CASE ReaderGoes(c, "err")
    <3>1. reader'[c].run = None
      BY <2>4 DEF ReaderGoes, TypeOK, RuntimeTypeOK, At, AtRun
    <3> QED
      BY <1>1, <1>2, <2>2, <3>1, StillHere
  <2> QED
    BY <1>6, <2>3, <2>4 DEF ReaderAsks
<1>7. CASE c = d /\ ReaderAnswers(c)
  <2> DEFINE r == reader[c].run
             k == IF reader[c].pc = "ask" THEN "ask" ELSE "decision"
  <2>1. r \in Runs /\ reader[c] \in {At("ask", r), At("answer", r)}
    BY <1>7, IdleReader DEF ReaderAnswers, AtRun
  <2>2. cmds'[c] = Append(cmds[c], Msg(k, r)) /\ cmds[c] \in Seq(Command)
    BY <1>7 DEF ReaderAnswers, TypeOK, RuntimeTypeOK
  <2>3. k \in Kinds /\ Msg(k, r) \in Command
    BY <2>1, MsgTypes DEF Kinds, CommandKinds
  <2>4. Gain(cmds[c], cmds'[c], {k}, r)
    <3> HIDE DEF k, r
    <3> QED
      BY <2>1, <2>2, <2>3, PostedOne
  <2>5. reader'[c].run = None /\ SameProc(c)
    BY <1>7 DEF ReaderAnswers, ReaderGoes, TypeOK, RuntimeTypeOK, At, AtRun, SameProc, procVars
  <2>6. Answered(c, r)
    BY <1>1, <1>2, <2>1, <2>4, <2>5 DEF Answered, Base
  <2> QED
    BY <2>1, <2>6 DEF LocalStep
<1>8. CASE c = d /\ (ReaderQuits(c) \/ ReaderReleases(c))
  <2>1. reader'[c].run = None /\ UNCHANGED <<cmds, up>>
    BY <1>8 DEF ReaderQuits, ReaderReleases, ReaderGoes, TypeOK, RuntimeTypeOK, At, AtRun, procVars
  <2> QED
    BY <1>1, <1>2, <1>3, <2>1, StillHere
<1> QED
  BY <1>4, <1>5, <1>6, <1>7, <1>8 DEF ReaderStep, UpdateKinds

LEMMA SendLocal ==
  ASSUME TypeOK, NEW d \in Conns, SendCommand(d), NEW c \in Conns, Open(c)'
  PROVE  LocalStep(c)
<1>1. UNCHANGED <<conn, ctxDone, reader>> /\ Open(c)
  BY DEF SendCommand, Open
<1>2. CASE c # d
  <2>1. cmds'[c] = cmds[c] /\ up'[c] = up[c] /\ proc'[c] = proc[c]
    BY <1>2 DEF SendCommand, ProcCancels, ProcDecided, Post, procVars, TypeOK, RuntimeTypeOK, ProcTypeOK
  <2> QED
    BY <1>1, <2>1, StillHere
<1>3. CASE c = d
  <2> DEFINE r == Head(cmds[c]).run
             k == Head(cmds[c]).kind
  <2>1. cmds[c] \in Seq(Command) /\ cmds[c] # <<>> /\ cmds'[c] = Tail(cmds[c]) /\ ~ctxDone[c]
    BY <1>3 DEF SendCommand, TypeOK, RuntimeTypeOK
  <2>2. k \in CommandKinds /\ r \in Runs /\ Head(cmds[c]) = Msg(k, r)
    BY <2>1, HeadTail, HeadOf
  <2>3. \/ k = "assigned" /\ UNCHANGED up
           /\ \E to \in {"call", "model"} : proc' = [proc EXCEPT ![c][r] = to]
        \/ k = "cancelled" /\ ProcCancels(c, r)
        \/ k = "ask" /\ UNCHANGED up /\ proc' = [proc EXCEPT ![c][r] = IF @ = "tool" THEN "await" ELSE @]
        \/ k = "decision" /\ ProcDecided(c, r)
        \/ k = "updated" /\ UNCHANGED procVars
    BY <1>3 DEF SendCommand
  <2> HIDE DEF r, k
  <2>4. Lose(cmds[c], cmds'[c], k, r)
    BY <2>1, <2>2, Taken DEF Kinds
  <2>5. Base(c) /\ ~ctxDone[c] /\ SameRead(c)
    BY <1>1, <2>1 DEF Base, SameRead
  <2>6. \A to : proc' = [proc EXCEPT ![c][r] = to] => Turns(c, r, to)
    BY <2>2 DEF Turns, TypeOK, ProcTypeOK
  <2>7. proc' = [proc EXCEPT ![c][r] = IF @ = "tool" THEN "await" ELSE @] =>
          IF proc[c][r] = "tool" THEN Turns(c, r, "await") ELSE proc'[c] = proc[c]
    BY <2>2 DEF Turns, TypeOK, ProcTypeOK
  <2>8. up \in [Conns -> Seq(Update)]
    BY DEF TypeOK, ProcTypeOK
  <2>9. \A msgs : Post(c, msgs) => up'[c] = up[c] \o msgs
    BY <2>8 DEF Post
  <2>10. CASE k = "cancelled" /\ ProcCancels(c, r)
    <3>1. PICK msgs \in LastWords(c, r) : Post(c, msgs)
      BY <2>10 DEF ProcCancels
    <3>2. /\ Gain(up[c], up[c] \o msgs, {"beacon", "failed", "ack"}, r)
          /\ proc[c][r] = "off" => msgs = <<>>
      BY <2>2, <3>1, WordsPosted
    <3>3. up[c] \o <<>> = up[c]
      BY <2>8
    <3>4. Turns(c, r, "off")
      BY <2>6, <2>10 DEF ProcCancels
    <3> QED
      BY <2>2, <2>4, <2>5, <2>9, <2>10, <3>1, <3>2, <3>3, <3>4 DEF LocalStep, Sent
  <2>11. CASE k = "decision" /\ ProcDecided(c, r)
    <3>1. CASE proc[c][r] = "failing" /\ proc' = [proc EXCEPT ![c][r] = "off"] /\ Post(c, <<Msg("failed", r)>>)
      <4>1. Gain(up[c], up[c] \o <<Msg("failed", r)>>, {"failed"}, r)
        <5>1. "failed" \in Kinds /\ Msg("failed", r) \in Update /\ up[c] \in Seq(Update)
          BY <2>2, <2>8, MsgTypes DEF Kinds, UpdateKinds
        <5> QED
          BY <2>2, <5>1, PostedOne
      <4>2. up'[c] = up[c] \o <<Msg("failed", r)>>
        BY <2>9, <3>1
      <4> QED
        BY <2>2, <2>4, <2>5, <2>6, <2>11, <3>1, <4>1, <4>2 DEF LocalStep, Sent
    <3>2. CASE proc[c][r] = "asking" /\ proc' = [proc EXCEPT ![c][r] = "model"] /\ UNCHANGED up
      BY <2>2, <2>4, <2>5, <2>6, <2>11, <3>2 DEF LocalStep, Sent
    <3>3. CASE UNCHANGED procVars
      BY <2>2, <2>4, <2>5, <2>11, <3>3 DEF LocalStep, Sent, SameProc, procVars
    <3> QED
      BY <2>11, <3>1, <3>2, <3>3 DEF ProcDecided
  <2>12. CASE k = "assigned" /\ UNCHANGED up /\ \E to \in {"call", "model"} : proc' = [proc EXCEPT ![c][r] = to]
    BY <2>2, <2>4, <2>5, <2>6, <2>12 DEF LocalStep, Sent
  <2>13. CASE k = "ask" /\ UNCHANGED up /\ proc' = [proc EXCEPT ![c][r] = IF @ = "tool" THEN "await" ELSE @]
    BY <2>2, <2>4, <2>5, <2>7, <2>13 DEF LocalStep, Sent, SameProc
  <2>14. CASE k = "updated" /\ UNCHANGED procVars
    BY <2>2, <2>4, <2>5, <2>14 DEF LocalStep, Sent, SameProc, procVars
  <2> QED
    BY <2>3, <2>10, <2>11, <2>12, <2>13, <2>14
<1> QED
  BY <1>2, <1>3

LEMMA ProcLocal ==
  ASSUME TypeOK, NEW d \in Conns, NEW s \in Runs, ProcStreams(d, s) \/ ProcAdvances(d, s), NEW c \in Conns, Open(c)'
  PROVE  LocalStep(c)
<1>1. \E from, to \in ProcState, k \in UpdateKinds :
        /\ ProcMoves(d, s, from, to, <<Msg(k, s)>>)
        /\ \/ from = "call" /\ (to = "tool" \/ (to = "off" /\ k = "failed")) /\ k \in {"before", "failed"}
           \/ from = "model" /\ to \in {"model", "asking"} /\ k \in {"event", "beacon"}
           \/ from = "model" /\ to = "off" /\ k \in {"completed", "failed", "empty"}
           \/ /\ from = "await" /\ to \in {"asking", "failing"} /\ k = "beacon"
              /\ to = "asking" => approval[s] = "approved"
  BY DEF ProcStreams, ProcAdvances, ProcCallsTool, ProcApproved, ProcRefused, ProcFinishes, ProcState, UpdateKinds
<1>2. PICK from, to \in ProcState, k \in UpdateKinds :
        /\ ProcMoves(d, s, from, to, <<Msg(k, s)>>)
        /\ \/ from = "call" /\ (to = "tool" \/ (to = "off" /\ k = "failed")) /\ k \in {"before", "failed"}
           \/ from = "model" /\ to \in {"model", "asking"} /\ k \in {"event", "beacon"}
           \/ from = "model" /\ to = "off" /\ k \in {"completed", "failed", "empty"}
           \/ /\ from = "await" /\ to \in {"asking", "failing"} /\ k = "beacon"
              /\ to = "asking" => approval[s] = "approved"
  BY <1>1
<1>3. /\ UNCHANGED <<conn, ctxDone, cmds, reader>>
      /\ proc' = [proc EXCEPT ![d][s] = to] /\ up' = [up EXCEPT ![d] = @ \o <<Msg(k, s)>>]
      /\ proc[d][s] = from /\ ~ctxDone[d]
  BY <1>2 DEF ProcMoves, runtimeVars, Post, Live
<1>4. Open(c) /\ Base(c) /\ SameCmds(c) /\ SameRead(c)
  BY <1>3 DEF Open, Base, SameCmds, SameRead
<1>5. CASE c # d
  <2>1. up'[c] = up[c] /\ proc'[c] = proc[c]
    BY <1>3, <1>5 DEF TypeOK, ProcTypeOK
  <2> QED
    BY <1>4, <2>1, StillHere DEF Base, SameCmds, SameRead
<1>6. CASE c = d
  <2>1. Turns(c, s, to) /\ up'[c] = up[c] \o <<Msg(k, s)>> /\ up[c] \in Seq(Update)
    BY <1>3, <1>6 DEF TypeOK, ProcTypeOK, Turns
  <2>2. Gain(up[c], up'[c], {k}, s)
    <3>1. k \in Kinds /\ Msg(k, s) \in Update
      BY MsgTypes DEF Kinds, UpdateKinds
    <3> QED
      BY <2>1, <3>1, PostedOne
  <2>3. Worked(c, s, to, k)
    BY <1>2, <1>3, <1>4, <1>6, <2>1, <2>2 DEF Worked
  <2> QED
    BY <2>3 DEF LocalStep
<1> QED
  BY <1>5, <1>6

LEMMA RunLocal ==
  ASSUME TypeOK, NEW r \in Runs, RunStep(r), NEW c \in Conns, Open(c)'
  PROVE  LocalStep(c)
<1>1. UNCHANGED <<conn, ctxDone, reader, procVars>>
  BY DEF RunStep, SendMessage, ChatHangsUp, ChatStep, ChatEnds, ChatCancels, CancelRun, ChatTells,
         ChatGoes, Decide, DeciderNotifies, DeciderGoes
<1>2. Open(c) /\ Base(c) /\ SameProc(c) /\ SameRead(c)
  BY <1>1 DEF Open, Base, SameProc, SameRead, procVars
<1>3. CASE cmds'[c] = cmds[c]
  BY <1>2, <1>3, StillHere DEF Base, SameProc, SameRead
<1>4. ASSUME NEW k \in {"cancelled", "updated"}, TellOwner(r, k), k = "cancelled" => chat[r] = "telling"
      PROVE  LocalStep(c)
  <2>1. PICK d \in Conns : /\ r \in assign[d] /\ cmds' = [cmds EXCEPT ![d] = Append(@, Msg(k, r))]
                           /\ \A t \in Threads : disp[t].run # r
    BY <1>4 DEF TellOwner, Owners, Registered
  <2>2. CASE c # d
    BY <1>3, <2>1, <2>2 DEF TypeOK, RuntimeTypeOK
  <2>3. CASE c = d
    <3>1. cmds'[c] = Append(cmds[c], Msg(k, r)) /\ cmds[c] \in Seq(Command)
      BY <2>1, <2>3 DEF TypeOK, RuntimeTypeOK
    <3>2. k \in Kinds /\ Msg(k, r) \in Command
      BY MsgTypes DEF Kinds, CommandKinds
    <3>3. Gain(cmds[c], cmds'[c], {k}, r)
      BY <3>1, <3>2, PostedOne
    <3>4. Told(c, k, r)
      BY <1>2, <1>4, <2>1, <2>3, <3>3 DEF Told
    <3> QED
      BY <3>4 DEF LocalStep
  <2> QED
    BY <2>2, <2>3
<1> QED
  BY <1>3, <1>4
  DEF RunStep, SendMessage, ChatHangsUp, ChatStep, ChatEnds, ChatCancels, CancelRun, ChatTells, Decide,
      DeciderNotifies

\* What a step of the system does at a connection that is open after it.
LEMMA LocalSteps ==
  ASSUME TypeOK, PlaceInv, [Next]_vars, NEW c \in Conns, Open(c)'
  PROVE  LocalStep(c)
<1>1. TypeOK'
  BY NextTypes
<1>2. CASE UNCHANGED vars
  BY <1>2, StillHere DEF vars, runtimeVars, procVars, Open
<1>3. CASE Restart
  BY <1>3 DEF Restart, Open
<1>4. ASSUME NEW d \in Conns, ConnStep(d) PROVE LocalStep(c)
  BY <1>1, <1>4, TeardownLocal, ReaderLocal, SendLocal, ProcLocal DEF ConnStep, Teardown
<1> QED
  BY <1>1, <1>2, <1>3, <1>4, DispatchLocal, RunLocal DEF Next

(***************************************************************************)
(* What is left when a stream has ended                                    *)
(***************************************************************************)
LEMMA GoneSame ==
  ASSUME NEW c \in Conns, GoneAt(c),
         conn'[c] = conn[c], ctxDone'[c] = ctxDone[c], up'[c] = up[c], proc'[c] = proc[c],
         Closed(c) => cmds'[c] = <<>> /\ assign'[c] = {},
         limbo'[c] \subseteq limbo[c],
         \/ reader'[c] = reader[c]
         \/ reader[c].pc \notin {"off", "err"} /\ (reader'[c].pc = "err" \/ ~ctxDone[c])
  PROVE  GoneAt(c)'
BY DEF GoneAt, Closed, Off, At

\* Who returns from DispatchPending: a handler that accepts a worker, or a reader.
LEMMA ReturnsAt ==
  ASSUME TypeOK, NEW t \in Threads, NEW ok \in BOOLEAN, Return(t, ok), NEW c \in Conns
  PROVE  \/ conn'[c] = conn[c] /\ reader'[c] = reader[c]
         \/ /\ conn[c] = "accepting" /\ conn'[c] = IF ok THEN "serving" ELSE "dying"
            /\ reader'[c] = IF ok THEN At("idle", None) ELSE reader[c]
         \/ /\ reader[c].pc = "dispatch" /\ conn'[c] = conn[c]
            /\ reader'[c] \in {At("idle", None), At("err", None)}
<1> USE DEF TypeOK, RuntimeTypeOK
<1>1. CASE t = <<"conn", c>>
  <2>1. conn[c] = "accepting"
    BY <1>1 DEF Return, Calling
  <2> QED
    BY <1>1, <2>1 DEF Return
<1>2. CASE t = <<"reader", c>>
  <2>1. reader[c].pc = "dispatch"
    BY <1>2 DEF Return, Calling
  <2> QED
    BY <1>2, <2>1 DEF Return
<1>3. CASE t # <<"conn", c>> /\ t # <<"reader", c>>
  BY <1>3 DEF Return
<1> QED
  BY <1>1, <1>2, <1>3

LEMMA GoneDispatch ==
  ASSUME HoldersInv, GoneInv, NEW t \in Threads, DispatchStep(t), NEW c \in Conns
  PROVE  GoneAt(c)'
<1> USE DEF HoldersInv
<1>1. GoneAt(c)
  BY DEF GoneInv
<1>2. ASSUME NEW ok \in BOOLEAN, Return(t, ok), UNCHANGED <<ctxDone, assign, cmds, limbo, procVars>>
      PROVE  GoneAt(c)'
  <2>1. /\ ctxDone'[c] = ctxDone[c] /\ up'[c] = up[c] /\ proc'[c] = proc[c]
        /\ assign'[c] = assign[c] /\ cmds'[c] = cmds[c] /\ limbo'[c] = limbo[c]
    BY <1>2 DEF procVars
  <2>2. CASE conn'[c] = conn[c] /\ reader'[c] = reader[c]
    BY <1>1, <2>1, <2>2 DEF GoneAt, Closed
  <2>3. CASE /\ conn[c] = "accepting" /\ conn'[c] = IF ok THEN "serving" ELSE "dying"
             /\ reader'[c] = IF ok THEN At("idle", None) ELSE reader[c]
    BY <1>1, <2>1, <2>3 DEF GoneAt, Closed, Off, At
  <2>4. CASE /\ reader[c].pc = "dispatch" /\ conn'[c] = conn[c]
             /\ reader'[c] \in {At("idle", None), At("err", None)}
    BY <1>1, <2>1, <2>4 DEF GoneAt, Closed, Off, At
  <2> QED
    BY <1>2, <2>2, <2>3, <2>4, ReturnsAt
<1>3. ASSUME Stay, UNCHANGED <<ctxDone, limbo, procVars>>, Closed(c) => UNCHANGED <<cmds, assign>>
      PROVE  GoneAt(c)'
  BY <1>1, <1>3, GoneSame DEF Stay, procVars, GoneAt
<1>4. ASSUME NEW d \in Conns, NEW r \in Runs, DispatchDeliver(t, d, r) PROVE GoneAt(c)'
  <2>1. ~Closed(d)
    BY <1>4, NoneIsNotARun DEF DispatchDeliver, DeliversToOpen
  <2>2. CASE c = d
    BY <1>3, <1>4, <2>1, <2>2 DEF DispatchDeliver
  <2>3. CASE c # d
    <3>1. cmds'[c] = cmds[c] /\ assign'[c] = assign[c]
      BY <1>4, <2>3 DEF DispatchDeliver, TypeOK, RuntimeTypeOK
    <3> QED
      BY <1>1, <1>4, <3>1, GoneSame DEF DispatchDeliver, Stay, procVars, GoneAt
  <2> QED
    BY <2>2, <2>3
<1> QED
  BY <1>2, <1>3, <1>4
  DEF DispatchStep, DispatchStart, DispatchError, DispatchPass, DispatchNoJob, DispatchClaim, DispatchAbort,
      Continue

LEMMA GoneTeardown ==
  ASSUME HoldersInv, GoneInv, NEW d \in Conns, NEW c \in Conns,
         \/ Connect(d) \/ ClientDrop(d) \/ HandlerLeaves(d) \/ SendFails(d)
         \/ Deregister(d) \/ Close(d) \/ HandlerReturns(d)
         \/ \E r \in Runs : RequeueLimbo(d, r)
  PROVE  GoneAt(c)'
<1> USE DEF HoldersInv, TypeOK, RuntimeTypeOK, ProcTypeOK
<1>1. GoneAt(c)
  BY DEF GoneInv
<1>2. CASE c # d
  <2>1. /\ conn'[c] = conn[c] /\ ctxDone'[c] = ctxDone[c] /\ cmds'[c] = cmds[c] /\ up'[c] = up[c]
        /\ proc'[c] = proc[c] /\ reader'[c] = reader[c] /\ assign'[c] = assign[c] /\ limbo'[c] = limbo[c]
    <3>1. CASE ClientDrop(d) \/ HandlerReturns(d)
      BY <1>2, <3>1 DEF ClientDrop, HandlerReturns, ProcGone
    <3>2. CASE ~ClientDrop(d) /\ ~HandlerReturns(d)
      BY <1>2, <3>2 DEF Connect, HandlerLeaves, SendFails, Deregister, Close, RequeueLimbo, procVars
    <3> QED
      BY <3>1, <3>2
  <2> QED
    BY <1>1, <2>1 DEF GoneAt, Closed
<1>3. CASE c = d /\ Connect(c)
  BY <1>1, <1>3 DEF Connect, GoneAt, Closed, procVars, Off, At
<1>4. CASE c = d /\ ClientDrop(c)
  BY <1>1, <1>4 DEF ClientDrop, ProcGone, GoneAt, Closed
<1>5. CASE c = d /\ HandlerLeaves(c)
  BY <1>1, <1>5 DEF HandlerLeaves, GoneAt, Closed, procVars
<1>6. CASE c = d /\ SendFails(c)
  <2>1. /\ conn'[c] = "dying" /\ ctxDone'[c] /\ ctxDone[c]
        /\ up'[c] = up[c] /\ proc'[c] = proc[c]
    BY <1>6 DEF SendFails, procVars
  <2> QED
    BY <1>1, <2>1 DEF GoneAt, Closed
<1>7. CASE c = d /\ Deregister(c)
  BY <1>1, <1>7 DEF Deregister, GoneAt, Closed, procVars
<1>8. CASE c = d /\ Close(c)
  BY <1>1, <1>8 DEF Close, GoneAt, Closed, procVars
<1>9. CASE c = d /\ HandlerReturns(c)
  BY <1>1, <1>9 DEF HandlerReturns, ProcGone, GoneAt, Closed
<1>10. ASSUME NEW r \in Runs, RequeueLimbo(c, r) PROVE GoneAt(c)'
  BY <1>1, <1>10 DEF RequeueLimbo, GoneAt, Closed, procVars
<1> QED
  BY <1>2, <1>3, <1>4, <1>5, <1>6, <1>7, <1>8, <1>9, <1>10

LEMMA GoneReader ==
  ASSUME HoldersInv, GoneInv, NEW d \in Conns, ReaderStep(d), NEW c \in Conns
  PROVE  GoneAt(c)'
<1> USE DEF HoldersInv
<1>1. GoneAt(c)
  BY DEF GoneInv
<1>2. /\ UNCHANGED <<conn, ctxDone, limbo>> /\ assign'[c] \subseteq assign[c]
      /\ c # d => reader'[c] = reader[c] /\ cmds'[c] = cmds[c]
  BY ReaderShrinks
<1>3. proc' = proc /\ (c # d => up'[c] = up[c])
  <2>1. CASE \E pc : Take(d, pc)
    BY <2>1 DEF Take, TypeOK, ProcTypeOK
  <2>2. CASE \E pc : ReaderGoes(d, pc)
    BY <2>2 DEF ReaderGoes, procVars
  <2> QED
    BY <2>1, <2>2
    DEF ReaderStep, ReaderRejects, ReaderNotes, ReaderEnds, ReaderAsks, ReaderAnswers, ReaderQuits, ReaderReleases
<1>4. CASE c # d
  BY <1>1, <1>2, <1>3, <1>4 DEF GoneAt, Closed
<1>5. ASSUME c = d, NEW k \in UpdateKinds, NEW r \in Runs,
             \/ ReaderRejects(c, Msg(k, r)) \/ ReaderNotes(c, Msg(k, r)) \/ ReaderEnds(c, Msg(k, r))
      PROVE  GoneAt(c)'
  <2>1. conn[c] = "serving" /\ ~ctxDone[c] /\ UNCHANGED <<cmds, assign>>
    BY <1>5 DEF ReaderRejects, ReaderNotes, ReaderEnds, Reading, Take
  <2> QED
    BY <1>1, <1>2, <2>1 DEF GoneAt, Closed
<1>6. CASE c = d /\ (ReaderAsks(c) \/ ReaderQuits(c) \/ ReaderReleases(c))
  <2>1. UNCHANGED <<cmds, up>> /\ reader[c].pc \in AtRun
    BY <1>6 DEF ReaderAsks, ReaderQuits, ReaderReleases, ReaderGoes, AtRun, procVars
  <2>2. ~ctxDone[c] \/ reader'[c].pc \in {"err", "dispatch"}
    BY <1>6 DEF ReaderAsks, ReaderQuits, ReaderReleases, ReaderGoes, At, TypeOK, RuntimeTypeOK
  <2> QED
    BY <1>1, <1>2, <1>3, <2>1, <2>2 DEF GoneAt, Closed, AtRun, Off, At
<1>7. CASE c = d /\ ReaderAnswers(c)
  <2>1. conn[c] = "serving" /\ ~ctxDone[c] /\ up'[c] = up[c] /\ assign'[c] = assign[c]
    BY <1>1, <1>7 DEF ReaderAnswers, ReaderGoes, GoneAt, procVars
  <2> QED
    BY <1>1, <1>2, <2>1 DEF GoneAt, Closed
<1> QED
  BY <1>4, <1>5, <1>6, <1>7 DEF ReaderStep, UpdateKinds

LEMMA GoneNext ==
  ASSUME HoldersInv, GoneInv, [Next]_vars
  PROVE  GoneInv'
<1> USE DEF HoldersInv
<1> SUFFICES ASSUME NEW c \in Conns PROVE GoneAt(c)'
  BY DEF GoneInv
<1>1. GoneAt(c)
  BY DEF GoneInv
<1>2. CASE UNCHANGED vars
  BY <1>1, <1>2 DEF GoneAt, Closed, vars, runtimeVars, procVars
<1>3. CASE Restart
  BY <1>3 DEF Restart, GoneAt, Closed, Off, At
<1>4. ASSUME NEW d \in Conns, SendCommand(d) PROVE GoneAt(c)'
  <2>1. UNCHANGED <<conn, ctxDone, assign, limbo, reader>> /\ conn[d] = "serving" /\ ~ctxDone[d]
    BY <1>4 DEF SendCommand
  <2>2. CASE c # d
    <3>1. cmds'[c] = cmds[c] /\ up'[c] = up[c] /\ proc'[c] = proc[c]
      BY <1>4, <2>2 DEF SendCommand, ProcCancels, ProcDecided, Post, procVars, TypeOK, RuntimeTypeOK, ProcTypeOK
    <3> QED
      BY <1>1, <2>1, <3>1, GoneSame DEF GoneAt
  <2>3. CASE c = d
    BY <1>1, <2>1, <2>3 DEF GoneAt, Closed
  <2> QED
    BY <2>2, <2>3
<1>5. ASSUME NEW d \in Conns, NEW r \in Runs, ProcStreams(d, r) \/ ProcAdvances(d, r) PROVE GoneAt(c)'
  <2>1. PICK from, to, k : ProcMoves(d, r, from, to, <<Msg(k, r)>>)
    BY <1>5 DEF ProcStreams, ProcAdvances, ProcCallsTool, ProcApproved, ProcRefused, ProcFinishes
  <2>2. UNCHANGED <<conn, ctxDone, assign, limbo, reader, cmds>> /\ conn[d] # "down" /\ ~ctxDone[d]
    BY <2>1 DEF ProcMoves, runtimeVars, Live
  <2>3. CASE c # d
    <3>1. up'[c] = up[c] /\ proc'[c] = proc[c]
      BY <2>1, <2>3 DEF ProcMoves, Post, TypeOK, ProcTypeOK
    <3> QED
      BY <1>1, <2>2, <3>1, GoneSame DEF GoneAt
  <2>4. CASE c = d
    BY <1>1, <2>2, <2>4 DEF GoneAt, Closed
  <2> QED
    BY <2>3, <2>4
<1>6. ASSUME NEW r \in Runs, RunStep(r) PROVE GoneAt(c)'
  <2>1. UNCHANGED <<conn, ctxDone, reader, procVars, limbo>> /\ assign'[c] \subseteq assign[c]
    BY <1>6 DEF RunStep, SendMessage, ChatHangsUp, ChatStep, ChatEnds, ChatCancels, CancelRun, ChatTells,
           ChatGoes, Decide, DeciderNotifies, DeciderGoes
  <2>2. cmds'[c] = cmds[c] \/ r \in assign[c]
    <3>1. \A k : TellOwner(r, k) => cmds'[c] = cmds[c] \/ r \in assign[c]
      BY DEF TellOwner, Owners, Registered, TypeOK, RuntimeTypeOK
    <3> QED
      BY <1>6, <3>1
      DEF RunStep, SendMessage, ChatHangsUp, ChatStep, ChatEnds, ChatCancels, CancelRun, ChatTells,
          Decide, DeciderNotifies
  <2>3. Closed(c) => cmds'[c] = <<>> /\ assign'[c] = {}
    BY <1>1, <2>1, <2>2 DEF GoneAt
  <2> QED
    BY <1>1, <2>1, <2>3, GoneSame DEF procVars
<1> QED
  BY <1>2, <1>3, <1>4, <1>5, <1>6, GoneDispatch, GoneTeardown, GoneReader DEF Next, ConnStep, Teardown

(***************************************************************************)
(* Who holds a run after a step                                            *)
(***************************************************************************)

\* The handler requeues only what its connection held.
LEMMA LimboKept ==
  ASSUME HoldersInv, FreshInv, [Next]_vars, NEW c \in Conns, NEW r \in Runs, r \in limbo'[c]
  PROVE  Responsible(c, r)
<1> USE DEF HoldersInv
<1>1. CASE limbo'[c] \subseteq limbo[c]
  BY <1>1 DEF Responsible
<1>2. ASSUME NEW d \in Conns, SendFails(d) PROVE Responsible(c, r)
  <2>1. CASE limbo'[c] = limbo[c]
    BY <1>1, <2>1
  <2>2. CASE c = d /\ Head(cmds[c]).kind = "assigned" /\ limbo'[c] = {Head(cmds[c]).run}
    <3>1. cmds[c] \in Seq(Command) /\ cmds[c] # <<>> /\ Open(c)
      BY <1>2, <2>2 DEF SendFails, TypeOK, RuntimeTypeOK, Open
    <3>2. Head(cmds[c]) = Msg("assigned", r)
      BY <2>2, <3>1, HeadTail, HeadOf
    <3>3. Cmd(c, "assigned", r)
      <4>1. 1 \in DOMAIN cmds[c] /\ cmds[c][1] = Head(cmds[c])
        BY <3>1
      <4> QED
        BY <3>2, <4>1 DEF Cmd, In
    <3> QED
      BY <3>1, <3>3 DEF FreshInv, FreshAt, Responsible
  <2> QED
    BY <1>2, <2>1, <2>2 DEF SendFails, TypeOK, RuntimeTypeOK
<1>3. ASSUME NEW d \in Conns, Close(d) PROVE Responsible(c, r)
  BY <1>1, <1>3 DEF Close, TypeOK, RuntimeTypeOK, Responsible
<1>4. ASSUME NEW d \in Conns, NEW s \in Runs, RequeueLimbo(d, s) PROVE Responsible(c, r)
  BY <1>1, <1>4 DEF RequeueLimbo, TypeOK, RuntimeTypeOK
<1>5. CASE UNCHANGED limbo
  BY <1>1, <1>5
<1>6. CASE UNCHANGED vars \/ Restart
  BY <1>5, <1>6 DEF vars, runtimeVars, Restart
<1>7. ASSUME NEW t \in Threads, DispatchStep(t) PROVE UNCHANGED limbo
  BY <1>7 DEF DispatchStep, DispatchStart, DispatchError, DispatchPass, DispatchNoJob, DispatchClaim,
              DispatchDeliver, DispatchAbort
<1>8. ASSUME NEW d \in Conns,
             \/ Connect(d) \/ ClientDrop(d) \/ HandlerLeaves(d) \/ Deregister(d) \/ HandlerReturns(d)
             \/ ReaderStep(d) \/ SendCommand(d)
             \/ \E s \in Runs : ProcStreams(d, s) \/ ProcAdvances(d, s)
      PROVE  UNCHANGED limbo
  BY <1>8, ReaderShrinks
  DEF Connect, ClientDrop, HandlerLeaves, Deregister, HandlerReturns, SendCommand, ProcStreams, ProcAdvances,
      ProcCallsTool, ProcApproved, ProcRefused, ProcFinishes, ProcMoves, runtimeVars
<1>9. ASSUME NEW s \in Runs, RunStep(s) PROVE UNCHANGED limbo
  BY <1>9 DEF RunStep, SendMessage, ChatHangsUp, ChatStep, ChatEnds, ChatCancels, CancelRun, ChatTells,
           ChatGoes, Decide, DeciderNotifies, DeciderGoes
<1> QED
  BY <1>2, <1>3, <1>4, <1>5, <1>6, <1>7, <1>8, <1>9 DEF Next, ConnStep, Teardown

\* A run gets into the hands of a connection by a claim alone.
Claims(t, c, r) ==
  /\ run[r] = "queued" /\ run'[r] = "running" /\ lease'[r] = WorkerOf[c]
  /\ disp[t].run = None /\ disp'[t].run = r /\ disp'[t].at = c
  /\ \A u \in Threads \ {t} : disp'[u] = disp[u]
  /\ UNCHANGED <<assign, limbo>>
  /\ \A s \in Runs \ {r} : run'[s] = run[s]

LEMMA HoldsBefore ==
  ASSUME HoldersInv, FreshInv, [Next]_vars
  PROVE  \/ /\ \A c \in Conns, r \in Runs : Holds(c, r)' => Holds(c, r)
            /\ \A t \in Threads, r \in Runs : disp'[t].run = r => disp'[t] = disp[t]
         \/ \E t \in Threads, c \in Conns, r \in Runs : Claims(t, c, r)
<1> USE DEF HoldersInv
<1>1. CASE Passed
  <2>1. ASSUME NEW c \in Conns, NEW r \in Runs, Holds(c, r)' PROVE Holds(c, r)
    <3>1. Delivers(c, r)' => Delivers(c, r)
      BY <1>1, NoneIsNotARun DEF Passed, Delivers
    <3>2. r \in assign'[c] => Holds(c, r)
      BY <1>1 DEF Passed, Holds, Responsible
    <3>3. r \in limbo'[c] => Holds(c, r)
      BY LimboKept DEF Holds
    <3> QED
      BY <2>1, <3>1, <3>2, <3>3 DEF Holds, Responsible
  <2>2. \A t \in Threads, r \in Runs : disp'[t].run = r => disp'[t] = disp[t]
    BY <1>1, NoneIsNotARun DEF Passed
  <2> QED
    BY <2>1, <2>2
<1>2. ASSUME NEW t \in Threads, NEW c \in Conns, NEW r \in Runs, DispatchClaim(t, c, r)
      PROVE  Claims(t, c, r)
  <2>1. /\ run[r] = "queued" /\ run'[r] = "running" /\ lease'[r] = WorkerOf[c]
        /\ \A s \in Runs \ {r} : run'[s] = run[s]
    BY <1>2 DEF DispatchClaim, ClaimNextJob, Claimable, TypeOK, RepoTypeOK
  <2>2. /\ disp[t].run = None /\ disp'[t].run = r /\ disp'[t].at = c
        /\ \A u \in Threads \ {t} : disp'[u] = disp[u]
    BY <1>2 DEF DispatchClaim, Visits, TypeOK, CallerTypeOK
  <2> QED
    BY <1>2, <2>1, <2>2 DEF Claims, DispatchClaim
<1> QED
  BY <1>1, <1>2, NoClaimPasses

\* A queued run is held by nobody.
LEMMA QueuedUnheld ==
  ASSUME HoldersInv, NEW r \in Runs, run[r] = "queued"
  PROVE  (\A c \in Conns : ~Holds(c, r)) /\ (\A t \in Threads : disp[t].run # r)
BY DEF HoldersInv, HeldIsActive, Ended, Finished, Active, Holds, Delivers

LEMMA PlaceNext ==
  ASSUME HoldersInv, FreshInv, PlaceInv, [Next]_vars
  PROVE  PlaceInv'
<1>1. CASE /\ \A c \in Conns, r \in Runs : Holds(c, r)' => Holds(c, r)
           /\ \A t \in Threads, r \in Runs : disp'[t].run = r => disp'[t] = disp[t]
  BY <1>1 DEF PlaceInv
<1>2. ASSUME NEW t \in Threads, NEW d \in Conns, NEW s \in Runs, Claims(t, d, s) PROVE PlaceInv'
  <2>1. (\A c \in Conns : ~Holds(c, s)) /\ (\A u \in Threads : disp[u].run # s)
    BY <1>2, QueuedUnheld DEF Claims
  <2>2. \A c \in Conns, r \in Runs : Holds(c, r)' => Holds(c, r) \/ (r = s /\ c = d)
    BY <1>2 DEF Claims, Holds, Responsible, Delivers
  <2>3. \A u \in Threads, r \in Runs : disp'[u].run = r => disp[u].run = r \/ (r = s /\ u = t)
    BY <1>2 DEF Claims
  <2>4. \A u \in Threads : disp'[u].run = s => u = t
    BY <2>1, <2>3
  <2>5. \A r \in Runs \ {s}, u \in Threads : disp'[u].run = r => disp[u].run = r
    BY <2>3
  <2> QED
    BY <2>1, <2>2, <2>4, <2>5 DEF PlaceInv
<1> QED
  BY <1>1, <1>2, HoldsBefore

\* The connection keeps a run until it has ended.
LEMMA AssignKept ==
  ASSUME HoldersInv, [Next]_vars, NEW c \in Conns, Open(c)', NEW r \in Runs, r \in assign[c]
  PROVE  r \in assign'[c] \/ reader[c] = At("release", r) \/ decider[r] = "refused"
<1> USE DEF HoldersInv
<1>1. CASE UNCHANGED vars \/ Restart
  BY <1>1 DEF vars, runtimeVars, Restart, Open
<1>2. ASSUME NEW t \in Threads, DispatchStep(t) PROVE r \in assign'[c]
  BY <1>2, DispatchFrame
<1>3. ASSUME NEW d \in Conns,
             \/ Connect(d) \/ ClientDrop(d) \/ HandlerLeaves(d) \/ Deregister(d) \/ HandlerReturns(d)
             \/ SendCommand(d)
             \/ \E s \in Runs : RequeueLimbo(d, s) \/ ProcStreams(d, s) \/ ProcAdvances(d, s)
      PROVE  UNCHANGED assign
  BY <1>3
  DEF Connect, ClientDrop, HandlerLeaves, Deregister, HandlerReturns, SendCommand, RequeueLimbo, ProcStreams,
      ProcAdvances, ProcCallsTool, ProcApproved, ProcRefused, ProcFinishes, ProcMoves, runtimeVars
<1>4. ASSUME NEW d \in Conns, SendFails(d) \/ Close(d) PROVE r \in assign'[c]
  <2>1. c # d
    BY <1>4 DEF SendFails, Close, Open, TypeOK, RuntimeTypeOK
  <2> QED
    BY <1>4, <2>1 DEF SendFails, Close, TypeOK, RuntimeTypeOK
<1>5. ASSUME NEW d \in Conns, ReaderStep(d) PROVE r \in assign'[c] \/ reader[c] = At("release", r)
  <2>1. CASE ReaderReleases(d)
    <3>1. reader[d].pc = "release" => reader[d] = At("release", reader[d].run)
      BY IdleReader DEF AtRun
    <3> QED
      BY <2>1, <3>1 DEF ReaderReleases, TypeOK, RuntimeTypeOK
  <2>2. ReaderReleases(d) \/ UNCHANGED assign
    <3>1. \A u : ReaderRejects(d, u) \/ ReaderNotes(d, u) \/ ReaderEnds(d, u) => UNCHANGED assign
      BY DEF ReaderRejects, ReaderNotes, ReaderEnds, Take
    <3>2. ReaderAsks(d) \/ ReaderQuits(d) \/ ReaderAnswers(d) => UNCHANGED assign
      BY DEF ReaderAsks, ReaderQuits, ReaderAnswers
    <3> QED
      BY <1>5, <3>1, <3>2, Zenon DEF ReaderStep
  <2> QED
    BY <2>1, <2>2
<1>6. ASSUME NEW s \in Runs, RunStep(s) PROVE r \in assign'[c] \/ decider[r] = "refused"
  BY <1>6 DEF RunStep, SendMessage, ChatHangsUp, ChatStep, ChatEnds, ChatCancels, CancelRun, ChatTells,
           ChatGoes, Decide, DeciderNotifies, DeciderGoes
<1> QED
  BY <1>1, <1>2, <1>3, <1>4, <1>5, <1>6 DEF Next, ConnStep, Teardown

\* ... so that it knows of no other.
LEMMA AssignEnds ==
  ASSUME HoldersInv, [Next]_vars, NEW c \in Conns, Open(c)', NEW r \in Runs, r \in assign[c] \/ Ended(r)
  PROVE  r \in assign'[c] \/ Ended(r)'
<1>1. r \in assign'[c] \/ Ended(r)
  <2>1. reader[c] = At("release", r) => Ended(r)
    BY DEF HoldersInv, ReaderHolds, At, AtRun
  <2>2. decider[r] = "refused" => Ended(r)
    BY DEF HoldersInv, RefusedEnded
  <2> QED
    BY <2>1, <2>2, AssignKept
<1> QED
  BY <1>1, EndsStay DEF HoldersInv

(***************************************************************************)
(* What a connection knows                                                 *)
(***************************************************************************)
LEMMA Primes ==
  \A c, k, r :
    /\ Cmd(c, k, r)' <=> In(cmds'[c], k, r)
    /\ Upd(c, k, r)' <=> In(up'[c], k, r)
    /\ Cmd(c, k, r) <=> In(cmds[c], k, r)
    /\ Upd(c, k, r) <=> In(up[c], k, r)
BY DEF Cmd, Upd, In

LEMMA IdlePrime ==
  ASSUME NEW c \in Conns, NEW r \in Runs
  PROVE  Idle(c, r)' <=> /\ \A k \in CommandKinds : ~In(cmds'[c], k, r)
                         /\ \A k \in UpdateKinds : ~In(up'[c], k, r)
                         /\ proc'[c][r] = "off" /\ reader'[c].run # r
BY DEF Idle, Cmd, Upd, In

\* A connection that opens knows nothing.
LEMMA BeganIdle ==
  ASSUME GoneInv, NEW c \in Conns, Began(c), NEW r \in Runs
  PROVE  Idle(c, r)'
<1>1. conn[c] = "down" /\ GoneAt(c)
  BY DEF Began, GoneInv
<1>2. cmds'[c] = <<>> /\ up'[c] = <<>> /\ proc'[c][r] = "off" /\ reader'[c].run = None
  BY <1>1 DEF GoneAt, Closed, Began, SameCmds, SameProc, Off, At, AtRun
<1> QED
  BY <1>2, IdlePrime, Emptied, NoneIsNotARun

\* A connection that knows nothing of a run learns of it when it is given the run.
LEMMA IdleStays ==
  ASSUME NEW c \in Conns, NEW r \in Runs, LocalStep(c), ~Began(c), ~Given(c, r),
         Idle(c, r), r \notin assign[c] \/ Delivers(c, r)
  PROVE  Idle(c, r)'
<1> USE DEF CommandKinds, UpdateKinds, Kinds
<1>1. /\ \A k \in CommandKinds : ~In(cmds[c], k, r)
      /\ \A k \in UpdateKinds : ~In(up[c], k, r)
      /\ proc[c][r] = "off" /\ reader[c].run # r
  BY Primes DEF Idle
<1> SUFFICES /\ \A k \in CommandKinds : ~In(cmds'[c], k, r)
             /\ \A k \in UpdateKinds : ~In(up'[c], k, r)
             /\ proc'[c][r] = "off" /\ reader'[c].run # r
  BY IdlePrime
<1>2. CASE Still(c)
  BY <1>1, <1>2, NoneIsNotARun DEF Still, SameCmds, SameProc, SameRead
<1>3. CASE Dropped(c)
  BY <1>1, <1>3, Emptied DEF Dropped, SameCmds, SameRead
<1>4. ASSUME NEW s \in Runs, Given(c, s), s # r
      PROVE  /\ \A k \in CommandKinds : ~In(cmds'[c], k, r)
             /\ \A k \in UpdateKinds : ~In(up'[c], k, r)
             /\ proc'[c][r] = "off" /\ reader'[c].run # r
  BY <1>1, <1>4 DEF Given, Gain, SameProc, SameRead
<1>5. ASSUME NEW s \in Runs, Answered(c, s)
      PROVE  /\ \A k \in CommandKinds : ~In(cmds'[c], k, r)
             /\ \A k \in UpdateKinds : ~In(up'[c], k, r)
             /\ proc'[c][r] = "off" /\ reader'[c].run # r
  <2>1. s # r
    BY <1>1, <1>5 DEF Answered, At, AtRun
  <2> QED
    BY <1>1, <1>5, <2>1, NoneIsNotARun DEF Answered, Gain, SameProc
<1>6. ASSUME NEW s \in Runs, Questioned(c, s)
      PROVE  /\ \A k \in CommandKinds : ~In(cmds'[c], k, r)
             /\ \A k \in UpdateKinds : ~In(up'[c], k, r)
             /\ proc'[c][r] = "off" /\ reader'[c].run # r
  BY <1>1, <1>6 DEF Questioned, SameProc, SameCmds, At, AtRun
<1>7. ASSUME NEW s \in Runs, NEW k \in {"cancelled", "updated"}, Told(c, k, s)
      PROVE  /\ \A j \in CommandKinds : ~In(cmds'[c], j, r)
             /\ \A j \in UpdateKinds : ~In(up'[c], j, r)
             /\ proc'[c][r] = "off" /\ reader'[c].run # r
  <2>1. s # r
    BY <1>7 DEF Told, Delivers
  <2> QED
    BY <1>1, <1>7, <2>1 DEF Told, Gain, SameProc, SameRead
<1>8. ASSUME NEW s \in Runs, NEW k \in UpdateKinds, Took(c, k, s)
      PROVE  /\ \A j \in CommandKinds : ~In(cmds'[c], j, r)
             /\ \A j \in UpdateKinds : ~In(up'[c], j, r)
             /\ proc'[c][r] = "off" /\ reader'[c].run # r
  <2>1. s # r
    BY <1>1, <1>8 DEF Took, Lose
  <2>2. reader'[c].run # r
    BY <1>8, <2>1, NoneIsNotARun DEF Took, At, AtRun
  <2>3. \A j \in UpdateKinds : ~In(up'[c], j, r)
    BY <1>1, <1>8 DEF Took, Lose, Gain
  <2> QED
    BY <1>1, <1>8, <2>2, <2>3 DEF Took, SameCmds
<1>9. ASSUME NEW s \in Runs, NEW k \in CommandKinds, Sent(c, k, s)
      PROVE  /\ \A j \in CommandKinds : ~In(cmds'[c], j, r)
             /\ \A j \in UpdateKinds : ~In(up'[c], j, r)
             /\ proc'[c][r] = "off" /\ reader'[c].run # r
  <2>1. s # r
    BY <1>1, <1>9 DEF Sent, Lose
  <2>2. \A j \in CommandKinds : ~In(cmds'[c], j, r)
    BY <1>1, <1>9 DEF Sent, Lose, Gain
  <2>3. (\A j \in UpdateKinds : ~In(up'[c], j, r)) /\ proc'[c][r] = "off"
    BY <1>1, <1>9, <2>1 DEF Sent, Turns, SameProc, Gain
  <2> QED
    BY <1>1, <1>9, <2>2, <2>3 DEF Sent, SameRead
<1>10. ASSUME NEW s \in Runs, NEW k \in UpdateKinds, NEW to \in ProcState, Worked(c, s, to, k)
      PROVE  /\ \A j \in CommandKinds : ~In(cmds'[c], j, r)
             /\ \A j \in UpdateKinds : ~In(up'[c], j, r)
             /\ proc'[c][r] = "off" /\ reader'[c].run # r
  <2>1. s # r
    BY <1>1, <1>10 DEF Worked
  <2> QED
    BY <1>1, <1>10, <2>1 DEF Worked, Turns, Gain, SameCmds, SameRead
<1> HIDE DEF CommandKinds, UpdateKinds, Kinds
<1> QED
  BY <1>2, <1>3, <1>4, <1>5, <1>6, <1>7, <1>8, <1>9, <1>10 DEF LocalStep

LEMMA StepsAreLocal ==
  ASSUME NEW c, LocalStep(c)
  PROVE  Began(c) \/ Open(c)
<1>1. Still(c) \/ Dropped(c) => Open(c)
  BY DEF Still, Base, Dropped
<1>2. \A s : Given(c, s) \/ Answered(c, s) \/ Questioned(c, s) => Open(c)
  BY DEF Given, Answered, Questioned, Base
<1>3. \A k, s : Told(c, k, s) \/ Took(c, k, s) \/ Sent(c, k, s) => Open(c)
  BY Zenon DEF Told, Took, Sent, Base
<1>4. \A s, to, k : Worked(c, s, to, k) => Open(c)
  BY Zenon DEF Worked, Base
<1> QED
  BY <1>1, <1>2, <1>3, <1>4, Zenon DEF LocalStep

LEMMA KnownNext ==
  ASSUME HoldersInv, TurnsInv, [Next]_vars
  PROVE  KnownInv'
<1> SUFFICES ASSUME NEW c \in Conns, NEW r \in Runs, Open(c)'
             PROVE  /\ ~Idle(c, r)' => r \in assign'[c] \/ Ended(r)'
                    /\ Delivers(c, r)' => Idle(c, r)'
  BY DEF KnownInv, KnownAt
<1>1. LocalStep(c)
  BY LocalSteps DEF HoldersInv, TurnsInv
<1>2. CASE Began(c)
  BY <1>2, BeganIdle DEF TurnsInv
<1>3. CASE ~Began(c)
  <2>1. KnownAt(c, r) /\ Open(c)
    BY <1>1, <1>3, StepsAreLocal DEF TurnsInv, KnownInv
  <2>2. ~Idle(c, r)' => r \in assign'[c] \/ Ended(r)'
    <3>1. CASE Given(c, r)
      BY <3>1 DEF Given
    <3>2. CASE ~Given(c, r) /\ Idle(c, r) /\ r \notin assign[c]
      BY <1>1, <1>3, <3>2, IdleStays
    <3>3. CASE ~Idle(c, r) \/ r \in assign[c]
      BY <2>1, <3>3, AssignEnds DEF KnownAt
    <3> QED
      BY <3>1, <3>2, <3>3
  <2>3. ASSUME Delivers(c, r)' PROVE Idle(c, r)'
    <3>1. ~Given(c, r)
      BY <2>3 DEF Given
    <3>2. ASSUME Delivers(c, r) PROVE Idle(c, r)'
      BY <1>1, <1>3, <2>1, <3>1, <3>2, IdleStays DEF KnownAt
    <3>3. ASSUME run[r] = "queued" PROVE Idle(c, r)'
      <4>1. r \notin assign[c] /\ ~Ended(r)
        BY <3>3, QueuedUnheld DEF Holds, Responsible, Ended, Finished
      <4> QED
        BY <1>1, <1>3, <2>1, <3>1, <4>1, IdleStays DEF KnownAt
    <3>4. Delivers(c, r) \/ run[r] = "queued"
      <4>1. ASSUME NEW t \in Threads, NEW d \in Conns, NEW s \in Runs, Claims(t, d, s)
            PROVE  Delivers(c, r) \/ run[r] = "queued"
        BY <2>3, <4>1 DEF Claims, Delivers
      <4>2. CASE \A t \in Threads, s \in Runs : disp'[t].run = s => disp'[t] = disp[t]
        BY <2>3, <4>2 DEF Delivers
      <4> QED
        BY <4>1, <4>2, HoldsBefore DEF TurnsInv
    <3> QED
      BY <3>2, <3>3, <3>4
  <2> QED
    BY <2>2, <2>3
<1> QED
  BY <1>2, <1>3

(***************************************************************************)
(* A run whose assignment has not been sent                                *)
(***************************************************************************)

\* The assignment of r is in the queue, and nothing is known of r beside.
Fresh(c, r) ==
  /\ proc[c][r] = "off"
  /\ \A k \in UpdateKinds : ~In(up[c], k, r)
  /\ reader[c].run # r
  /\ ~In(cmds[c], "ask", r)
  /\ Once(cmds[c], "assigned", r)

LEMMA FreshPrime ==
  ASSUME NEW c \in Conns, NEW r \in Runs
  PROVE  Fresh(c, r)' <=> /\ proc'[c][r] = "off"
                          /\ \A k \in UpdateKinds : ~In(up'[c], k, r)
                          /\ reader'[c].run # r
                          /\ ~In(cmds'[c], "ask", r)
                          /\ Once(cmds'[c], "assigned", r)
BY DEF Fresh, In, Once

\* What stays the same of a run for which c does nothing.
LEMMA FreshStays ==
  ASSUME NEW c \in Conns, NEW r \in Runs, LocalStep(c), ~Began(c),
         In(cmds[c], "assigned", r), Fresh(c, r), In(cmds'[c], "assigned", r), ~Given(c, r)
  PROVE  Fresh(c, r)'
<1> USE DEF CommandKinds, UpdateKinds, Kinds
<1> DEFINE P == /\ proc'[c][r] = "off"
                /\ \A k \in UpdateKinds : ~In(up'[c], k, r)
                /\ reader'[c].run # r
                /\ ~In(cmds'[c], "ask", r)
                /\ Once(cmds'[c], "assigned", r)
<1>1. /\ proc[c][r] = "off"
      /\ \A k \in UpdateKinds : ~In(up[c], k, r)
      /\ reader[c].run # r
      /\ ~In(cmds[c], "ask", r)
      /\ Once(cmds[c], "assigned", r)
  BY DEF Fresh
<1> SUFFICES P
  BY FreshPrime
<1>2. CASE Still(c)
  BY <1>1, <1>2, NoneIsNotARun DEF Still, SameCmds, SameProc, SameRead
<1>3. CASE Dropped(c)
  BY <1>1, <1>3, Emptied DEF Dropped, SameCmds, SameRead
<1>4. ASSUME NEW s \in Runs, Given(c, s), s # r PROVE P
  BY <1>1, <1>4 DEF Given, Gain, SameProc, SameRead
<1>5. ASSUME NEW s \in Runs, Answered(c, s) PROVE P
  <2>1. s # r
    BY <1>1, <1>5 DEF Answered, At, AtRun
  <2> QED
    BY <1>1, <1>5, <2>1, NoneIsNotARun DEF Answered, Gain, SameProc
<1>6. ASSUME NEW s \in Runs, Questioned(c, s) PROVE P
  BY <1>1, <1>6 DEF Questioned, SameProc, SameCmds, At, AtRun
<1>7. ASSUME NEW s \in Runs, NEW k \in {"cancelled", "updated"}, Told(c, k, s) PROVE P
  BY <1>1, <1>7 DEF Told, Gain, SameProc, SameRead
<1>8. ASSUME NEW s \in Runs, NEW k \in UpdateKinds, Took(c, k, s) PROVE P
  <2>1. s # r
    BY <1>1, <1>8 DEF Took, Lose
  <2>2. reader'[c].run # r
    BY <1>8, <2>1, NoneIsNotARun DEF Took, At, AtRun
  <2>3. \A j \in UpdateKinds : ~In(up'[c], j, r)
    BY <1>1, <1>8 DEF Took, Lose, Gain
  <2> QED
    BY <1>1, <1>8, <2>2, <2>3 DEF Took, SameCmds
<1>9. ASSUME NEW s \in Runs, NEW k \in CommandKinds, Sent(c, k, s) PROVE P
  <2>1. ~In(cmds'[c], "ask", r) /\ Once(cmds'[c], "assigned", r)
    BY <1>1, <1>9 DEF Sent, Lose, Gain
  <2>2. ~(s = r /\ k = "assigned")
    BY <1>1, <1>9 DEF Sent, Lose
  <2>3. (\A j \in UpdateKinds : ~In(up'[c], j, r)) /\ proc'[c][r] = "off"
    <3>1. CASE s = r
      BY <1>1, <1>9, <2>2, <3>1 DEF Sent, Turns, SameProc
    <3>2. CASE s # r
      BY <1>1, <1>9, <3>2 DEF Sent, Turns, SameProc, Gain
    <3> QED
      BY <3>1, <3>2
  <2> QED
    BY <1>1, <1>9, <2>1, <2>3 DEF Sent, SameRead
<1>10. ASSUME NEW s \in Runs, NEW k \in UpdateKinds, NEW to \in ProcState, Worked(c, s, to, k) PROVE P
  <2>1. s # r
    BY <1>1, <1>10 DEF Worked
  <2> QED
    BY <1>1, <1>10, <2>1 DEF Worked, Turns, Gain, SameCmds, SameRead
<1> HIDE DEF CommandKinds, UpdateKinds, Kinds, P
<1> QED
  BY <1>2, <1>3, <1>4, <1>5, <1>6, <1>7, <1>8, <1>9, <1>10 DEF LocalStep

\* A run's assignment is put in the queue by its delivery alone.
LEMMA AssignedNew ==
  ASSUME NEW c \in Conns, NEW r \in Runs, LocalStep(c), ~Began(c), In(cmds'[c], "assigned", r)
  PROVE  In(cmds[c], "assigned", r) \/ Given(c, r)
<1> USE DEF CommandKinds, Kinds
<1>1. \A k, s : ("assigned" \notin k \/ s # r) /\ Gain(cmds[c], cmds'[c], k, s) => In(cmds[c], "assigned", r)
  BY DEF Gain
<1>2. CASE SameCmds(c)
  BY <1>2 DEF SameCmds
<1>3. ASSUME NEW s \in Runs, Given(c, s), s # r PROVE In(cmds[c], "assigned", r)
  BY <1>1, <1>3 DEF Given
<1>4. ASSUME NEW s \in Runs, Answered(c, s) PROVE In(cmds[c], "assigned", r)
  BY <1>1, <1>4 DEF Answered
<1>5. ASSUME NEW s \in Runs, NEW k \in {"cancelled", "updated"}, Told(c, k, s) PROVE In(cmds[c], "assigned", r)
  BY <1>1, <1>5 DEF Told
<1>6. ASSUME NEW s \in Runs, NEW k \in CommandKinds, Sent(c, k, s) PROVE In(cmds[c], "assigned", r)
  BY <1>1, <1>6 DEF Sent, Lose
<1> QED
  BY <1>2, <1>3, <1>4, <1>5, <1>6 DEF LocalStep, Still, Dropped, Questioned, Took, Worked

LEMMA FreshNext ==
  ASSUME HoldersInv, TurnsInv, [Next]_vars
  PROVE  FreshInv'
<1> SUFFICES ASSUME NEW c \in Conns, NEW r \in Runs, Open(c)', In(cmds'[c], "assigned", r)
             PROVE  r \in assign'[c] /\ Fresh(c, r)'
  BY FreshPrime, Primes DEF FreshInv, FreshAt
<1>1. LocalStep(c)
  BY LocalSteps DEF HoldersInv, TurnsInv
<1>2. ~Began(c)
  <2> SUFFICES ASSUME Began(c) PROVE FALSE
    OBVIOUS
  <2> QED
    BY BeganIdle, IdlePrime DEF TurnsInv, CommandKinds
<1>3. Open(c)
  BY <1>1, <1>2, StepsAreLocal
<1>4. CASE Given(c, r)
  <2>1. Idle(c, r)
    BY <1>3, <1>4 DEF Given, TurnsInv, KnownInv, KnownAt
  <2>2. /\ \A k \in CommandKinds : ~In(cmds[c], k, r)
        /\ \A k \in UpdateKinds : ~In(up[c], k, r)
        /\ proc[c][r] = "off" /\ reader[c].run # r
    BY <2>1, Primes DEF Idle
  <2>3. Once(cmds[c], "assigned", r)
    BY <2>2 DEF CommandKinds, Once, In
  <2>4. ~In(cmds'[c], "ask", r) /\ Once(cmds'[c], "assigned", r)
    BY <1>4, <2>2, <2>3 DEF Given, Gain, Kinds, CommandKinds
  <2> QED
    BY <1>4, <2>2, <2>4, FreshPrime DEF Given, SameProc, SameRead
<1>5. CASE ~Given(c, r)
  <2>1. In(cmds[c], "assigned", r)
    BY <1>1, <1>2, <1>5, AssignedNew
  <2>2. r \in assign[c] /\ Fresh(c, r)
    BY <1>3, <2>1, Primes DEF TurnsInv, FreshInv, FreshAt, Fresh
  <2>3. Fresh(c, r)'
    BY <1>1, <1>2, <1>5, <2>1, <2>2, FreshStays
  <2>4. reader[c] # At("release", r)
    BY <2>2 DEF Fresh, At, AtRun
  <2>5. decider[r] # "refused"
    BY <1>3, <2>1, Primes DEF TurnsInv, TellInv
  <2> QED
    BY <2>2, <2>3, <2>4, <2>5, AssignKept
<1> QED
  BY <1>4, <1>5

(***************************************************************************)
(* A run asks once, and completes last                                     *)
(***************************************************************************)
Turn(c, r) ==
  /\ Before(c, r) =>
       /\ proc[c][r] = "tool" /\ ~Upd(c, "completed", r) /\ ~Asked(c, r)
       /\ Once(up[c], "before", r)
       /\ reader[c] = At("checked", r) /\ ~ctxDone[c] => ~Upd(c, "before", r)
  /\ proc[c][r] = "call" => ~Before(c, r) /\ ~Upd(c, "completed", r) /\ ~Asked(c, r)
  /\ Upd(c, "completed", r) => proc[c][r] = "off"

\* The same, of any queues, state of the process, reader and context.
TurnOf(q, u, p, rd, done, r) ==
  /\ In(u, "before", r) \/ (rd = At("checked", r) /\ ~done) =>
       /\ p = "tool" /\ ~In(u, "completed", r) /\ ~In(q, "ask", r) /\ rd # At("ask", r)
       /\ Once(u, "before", r)
       /\ rd = At("checked", r) /\ ~done => ~In(u, "before", r)
  /\ p = "call" => /\ ~In(u, "before", r) /\ ~(rd = At("checked", r) /\ ~done)
                   /\ ~In(u, "completed", r) /\ ~In(q, "ask", r) /\ rd # At("ask", r)
  /\ In(u, "completed", r) => p = "off"

LEMMA TurnPrime ==
  ASSUME NEW c \in Conns, NEW r \in Runs
  PROVE  /\ Turn(c, r) <=> TurnOf(cmds[c], up[c], proc[c][r], reader[c], ctxDone[c], r)
         /\ Turn(c, r)' <=> TurnOf(cmds'[c], up'[c], proc'[c][r], reader'[c], ctxDone'[c], r)
BY DEF Turn, TurnOf, Before, Asked, Cmd, Upd, In, Once, At

\* The readers that are at work for a run are different places.
LEMMA ReaderPlaces ==
  /\ \A rd : rd.run = None => \A r \in Runs : rd # At("checked", r) /\ rd # At("ask", r)
  /\ \A r, s \in Runs :
       /\ At("checked", r) # At("ask", s) /\ At("answer", r) # At("ask", s) /\ At("checked", r) # At("answer", s)
       /\ At("checked", r) = At("checked", s) => r = s
       /\ At("ask", r) = At("ask", s) => r = s
       /\ \A pc \in {"idle", "err", "answer", "release"} : At(pc, s) # At("checked", r) /\ At(pc, s) # At("ask", r)
BY NoneIsNotARun DEF At, AtRun

LEMMA TurnStays ==
  ASSUME NEW c \in Conns, NEW r \in Runs, LocalStep(c), ~Began(c), Turn(c, r),
         In(cmds[c], "assigned", r) => Fresh(c, r),
         ~In(cmds[c], "cancelled", r)
  PROVE  Turn(c, r)'
<1> USE DEF CommandKinds, UpdateKinds, Kinds
<1> DEFINE P == TurnOf(cmds'[c], up'[c], proc'[c][r], reader'[c], ctxDone'[c], r)
<1>1. TurnOf(cmds[c], up[c], proc[c][r], reader[c], ctxDone[c], r)
  BY TurnPrime
<1> SUFFICES P
  BY TurnPrime
<1> USE DEF TurnOf
<1> HIDE DEF At
<1>2. CASE Still(c)
  BY <1>1, <1>2, ReaderPlaces DEF Still, Base, SameCmds, SameProc, SameRead
<1>3. CASE Dropped(c)
  <2>1. ~In(up'[c], "before", r) /\ ~In(up'[c], "completed", r)
    BY <1>3, Emptied DEF Dropped
  <2> QED
    BY <1>3, <2>1 DEF Dropped
<1>4. ASSUME NEW s \in Runs, Given(c, s) PROVE P
  <2>1. In(cmds'[c], "ask", r) => In(cmds[c], "ask", r)
    BY <1>4 DEF Given, Gain
  <2> QED
    BY <1>1, <1>4, <2>1 DEF Given, Base, SameProc, SameRead
<1>5. ASSUME NEW s \in Runs, Answered(c, s) PROVE P
  <2>1. In(cmds'[c], "ask", r) => In(cmds[c], "ask", r) \/ (r = s /\ reader[c].pc = "ask")
    BY <1>5 DEF Answered, Gain
  <2>2. reader[c].pc = "ask" => reader[c] = At("ask", s)
    BY <1>5 DEF Answered, At
  <2>3. ~(reader[c] = At("checked", r)) /\ ~(reader'[c] = At("checked", r)) /\ ~(reader'[c] = At("ask", r))
    BY <1>5, ReaderPlaces DEF Answered
  <2> QED
    BY <1>1, <1>5, <2>1, <2>2, <2>3 DEF Answered, Base, SameProc
<1>6. ASSUME NEW s \in Runs, Questioned(c, s) PROVE P
  <2>1. ~(reader'[c] = At("checked", r)) /\ (reader'[c] = At("ask", r) => r = s)
    BY <1>6, ReaderPlaces DEF Questioned
  <2> QED
    BY <1>1, <1>6, <2>1 DEF Questioned, Base, SameProc, SameCmds
<1>7. ASSUME NEW s \in Runs, NEW k \in {"cancelled", "updated"}, Told(c, k, s) PROVE P
  <2>1. In(cmds'[c], "ask", r) => In(cmds[c], "ask", r)
    BY <1>7 DEF Told, Gain
  <2> QED
    BY <1>1, <1>7, <2>1 DEF Told, Base, SameProc, SameRead
<1>8. ASSUME NEW s \in Runs, NEW k \in UpdateKinds, Took(c, k, s) PROVE P
  <2>1. /\ In(up'[c], "before", r) => In(up[c], "before", r)
        /\ In(up'[c], "completed", r) => In(up[c], "completed", r)
        /\ Once(up[c], "before", r) => Once(up'[c], "before", r)
        /\ Once(up[c], k, s) => ~In(up'[c], k, s)
        /\ In(up[c], k, s)
    BY <1>8 DEF Took, Lose, Gain
  <2>2. reader[c] # At("checked", r) /\ reader[c] # At("ask", r) /\ ctxDone'[c] = ctxDone[c] /\ cmds'[c] = cmds[c]
        /\ proc'[c] = proc[c]
    BY <1>8, ReaderPlaces DEF Took, Base, SameCmds
  <2>3. CASE k = "before" /\ reader'[c] = At("checked", s)
    <3>1. reader'[c] # At("ask", r) /\ (reader'[c] = At("checked", r) => r = s)
      BY <2>3, ReaderPlaces
    <3> QED
      BY <1>1, <2>1, <2>2, <2>3, <3>1
  <2>4. CASE reader'[c] \in {At("idle", s), At("err", s), At("answer", s), At("release", s)}
    <3>1. reader'[c] # At("ask", r) /\ reader'[c] # At("checked", r)
      BY <2>4, ReaderPlaces
    <3> QED
      BY <1>1, <2>1, <2>2, <3>1
  <2> QED
    BY <1>8, <2>3, <2>4 DEF Took
<1>9. ASSUME NEW s \in Runs, NEW k \in CommandKinds, Sent(c, k, s) PROVE P
  <2>1. /\ In(cmds'[c], "ask", r) => In(cmds[c], "ask", r)
        /\ In(cmds[c], k, s)
    BY <1>9 DEF Sent, Lose, Gain
  <2>2. reader'[c] = reader[c] /\ ctxDone'[c] = ctxDone[c] /\ ~ctxDone[c]
    BY <1>9 DEF Sent, Base, SameRead
  <2>3. CASE s # r \/ (up'[c] = up[c] /\ proc'[c] = proc[c])
    <3>1. /\ In(up'[c], "before", r) => In(up[c], "before", r)
          /\ In(up'[c], "completed", r) => In(up[c], "completed", r)
          /\ Once(up[c], "before", r) => Once(up'[c], "before", r)
          /\ proc'[c][r] = proc[c][r]
      BY <1>9, <2>3 DEF Sent, Gain, Turns, SameProc
    <3> QED
      BY <1>1, <2>1, <2>2, <3>1
  <2>4. CASE s = r /\ k = "assigned"
    <3>1. Fresh(c, r)
      BY <2>1, <2>4
    <3>2. /\ \A j \in UpdateKinds : ~In(up'[c], j, r)
          /\ reader[c].run # r
          /\ ~In(cmds[c], "ask", r)
      BY <1>9, <2>4, <3>1 DEF Fresh, Sent, SameProc
    <3>3. reader[c] # At("checked", r) /\ reader[c] # At("ask", r)
      BY <3>2 DEF At, AtRun
    <3> QED
      BY <2>1, <2>2, <3>2, <3>3
  <2>5. CASE s = r /\ k = "ask" /\ proc[c][r] = "tool" /\ proc'[c][r] = "await" /\ up'[c] = up[c]
    BY <1>1, <2>1, <2>2, <2>5
  <2>6. CASE s = r /\ k = "decision" /\ proc[c][r] = "asking" /\ proc'[c][r] = "model" /\ up'[c] = up[c]
    BY <1>1, <2>1, <2>2, <2>6
  <2>7. CASE s = r /\ k = "decision" /\ proc[c][r] = "failing" /\ proc'[c][r] = "off" /\ Gain(up[c], up'[c], {"failed"}, r)
    <3>1. /\ In(up'[c], "before", r) => In(up[c], "before", r)
          /\ In(up'[c], "completed", r) => In(up[c], "completed", r)
      BY <2>7 DEF Gain
    <3> QED
      BY <1>1, <2>1, <2>2, <2>7, <3>1
  <2> QED
    BY <1>9, <2>1, <2>3, <2>4, <2>5, <2>6, <2>7 DEF Sent, Turns, SameProc
<1>10. ASSUME NEW s \in Runs, NEW k \in UpdateKinds, NEW to \in ProcState, Worked(c, s, to, k) PROVE P
  <2>1. reader'[c] = reader[c] /\ ctxDone'[c] = ctxDone[c] /\ cmds'[c] = cmds[c]
    BY <1>10 DEF Worked, Base, SameCmds, SameRead
  <2>2. /\ In(up'[c], "before", r) => In(up[c], "before", r) \/ (r = s /\ k = "before")
        /\ In(up'[c], "completed", r) => In(up[c], "completed", r) \/ (r = s /\ k = "completed")
        /\ Once(up[c], "before", r) /\ (In(up[c], "before", r) => ~(r = s /\ k = "before")) => Once(up'[c], "before", r)
    BY <1>10 DEF Worked, Gain
  <2>3. ~In(up[c], "before", r) => Once(up[c], "before", r)
    BY DEF In, Once
  <2>4. CASE s # r
    <3>1. proc'[c][r] = proc[c][r]
      BY <1>10, <2>4 DEF Worked, Turns
    <3> QED
      BY <1>1, <2>1, <2>2, <2>4, <3>1
  <2>5. CASE s = r
    <3>1. proc'[c][r] = to
      BY <1>10, <2>5 DEF Worked, Turns
    <3>2. \/ proc[c][r] = "call" /\ to \in {"tool", "off"} /\ k \in {"before", "failed"} /\ (k = "before" => to = "tool")
          \/ proc[c][r] = "model" /\ to \in {"model", "asking"} /\ k \in {"event", "beacon"}
          \/ proc[c][r] = "model" /\ to = "off" /\ k \in {"completed", "failed", "empty"}
          \/ proc[c][r] = "await" /\ to \in {"asking", "failing"} /\ k = "beacon"
      BY <1>10, <2>5 DEF Worked
    <3> QED
      BY <1>1, <2>1, <2>2, <2>3, <2>5, <3>1, <3>2
  <2> QED
    BY <2>4, <2>5
<1> HIDE DEF CommandKinds, UpdateKinds, Kinds, TurnOf, P
<1> QED
  BY <1>2, <1>3, <1>4, <1>5, <1>6, <1>7, <1>8, <1>9, <1>10 DEF LocalStep

LEMMA IdleTurn ==
  ASSUME NEW c \in Conns, NEW r \in Runs, Idle(c, r)'
  PROVE  Turn(c, r)'
<1>1. /\ ~In(up'[c], "before", r) /\ ~In(up'[c], "completed", r)
      /\ proc'[c][r] = "off" /\ reader'[c].run # r
  BY IdlePrime DEF UpdateKinds
<1>2. reader'[c] # At("checked", r)
  BY <1>1 DEF At, AtRun
<1> QED
  BY <1>1, <1>2, TurnPrime DEF TurnOf

LEMMA TurnNext ==
  ASSUME HoldersInv, TurnsInv, [Next]_vars
  PROVE  TurnInv'
<1>1. SUFFICES ASSUME NEW c \in Conns, NEW r \in Runs, Open(c)', ~Ended(r)' PROVE Turn(c, r)'
  <2>1. \A c \in Conns, r \in Runs : Open(c)' /\ ~Ended(r)' => Turn(c, r)'
    BY <1>1
  <2> QED
    BY <2>1 DEF TurnInv, TurnAt, Turn
<1>2. LocalStep(c)
  BY <1>1, LocalSteps DEF HoldersInv, TurnsInv
<1>3. CASE Began(c)
  BY <1>3, BeganIdle, IdleTurn DEF TurnsInv
<1>4. CASE ~Began(c)
  <2>1. Open(c) /\ ~Ended(r)
    BY <1>1, <1>2, <1>4, StepsAreLocal, EndsStay DEF HoldersInv
  <2>2. Turn(c, r)
    BY <2>1 DEF TurnsInv, TurnInv, TurnAt, Turn
  <2>3. In(cmds[c], "assigned", r) => Fresh(c, r)
    BY <2>1, Primes DEF TurnsInv, FreshInv, FreshAt, Fresh
  <2>4. ~In(cmds[c], "cancelled", r)
    BY <2>1, Primes DEF TurnsInv, TellInv
  <2> QED
    BY <1>2, <1>4, <2>2, <2>3, <2>4, TurnStays
<1> QED
  BY <1>3, <1>4

(***************************************************************************)
(* While a run waits for the user                                          *)
(***************************************************************************)

\* A run begins to wait by the transaction of a reader.
LEMMA AsksAt ==
  ASSUME HoldersInv, [Next]_vars, NEW r \in Runs, run[r] = "running", run'[r] = "waiting_approval"
  PROVE  \E d \in Conns : ReaderAsks(d) /\ reader[d].run = r /\ ReaderGoes(d, "ask")
<1> USE DEF HoldersInv
<1>1. ASSUME UNCHANGED repoVars PROVE FALSE
  BY <1>1 DEF repoVars
<1>2. CASE UNCHANGED vars \/ Restart
  BY <1>1, <1>2 DEF vars, Restart
<1>3. ASSUME NEW s \in Runs,
             \/ EnqueueUserMessage(s) \/ RequeueClaimedJob(s) \/ CompleteRunWithEvent(s) \/ FailRunWithEvent(s)
             \/ CancelRunWithEvent(s) \/ ApproveApproval(s) \/ DenyApproval(s) \/ ExpireApproval(s)
             \/ ConsumeApproval(s) \/ \E id : ClaimNextJob(s, id)
      PROVE  FALSE
  BY <1>3 DEF EnqueueUserMessage, RequeueClaimedJob, CompleteRunWithEvent, FailRunWithEvent, CancelRunWithEvent,
              ApproveApproval, DenyApproval, ExpireApproval, RefuseApproval, ConsumeApproval, ClaimNextJob,
              TypeOK, RepoTypeOK
<1>4. ASSUME NEW t \in Threads, DispatchStep(t) PROVE FALSE
  <2>1. \A d \in Conns, s \in Runs : DispatchAbort(t, d, s) => FALSE
    BY <1>1, <1>3 DEF DispatchAbort, RequeueOrDrop
  <2>2. \A d \in Conns, s \in Runs : DispatchClaim(t, d, s) => FALSE
    BY <1>3 DEF DispatchClaim
  <2> QED
    BY <1>1, <1>4, <2>1, <2>2 DEF DispatchStep, DispatchStart, DispatchError, DispatchPass, DispatchNoJob, DispatchDeliver
<1>5. ASSUME NEW d \in Conns,
             \/ Connect(d) \/ ClientDrop(d) \/ HandlerLeaves(d) \/ SendFails(d)
             \/ Deregister(d) \/ Close(d) \/ HandlerReturns(d) \/ SendCommand(d)
      PROVE  FALSE
  BY <1>1, <1>5 DEF Connect, ClientDrop, HandlerLeaves, SendFails, Deregister, Close, HandlerReturns, SendCommand
<1>6. ASSUME NEW d \in Conns, NEW s \in Runs, RequeueLimbo(d, s) \/ ProcStreams(d, s) \/ ProcAdvances(d, s)
      PROVE  FALSE
  BY <1>1, <1>3, <1>6 DEF RequeueLimbo, RequeueOrDrop, ProcStreams, ProcAdvances, ProcCallsTool, ProcApproved,
                     ProcRefused, ProcFinishes
<1>7. ASSUME NEW d \in Conns, ReaderStep(d) PROVE ReaderAsks(d) /\ reader[d].run = r /\ ReaderGoes(d, "ask")
  <2>1. ASSUME NEW k \in UpdateKinds, NEW s \in Runs,
               \/ ReaderRejects(d, Msg(k, s)) \/ ReaderNotes(d, Msg(k, s)) \/ ReaderEnds(d, Msg(k, s))
        PROVE  FALSE
    <3>1. UNCHANGED repoVars \/ CompleteRunWithEvent(s) \/ FailRunWithEvent(s)
      BY <2>1 DEF ReaderRejects, ReaderNotes, ReaderEnds, Msg
    <3> QED
      BY <1>1, <1>3, <3>1
  <2>2. CASE ReaderAsks(d)
    <3>1. CreateApproval(reader[d].run) /\ ReaderGoes(d, "ask")
      BY <1>1, <2>2 DEF ReaderAsks
    <3>2. reader[d].run = r
      BY <3>1 DEF CreateApproval, TypeOK, RepoTypeOK
    <3> QED
      BY <2>2, <3>1, <3>2
  <2>3. ReaderAnswers(d) \/ ReaderQuits(d) \/ ReaderReleases(d) => FALSE
    BY <1>1 DEF ReaderAnswers, ReaderQuits, ReaderReleases
  <2> QED
    BY <1>7, <2>1, <2>2, <2>3 DEF ReaderStep, UpdateKinds
<1>8. ASSUME NEW s \in Runs, RunStep(s) PROVE FALSE
  BY <1>1, <1>3, <1>8 DEF RunStep, SendMessage, ChatHangsUp, ChatStep, ChatEnds, ChatCancels, CancelRun, ChatTells,
                     Decide, DeciderNotifies
<1> QED
  BY <1>2, <1>4, <1>5, <1>6, <1>7, <1>8 DEF Next, ConnStep, Teardown

\* Nothing at c asks or completes.
Quiet(c, r) ==
  /\ ~Cmd(c, "assigned", r)
  /\ proc[c][r] \notin {"call", "model", "asking"}
  /\ ~Before(c, r) /\ ~Upd(c, "completed", r)

QuietOf(q, u, p, rd, done, r) ==
  /\ ~In(q, "assigned", r)
  /\ p \notin {"call", "model", "asking"}
  /\ ~In(u, "before", r) /\ ~(rd = At("checked", r) /\ ~done)
  /\ ~In(u, "completed", r)

LEMMA QuietPrime ==
  ASSUME NEW c \in Conns, NEW r \in Runs
  PROVE  /\ Quiet(c, r) <=> QuietOf(cmds[c], up[c], proc[c][r], reader[c], ctxDone[c], r)
         /\ Quiet(c, r)' <=> QuietOf(cmds'[c], up'[c], proc'[c][r], reader'[c], ctxDone'[c], r)
BY DEF Quiet, QuietOf, Before, Cmd, Upd, In, At

LEMMA IdleQuiet ==
  ASSUME NEW c \in Conns, NEW r \in Runs
  PROVE  /\ Idle(c, r) => Quiet(c, r)
         /\ Idle(c, r)' => Quiet(c, r)'
<1>1. \A rd : rd.run # r => rd # At("checked", r)
  BY DEF At, AtRun
<1>2. Idle(c, r) => Quiet(c, r)
  BY <1>1, QuietPrime, Primes DEF Idle, QuietOf, CommandKinds, UpdateKinds
<1>3. Idle(c, r)' => Quiet(c, r)'
  BY <1>1, QuietPrime, IdlePrime DEF QuietOf, CommandKinds, UpdateKinds
<1> QED
  BY <1>2, <1>3

LEMMA QuietStays ==
  ASSUME NEW c \in Conns, NEW r \in Runs, LocalStep(c), ~Began(c), ~Given(c, r),
         Quiet(c, r), approval[r] # "approved"
  PROVE  Quiet(c, r)'
<1> USE DEF CommandKinds, UpdateKinds, Kinds
<1> DEFINE P == QuietOf(cmds'[c], up'[c], proc'[c][r], reader'[c], ctxDone'[c], r)
<1>1. QuietOf(cmds[c], up[c], proc[c][r], reader[c], ctxDone[c], r)
  BY QuietPrime
<1> SUFFICES P
  BY QuietPrime
<1> USE DEF QuietOf
<1> HIDE DEF At
<1>2. CASE Still(c)
  BY <1>1, <1>2, ReaderPlaces DEF Still, Base, SameCmds, SameProc, SameRead
<1>3. CASE Dropped(c)
  BY <1>1, <1>3, Emptied DEF Dropped, SameCmds
<1>4. ~In(cmds'[c], "assigned", r)
  BY <1>1, AssignedNew
<1>5. ASSUME NEW s \in Runs, Given(c, s) PROVE P
  BY <1>1, <1>4, <1>5 DEF Given, Base, SameProc, SameRead
<1>6. ASSUME NEW s \in Runs, Answered(c, s) PROVE P
  BY <1>1, <1>4, <1>6, ReaderPlaces DEF Answered, Base, SameProc
<1>7. ASSUME NEW s \in Runs, Questioned(c, s) PROVE P
  BY <1>1, <1>4, <1>7, ReaderPlaces DEF Questioned, Base, SameProc
<1>8. ASSUME NEW s \in Runs, NEW k \in {"cancelled", "updated"}, Told(c, k, s) PROVE P
  BY <1>1, <1>4, <1>8 DEF Told, Base, SameProc, SameRead
<1>9. ASSUME NEW s \in Runs, NEW k \in UpdateKinds, Took(c, k, s) PROVE P
  <2>1. /\ In(up'[c], "before", r) => In(up[c], "before", r)
        /\ In(up'[c], "completed", r) => In(up[c], "completed", r)
        /\ In(up[c], k, s)
    BY <1>9 DEF Took, Lose, Gain
  <2>2. reader'[c] # At("checked", r)
    <3>1. CASE k = "before" /\ reader'[c] = At("checked", s)
      <4>1. r # s
        BY <1>1, <2>1, <3>1
      <4> QED
        BY <3>1, <4>1, ReaderPlaces
    <3>2. CASE reader'[c] \in {At("idle", s), At("err", s), At("answer", s), At("release", s)}
      BY <3>2, ReaderPlaces
    <3> QED
      BY <1>9, <3>1, <3>2 DEF Took
  <2> QED
    BY <1>1, <1>4, <1>9, <2>1, <2>2 DEF Took, Base
<1>10. ASSUME NEW s \in Runs, NEW k \in CommandKinds, Sent(c, k, s) PROVE P
  <2>1. In(cmds[c], k, s) /\ reader'[c] = reader[c] /\ ctxDone'[c] = ctxDone[c]
    BY <1>10 DEF Sent, Lose, Base, SameRead
  <2>2. /\ In(up'[c], "before", r) => In(up[c], "before", r)
        /\ In(up'[c], "completed", r) => In(up[c], "completed", r)
    BY <1>10 DEF Sent, Gain, SameProc
  <2>3. proc'[c][r] \notin {"call", "model", "asking"}
    BY <1>1, <1>10, <2>1 DEF Sent, Turns, SameProc
  <2> QED
    BY <1>1, <1>4, <2>1, <2>2, <2>3
<1>11. ASSUME NEW s \in Runs, NEW k \in UpdateKinds, NEW to \in ProcState, Worked(c, s, to, k) PROVE P
  <2>1. reader'[c] = reader[c] /\ ctxDone'[c] = ctxDone[c]
    BY <1>11 DEF Worked, Base, SameRead
  <2>2. s = r => k = "beacon" /\ to = "failing"
    BY <1>1, <1>11 DEF Worked
  <2>3. /\ In(up'[c], "before", r) => In(up[c], "before", r)
        /\ In(up'[c], "completed", r) => In(up[c], "completed", r)
    BY <1>11, <2>2 DEF Worked, Gain
  <2>4. proc'[c][r] = proc[c][r] \/ proc'[c][r] = "failing"
    BY <1>11, <2>2 DEF Worked, Turns
  <2> QED
    BY <1>1, <1>4, <2>1, <2>3, <2>4
<1> HIDE DEF CommandKinds, UpdateKinds, Kinds, QuietOf, P
<1> QED
  BY <1>2, <1>3, <1>5, <1>6, <1>7, <1>8, <1>9, <1>10, <1>11 DEF LocalStep

\* A run that begins to wait does so at the end of all it had under way.
LEMMA AsksQuietly ==
  ASSUME HoldersInv, TurnsInv, NEW r \in Runs, run[r] = "running",
         NEW d \in Conns, ReaderAsks(d), reader[d].run = r, ReaderGoes(d, "ask"), NEW c \in Conns
  PROVE  ~Delivers(c, r)' /\ (Open(c)' => Quiet(c, r)')
<1> USE DEF HoldersInv
<1>1. /\ UNCHANGED <<conn, ctxDone, disp, up, proc, assign, cmds>> /\ ~ctxDone[d]
      /\ \A e \in Conns \ {d} : reader'[e] = reader[e]
  BY DEF ReaderAsks, ReaderGoes, procVars, TypeOK, RuntimeTypeOK
<1>2. reader[d] = At("checked", r) /\ reader[d].pc = "checked" /\ reader'[d] = At("ask", r)
  <2>1. reader[d].pc = "checked"
    BY DEF ReaderAsks
  <2> QED
    BY <2>1, IdleReader DEF AtRun, ReaderGoes, TypeOK, RuntimeTypeOK
<1>3. ~Ended(r)
  BY DEF Ended, Finished
<1>4. conn[d] = "serving" /\ r \in assign[d]
  BY <1>1, <1>2, <1>3 DEF ReaderHolds
<1>5. \A e \in Conns : ~Delivers(e, r)
  BY <1>3, <1>4 DEF OneOwner, Responsible, Delivers
<1>6. ~Delivers(c, r)'
  BY <1>1, <1>5 DEF Delivers
<1>7. ASSUME Open(c)', c = d PROVE Quiet(c, r)'
  <2>1. Open(c)
    BY <1>4, <1>7 DEF Open
  <2>2. Turn(c, r)
    BY <1>3, <2>1 DEF TurnsInv, TurnInv, TurnAt, Turn
  <2>3. TurnOf(cmds[c], up[c], proc[c][r], reader[c], ctxDone[c], r)
    BY <2>2, TurnPrime
  <2>4. proc[c][r] = "tool" /\ ~In(up[c], "completed", r) /\ ~In(up[c], "before", r)
    BY <1>1, <1>2, <1>7, <2>3 DEF TurnOf
  <2>5. ~In(cmds[c], "assigned", r)
    BY <1>7, <2>1, Primes DEF TurnsInv, FreshInv, FreshAt
  <2>6. reader'[c] # At("checked", r)
    BY <1>2, <1>7, ReaderPlaces
  <2> QED
    BY <1>1, <2>4, <2>5, <2>6, QuietPrime DEF QuietOf
<1>8. ASSUME Open(c)', c # d PROVE Quiet(c, r)'
  <2>1. Open(c) /\ r \notin assign[c]
    BY <1>1, <1>3, <1>4, <1>8 DEF Open, OneOwner, Responsible
  <2>2. Idle(c, r)
    BY <1>3, <2>1 DEF TurnsInv, KnownInv, KnownAt
  <2>3. Idle(c, r)'
    BY <1>1, <1>8, <2>2 DEF Idle, Cmd, Upd, In
  <2> QED
    BY <2>3, IdleQuiet
<1> QED
  BY <1>6, <1>7, <1>8

LEMMA QuietMeans ==
  ASSUME NEW c \in Conns, NEW r \in Runs
  PROVE  /\ QuietAt(c, r) <=> ~Delivers(c, r) /\ (Open(c) => Quiet(c, r))
         /\ QuietAt(c, r)' <=> ~Delivers(c, r)' /\ (Open(c)' => Quiet(c, r)')
BY DEF QuietAt, Quiet

\* Nobody begins to deliver a run that is not in the queue.
LEMMA DeliversBefore ==
  ASSUME HoldersInv, FreshInv, [Next]_vars, NEW c \in Conns, NEW r \in Runs, run[r] # "queued", Delivers(c, r)'
  PROVE  Delivers(c, r)
<1>1. CASE \A t \in Threads, s \in Runs : disp'[t].run = s => disp'[t] = disp[t]
  BY <1>1 DEF Delivers
<1>2. ASSUME NEW t \in Threads, NEW d \in Conns, NEW s \in Runs, Claims(t, d, s) PROVE Delivers(c, r)
  BY <1>2 DEF Claims, Delivers
<1> QED
  BY <1>1, <1>2, HoldsBefore

LEMMA WaitNext ==
  ASSUME HoldersInv, TurnsInv, [Next]_vars
  PROVE  WaitInv'
<1>1. SUFFICES ASSUME NEW r \in Runs, run'[r] = "waiting_approval"
               PROVE  approval'[r] = "pending" /\ \A c \in Conns : QuietAt(c, r)'
  BY DEF WaitInv
<1>2. RowStep(r)
  BY RowsStep
<1>3. run[r] \in {"running", "waiting_approval"}
  BY <1>1, <1>2 DEF RowStep, Row, Active, Finished
<1>4. CASE run[r] = "running"
  <2>1. approval'[r] = "pending"
    BY <1>1, <1>2, <1>4 DEF RowStep, Row, Finished
  <2>2. \A c \in Conns : QuietAt(c, r)'
    BY <1>1, <1>4, AsksAt, AsksQuietly, QuietMeans
  <2> QED
    BY <2>1, <2>2
<1>5. CASE run[r] = "waiting_approval"
  <2>1. approval[r] = "pending" /\ \A c \in Conns : QuietAt(c, r)
    BY <1>5 DEF TurnsInv, WaitInv
  <2>2. approval'[r] = "pending"
    BY <1>1, <1>2, <1>5, <2>1 DEF RowStep, Row, Finished
  <2>3. ASSUME NEW c \in Conns PROVE QuietAt(c, r)'
    <3>1. ~Delivers(c, r) /\ (Open(c) => Quiet(c, r))
      BY <2>1, QuietMeans
    <3>2. ~Delivers(c, r)'
      BY <1>5, <3>1, DeliversBefore DEF TurnsInv
    <3>3. ASSUME Open(c)' PROVE Quiet(c, r)'
      <4>1. LocalStep(c)
        BY <3>3, LocalSteps DEF HoldersInv, TurnsInv
      <4>2. CASE Began(c)
        BY <4>2, BeganIdle, IdleQuiet DEF TurnsInv
      <4>3. CASE ~Began(c)
        <5>1. Open(c) /\ ~Given(c, r) /\ approval[r] # "approved"
          BY <2>1, <3>1, <4>1, <4>3, StepsAreLocal DEF Given
        <5> QED
          BY <3>1, <4>1, <4>3, <5>1, QuietStays
      <4> QED
        BY <4>2, <4>3
    <3> QED
      BY <3>2, <3>3, QuietMeans
  <2> QED
    BY <2>2, <2>3
<1> QED
  BY <1>3, <1>4, <1>5

(***************************************************************************)
(* Who tells the worker, and when                                          *)
(***************************************************************************)
LEMMA TellsEnded ==
  ASSUME HoldersInv, [Next]_vars, NEW r \in Runs, chat'[r] = "telling", chat[r] # "telling"
  PROVE  Ended(r)'
<1> USE DEF HoldersInv, TypeOK, CallerTypeOK
<1>1. CASE chat'[r] = chat[r]
  BY <1>1
<1>2. CASE UNCHANGED vars \/ Restart
  BY <1>2 DEF vars, callerVars, Restart
<1>3. ASSUME NEW t \in Threads, DispatchStep(t) PROVE FALSE
  <2>1. \A ok : Return(t, ok) => chat' \in {chat} \union {[chat EXCEPT ![s] = pc] : s \in Runs, pc \in {"stream", "cancelling"}}
    BY DEF Return, callerVars
  <2>2. \A ok : Return(t, ok) => FALSE
    BY <2>1
  <2>3. \A left : Continue(t, left) => FALSE
    BY <2>2 DEF Continue, Stay, callerVars
  <2> QED
    BY <1>3, <2>2, <2>3
    DEF DispatchStep, DispatchStart, DispatchError, DispatchPass, DispatchNoJob, DispatchClaim, DispatchDeliver,
        DispatchAbort, Stay, callerVars
<1>4. ASSUME NEW d \in Conns,
             \/ Connect(d) \/ ClientDrop(d) \/ HandlerLeaves(d) \/ SendFails(d)
             \/ Deregister(d) \/ Close(d) \/ HandlerReturns(d) \/ SendCommand(d)
             \/ \E s \in Runs : RequeueLimbo(d, s) \/ ProcStreams(d, s) \/ ProcAdvances(d, s)
      PROVE  FALSE
  BY <1>4 DEF Connect, ClientDrop, HandlerLeaves, SendFails, Deregister, Close, HandlerReturns, SendCommand,
              RequeueLimbo, ProcStreams, ProcAdvances, ProcCallsTool, ProcApproved, ProcRefused, ProcFinishes,
              ProcMoves, callerVars
<1>5. ASSUME NEW d \in Conns, ReaderStep(d) PROVE FALSE
  <2>1. \A pc : Take(d, pc) \/ ReaderGoes(d, pc) => FALSE
    BY DEF Take, ReaderGoes, callerVars
  <2> QED
    BY <1>5, <2>1 DEF ReaderStep, ReaderRejects, ReaderNotes, ReaderEnds, ReaderAsks, ReaderAnswers, ReaderQuits, ReaderReleases
<1>6. ASSUME NEW s \in Runs, RunStep(s) PROVE Ended(r)'
  <2>1. ASSUME CancelRun(s) PROVE Ended(r)'
    <3>1. CancelRunWithEvent(s) /\ ChatGoes(s, "telling")
      BY <2>1 DEF CancelRun, ChatGoes
    <3>2. r = s
      BY <3>1 DEF ChatGoes
    <3> QED
      BY <3>1, <3>2 DEF CancelRunWithEvent, Ended, Finished, RepoTypeOK
  <2>2. \A pc : pc \in {"dispatch", "done"} => ~ChatGoes(s, pc)
    BY DEF ChatGoes
  <2>3. \A pc : ~DeciderGoes(s, pc)
    BY DEF DeciderGoes
  <2> QED
    BY <1>6, <2>1, <2>2, <2>3 DEF RunStep, SendMessage, ChatHangsUp, ChatStep, ChatEnds, ChatCancels, ChatTells, Decide, DeciderNotifies
<1> QED
  BY <1>2, <1>3, <1>4, <1>5, <1>6 DEF Next, ConnStep, Teardown

\* A refusal ends a run that waits for the user.
LEMMA RefusesWaiting ==
  ASSUME HoldersInv, [Next]_vars, NEW r \in Runs, decider'[r] = "refused", decider[r] # "refused"
  PROVE  run[r] = "waiting_approval" /\ UNCHANGED <<disp, cmds, conn>>
<1> USE DEF HoldersInv, TypeOK, CallerTypeOK
<1>1. CASE UNCHANGED vars \/ Restart
  BY <1>1 DEF vars, callerVars, Restart
<1>2. ASSUME NEW t \in Threads, DispatchStep(t) PROVE FALSE
  <2>1. decider'[r] \in {decider[r], "idle"}
    BY <1>2, DispatchFrame
  <2> QED
    BY <2>1
<1>3. ASSUME NEW d \in Conns,
             \/ Connect(d) \/ ClientDrop(d) \/ HandlerLeaves(d) \/ SendFails(d)
             \/ Deregister(d) \/ Close(d) \/ HandlerReturns(d) \/ SendCommand(d)
             \/ \E s \in Runs : RequeueLimbo(d, s) \/ ProcStreams(d, s) \/ ProcAdvances(d, s)
      PROVE  FALSE
  BY <1>3 DEF Connect, ClientDrop, HandlerLeaves, SendFails, Deregister, Close, HandlerReturns, SendCommand,
              RequeueLimbo, ProcStreams, ProcAdvances, ProcCallsTool, ProcApproved, ProcRefused, ProcFinishes,
              ProcMoves, callerVars
<1>4. ASSUME NEW d \in Conns, ReaderStep(d) PROVE FALSE
  <2>1. \A pc : Take(d, pc) \/ ReaderGoes(d, pc) => FALSE
    BY DEF Take, ReaderGoes, callerVars
  <2> QED
    BY <1>4, <2>1 DEF ReaderStep, ReaderRejects, ReaderNotes, ReaderEnds, ReaderAsks, ReaderAnswers, ReaderQuits, ReaderReleases
<1>5. ASSUME NEW s \in Runs, RunStep(s) PROVE run[r] = "waiting_approval" /\ UNCHANGED <<disp, cmds, conn>>
  <2>1. \A pc : ~ChatGoes(s, pc)
    BY DEF ChatGoes
  <2>2. \A pc : DeciderGoes(s, pc) => pc = "refused" /\ r = s
    BY DEF DeciderGoes
  <2>3. Decide(s) /\ r = s
    BY <1>5, <2>1, <2>2 DEF RunStep, SendMessage, ChatHangsUp, ChatStep, ChatEnds, ChatCancels, CancelRun, ChatTells,
                      Decide, DeciderNotifies
  <2> QED
    BY <2>3 DEF Decide, DeciderGoes, ApproveApproval, DenyApproval, ExpireApproval, RefuseApproval, Undecided
<1> QED
  BY <1>1, <1>2, <1>3, <1>4, <1>5 DEF Next, ConnStep, Teardown

\* The cancel command of a run is put in the queue by the handler that tells its owner.
LEMMA CancelledNew ==
  ASSUME NEW c \in Conns, NEW r \in Runs, LocalStep(c), ~Began(c), In(cmds'[c], "cancelled", r)
  PROVE  In(cmds[c], "cancelled", r) \/ chat[r] = "telling"
<1> USE DEF CommandKinds, Kinds
<1>1. \A k, s : ("cancelled" \notin k \/ s # r) /\ Gain(cmds[c], cmds'[c], k, s) => In(cmds[c], "cancelled", r)
  BY DEF Gain
<1>2. CASE SameCmds(c)
  BY <1>2 DEF SameCmds
<1>3. ASSUME NEW s \in Runs, Given(c, s) PROVE In(cmds[c], "cancelled", r)
  BY <1>1, <1>3 DEF Given
<1>4. ASSUME NEW s \in Runs, Answered(c, s) PROVE In(cmds[c], "cancelled", r)
  BY <1>1, <1>4 DEF Answered
<1>5. ASSUME NEW s \in Runs, NEW k \in {"cancelled", "updated"}, Told(c, k, s)
      PROVE  In(cmds[c], "cancelled", r) \/ chat[r] = "telling"
  BY <1>1, <1>5 DEF Told
<1>6. ASSUME NEW s \in Runs, NEW k \in CommandKinds, Sent(c, k, s) PROVE In(cmds[c], "cancelled", r)
  BY <1>1, <1>6 DEF Sent, Lose
<1> QED
  BY <1>2, <1>3, <1>4, <1>5, <1>6 DEF LocalStep, Still, Dropped, Questioned, Took, Worked

LEMMA TellNext ==
  ASSUME HoldersInv, TurnsInv, [Next]_vars
  PROVE  TellInv'
<1> SUFFICES ASSUME NEW r \in Runs
             PROVE  /\ chat'[r] = "telling" => Ended(r)'
                    /\ \A c \in Conns : Open(c)' /\ In(cmds'[c], "cancelled", r) => Ended(r)'
                    /\ decider'[r] = "refused" =>
                         \A c \in Conns : ~Delivers(c, r)' /\ (Open(c)' => ~In(cmds'[c], "assigned", r))
  BY Primes DEF TellInv
<1>1. chat[r] = "telling" => Ended(r)
  BY DEF TurnsInv, TellInv
<1>2. Ended(r) => Ended(r)'
  BY EndsStay DEF HoldersInv
<1>3. chat'[r] = "telling" => Ended(r)'
  BY <1>1, <1>2, TellsEnded
<1>4. \A c \in Conns : Open(c)' => LocalStep(c)
  BY LocalSteps DEF HoldersInv, TurnsInv
<1>5. \A c \in Conns : Began(c) => ~In(cmds'[c], "cancelled", r) /\ ~In(cmds'[c], "assigned", r)
  BY BeganIdle, IdlePrime DEF TurnsInv, CommandKinds
<1>6. ASSUME NEW c \in Conns, Open(c)', In(cmds'[c], "cancelled", r) PROVE Ended(r)'
  <2>1. LocalStep(c) /\ ~Began(c) /\ Open(c)
    BY <1>4, <1>5, <1>6, StepsAreLocal
  <2>2. In(cmds[c], "cancelled", r) \/ chat[r] = "telling"
    BY <1>6, <2>1, CancelledNew
  <2> QED
    BY <1>1, <1>2, <2>1, <2>2, Primes DEF TurnsInv, TellInv
<1>7. ASSUME decider'[r] = "refused", decider[r] = "refused", NEW c \in Conns
      PROVE  ~Delivers(c, r)' /\ (Open(c)' => ~In(cmds'[c], "assigned", r))
  <2>1. ~Delivers(c, r) /\ (Open(c) => ~In(cmds[c], "assigned", r))
    BY <1>7, Primes DEF TurnsInv, TellInv
  <2>2. run[r] # "queued"
    BY <1>7 DEF HoldersInv, RefusedEnded, Ended, Finished
  <2>3. ~Delivers(c, r)'
    BY <2>1, <2>2, DeliversBefore DEF TurnsInv
  <2>4. ASSUME Open(c)', In(cmds'[c], "assigned", r) PROVE FALSE
    <3>1. LocalStep(c) /\ ~Began(c) /\ Open(c)
      BY <1>4, <1>5, <2>4, StepsAreLocal
    <3> QED
      BY <2>1, <2>4, <3>1, AssignedNew DEF Given
  <2> QED
    BY <2>3, <2>4
<1>8. ASSUME decider'[r] = "refused", decider[r] # "refused", NEW c \in Conns
      PROVE  ~Delivers(c, r)' /\ (Open(c)' => ~In(cmds'[c], "assigned", r))
  <2>1. run[r] = "waiting_approval" /\ UNCHANGED <<disp, cmds, conn>>
    BY <1>8, RefusesWaiting
  <2>2. QuietAt(c, r)
    BY <2>1 DEF TurnsInv, WaitInv
  <2> QED
    BY <2>1, <2>2, Primes DEF QuietAt, Delivers, Open
<1> QED
  BY <1>3, <1>6, <1>7, <1>8

(***************************************************************************)
(* The invariant, of every behaviour                                       *)
(***************************************************************************)

\* A goroutine that delivers a run is in its call of DispatchPending.
CallsInv == \A t \in Threads : disp[t].run # None => disp[t].on

LEMMA CallsNext ==
  ASSUME HoldersInv, CallsInv, [Next]_vars
  PROVE  CallsInv'
<1>1. CASE Passed
  BY <1>1 DEF CallsInv, Passed
<1>2. ASSUME NEW t \in Threads, NEW c \in Conns, NEW r \in Runs, DispatchClaim(t, c, r)
      PROVE  CallsInv'
  <2>1. disp'[t].on /\ \A u \in Threads \ {t} : disp'[u] = disp[u]
    BY <1>2 DEF DispatchClaim, HoldersInv, TypeOK, CallerTypeOK
  <2> QED
    BY <2>1 DEF CallsInv
<1> QED
  BY <1>1, <1>2, NoClaimPasses

LEMMA TurnsInit == Init => TurnsInv /\ CallsInv
<1> SUFFICES ASSUME Init PROVE TurnsInv /\ CallsInv
  OBVIOUS
<1>1. /\ assign = [c \in Conns |-> {}] /\ limbo = [c \in Conns |-> {}]
      /\ disp = [t \in Threads |-> NoCall]
      /\ chat = [r \in Runs |-> "absent"] /\ decider = [r \in Runs |-> "idle"]
  BY Zenon DEF Init
<1>2. (\A c \in Conns : ~Open(c)) /\ (\A r \in Runs : run[r] = "absent")
  BY DEF Init, RepoInit, Open
<1>3. GoneInv
  BY DEF Init, GoneInv, GoneAt, Off, At
<1>4. \A t \in Threads : disp[t].run = None /\ ~disp[t].on
  BY <1>1 DEF NoCall
<1>5. PlaceInv
  <2>1. \A c \in Conns : assign[c] = {} /\ limbo[c] = {}
    BY <1>1, Zenon
  <2> QED
    BY <1>4, <2>1, NoneIsNotARun DEF PlaceInv, Holds, Responsible, Delivers
<1>6. KnownInv /\ FreshInv /\ TurnInv
  BY <1>2 DEF KnownInv, KnownAt, FreshInv, FreshAt, TurnInv, TurnAt
<1>7. WaitInv
  BY <1>2 DEF WaitInv
<1>8. TellInv
  <2> SUFFICES ASSUME NEW r \in Runs
               PROVE  chat[r] # "telling" /\ decider[r] # "refused" /\ \A c \in Conns : ~Open(c)
    BY Zenon DEF TellInv
  <2>1. chat[r] = "absent" /\ decider[r] = "idle"
    BY <1>1, Zenon
  <2>2. chat[r] # "telling" /\ decider[r] # "refused"
    BY <2>1
  <2> QED
    BY <1>2, <2>2, Zenon
<1>9. CallsInv
  BY <1>4 DEF CallsInv
<1> QED
  BY <1>3, <1>5, <1>6, <1>7, <1>8, <1>9 DEF TurnsInv

\* A run is at one connection, asks the user once and completes last, and while it
\* waits for the user nothing is under way that asks again or completes: not in the
\* two queues, not in the reader and not in the process, whatever was sent before.
THEOREM UpdatesInTurn == Spec => [](TurnsInv /\ CallsInv)
<1>1. HoldersInv /\ TurnsInv /\ CallsInv /\ [Next]_vars => (TurnsInv /\ CallsInv)'
  <2> SUFFICES ASSUME HoldersInv, TurnsInv, CallsInv, [Next]_vars PROVE (TurnsInv /\ CallsInv)'
    OBVIOUS
  <2>1. GoneInv' /\ PlaceInv'
    BY GoneNext, PlaceNext DEF TurnsInv
  <2> QED
    BY <2>1, KnownNext, FreshNext, TurnNext, WaitNext, TellNext, CallsNext DEF TurnsInv
<1> QED
  BY <1>1, TurnsInit, HoldersAlways, PTL DEF Spec

(***************************************************************************)
(* The refinement                                                          *)
(***************************************************************************)
HolderFacts ==
  \A r \in Runs :
    /\ \A c \in Conns : HolderOf(r) = c <=> Holds(c, r)
    /\ HolderOf(r) = None <=> \A c \in Conns : ~Holds(c, r)
    /\ HolderOf(r) \in Conns \union {None}

LEMMA HolderIs == PlaceInv => HolderFacts
<1> SUFFICES ASSUME PlaceInv, NEW r \in Runs
             PROVE  /\ \A c \in Conns : HolderOf(r) = c <=> Holds(c, r)
                    /\ HolderOf(r) = None <=> \A c \in Conns : ~Holds(c, r)
                    /\ HolderOf(r) \in Conns \union {None}
  BY Zenon DEF HolderFacts
<1> DEFINE at == {c \in Conns : \/ r \in assign[c] \union limbo[c]
                                \/ \E t \in Threads : disp[t].run = r /\ disp[t].at = c}
<1>1. \A c \in Conns : c \in at <=> Holds(c, r)
  BY DEF Holds, Responsible, Delivers
<1>2. HolderOf(r) = IF at = {} THEN None ELSE CHOOSE c \in at : TRUE
  BY DEF HolderOf
<1>3. at \subseteq Conns
  OBVIOUS
<1> HIDE DEF at
<1>4. CASE at = {}
  BY <1>1, <1>2, <1>4, DispatchAssumption
<1>5. CASE at # {}
  <2>1. HolderOf(r) \in at
    BY <1>2, <1>5
  <2> QED
    BY <1>1, <1>3, <2>1, DispatchAssumption DEF PlaceInv
<1> QED
  BY <1>4, <1>5

LEMMA HolderWillBe == PlaceInv' => HolderFacts'
BY HolderIs, PTL

\* The runs but those in R are where they were, and those stay or are let go.
Keeps(R) ==
  \A c \in Conns, r \in Runs :
    /\ Holds(c, r)' => Holds(c, r)
    /\ Holds(c, r) /\ r \notin R => Holds(c, r)'

\* A step of the lifecycle that is not a crash of the orchestrator.
Moves(r) ==
  \/ Lifecycle!Submit(r) \/ Lifecycle!GiveBack(r) \/ Lifecycle!AskUser(r) \/ Lifecycle!UserDecides(r)
  \/ Lifecycle!Complete(r) \/ Lifecycle!Fail(r) \/ Lifecycle!Cancel(r) \/ Lifecycle!LetGo(r)
  \/ \E c \in Conns : Lifecycle!Claim(r, c)
Steps == UNCHANGED Lifecycle!lifecycleVars \/ \E r \in Runs : Moves(r)

holders == [r \in Runs |-> HolderOf(r)]

LEMMA KeptHolders ==
  ASSUME PlaceInv, PlaceInv', NEW R, Keeps(R)
  PROVE  \A r \in Runs : /\ r \notin R => holders'[r] = holders[r]
                         /\ holders'[r] \in {holders[r], None}
<1> SUFFICES ASSUME NEW r \in Runs
             PROVE  /\ r \notin R => HolderOf(r)' = HolderOf(r)
                    /\ HolderOf(r)' \in {HolderOf(r), None}
  BY DEF holders
<1>1. /\ \A c \in Conns : HolderOf(r) = c <=> Holds(c, r)
      /\ HolderOf(r) = None <=> \A c \in Conns : ~Holds(c, r)
      /\ HolderOf(r) \in Conns \union {None}
  BY HolderIs DEF HolderFacts
<1>2. /\ \A c \in Conns : HolderOf(r)' = c <=> Holds(c, r)'
      /\ HolderOf(r)' = None <=> \A c \in Conns : ~Holds(c, r)'
      /\ HolderOf(r)' \in Conns \union {None}
  BY HolderWillBe DEF HolderFacts
<1> QED
  BY <1>1, <1>2 DEF Keeps

\* A step that leaves every status alone, and lets go at most of a run that may be let go.
LEMMA LetsGo ==
  ASSUME HoldersInv, PlaceInv, PlaceInv', NEW r \in Runs, Keeps({r}), UNCHANGED run,
         Ended(r) \/ run[r] = "waiting_approval"
  PROVE  Steps
<1>1. \A s \in Runs : /\ s # r => holders'[s] = holders[s]
                      /\ holders'[s] \in {holders[s], None}
  BY KeptHolders
<1>2. holders \in [Runs -> Conns \union {None}] /\ holders' \in [Runs -> Conns \union {None}]
  BY HolderIs, HolderWillBe DEF holders, HolderFacts
<1>3. CASE holders'[r] = holders[r]
  <2>1. holders' = holders
    BY <1>1, <1>2, <1>3
  <2> QED
    BY <2>1 DEF Steps, Lifecycle!lifecycleVars, holders
<1>4. CASE holders'[r] # holders[r]
  <2>1. holders[r] # None /\ holders' = [holders EXCEPT ![r] = None]
    BY <1>1, <1>2, <1>4
  <2>2. Lifecycle!LetGo(r)
    BY <2>1 DEF Lifecycle!LetGo, Lifecycle!Held, Lifecycle!Over, Ended, Finished, holders
  <2> QED
    BY <2>2 DEF Steps, Moves
<1> QED
  BY <1>3, <1>4

\* A step that moves no run.
LEMMA HoldersKept ==
  ASSUME PlaceInv, PlaceInv', Keeps({})
  PROVE  holders' = holders
<1>1. \A s \in Runs : holders'[s] = holders[s]
  BY KeptHolders
<1>2. holders \in [Runs -> Conns \union {None}] /\ holders' \in [Runs -> Conns \union {None}]
  BY HolderIs, HolderWillBe DEF holders, HolderFacts
<1> QED
  BY <1>1, <1>2

LEMMA Stutters ==
  ASSUME PlaceInv, PlaceInv', Keeps({}), UNCHANGED run
  PROVE  Steps
BY HoldersKept DEF Steps, Lifecycle!lifecycleVars, holders

LEMMA KeepsAll == UNCHANGED <<assign, limbo, disp>> => Keeps({})
BY DEF Keeps, Holds, Responsible, Delivers

\* What every step may rely on.
Ready == HoldersInv /\ TurnsInv /\ CallsInv /\ PlaceInv'

\* The status of a run that its holder keeps.
Keeping(r, s) == Keeps({}) /\ run' = [run EXCEPT ![r] = s]

LEMMA Holding ==
  ASSUME PlaceInv, NEW c \in Conns, NEW r \in Runs, Holds(c, r)
  PROVE  Lifecycle!Held(r)
BY HolderIs, DispatchAssumption DEF HolderFacts, Lifecycle!Held

LEMMA KeptInPlace ==
  ASSUME PlaceInv, PlaceInv', Keeps({})
  PROVE  [r \in Runs |-> HolderOf(r)]' = [r \in Runs |-> HolderOf(r)]
BY HoldersKept DEF holders

\* A run is put back in the queue or not; the hands it was in let go of it.
LEMMA GivesUp ==
  ASSUME Ready, NEW c \in Conns, NEW r \in Runs, Holds(c, r), RequeueOrDrop(r), Keeps({r}),
         ~Ended(r) => \A d \in Conns : ~Holds(d, r)'
  PROVE  Steps
<1>1. HoldersInv /\ PlaceInv /\ PlaceInv'
  BY DEF Ready, TurnsInv
<1>2. CASE ~Requeueable(r)
  <2>1. UNCHANGED run
    BY <1>2 DEF RequeueOrDrop, RequeueClaimedJob, repoVars
  <2>2. Ended(r) \/ run[r] = "waiting_approval"
    <3>1. ~Ended(r) => Active(r)
      BY <1>1 DEF HoldersInv, HeldIsActive, Holds, Delivers
    <3>2. Active(r) => job[r] = "in_progress"
      BY <1>1 DEF HoldersInv, RunJobAgree
    <3> QED
      BY <1>2, <3>1, <3>2 DEF Active, Requeueable
  <2> QED
    BY <1>1, <2>1, <2>2, LetsGo
<1>3. CASE Requeueable(r)
  <2>1. run[r] = "running" /\ run' = [run EXCEPT ![r] = "queued"]
    BY <1>3 DEF RequeueOrDrop, RequeueClaimedJob, Requeueable
  <2>2. Lifecycle!Held(r)
    BY <1>1, Holding
  <2>3. ~Ended(r)
    BY <2>1 DEF Ended, Finished
  <2>4. holders'[r] = None
    BY <1>1, <2>3, HolderWillBe DEF HolderFacts, holders
  <2>5. \A s \in Runs : s # r => holders'[s] = holders[s]
    BY <1>1, KeptHolders
  <2>6. holders \in [Runs -> Conns \union {None}] /\ holders' \in [Runs -> Conns \union {None}]
    BY <1>1, HolderIs, HolderWillBe DEF holders, HolderFacts
  <2>7. holders' = [holders EXCEPT ![r] = None]
    BY <2>4, <2>5, <2>6
  <2>8. Lifecycle!GiveBack(r)
    BY <2>1, <2>2, <2>7 DEF Lifecycle!GiveBack, Lifecycle!Becomes, holders
  <2> QED
    BY <2>8 DEF Steps, Moves
<1> QED
  BY <1>2, <1>3

LEMMA DispatchMoves ==
  ASSUME Ready, NEW t \in Threads, DispatchStep(t)
  PROVE  Steps
<1>1. HoldersInv /\ PlaceInv /\ PlaceInv' /\ TypeOK
  BY DEF Ready, TurnsInv, HoldersInv
<1>2. ASSUME disp[t].run = None, disp'[t].run = None, \A u \in Threads \ {t} : disp'[u] = disp[u],
             UNCHANGED <<repoVars, assign, limbo>>
      PROVE  Steps
  <2>1. Keeps({})
    BY <1>2, NoneIsNotARun DEF Keeps, Holds, Responsible, Delivers
  <2> QED
    BY <1>1, <1>2, <2>1, Stutters DEF repoVars
<1>3. \A ok : Return(t, ok) => disp'[t].run = None /\ \A u \in Threads \ {t} : disp'[u] = disp[u]
  BY <1>1 DEF Return, NoCall, TypeOK, CallerTypeOK
<1>4. ASSUME NEW left, Continue(t, left)
      PROVE  disp'[t].run = None /\ \A u \in Threads \ {t} : disp'[u] = disp[u]
  <2> DEFINE call == [on |-> TRUE, todo |-> left, at |-> None, run |-> None]
  <2>1. CASE left = {}
    BY <1>3, <1>4, <2>1 DEF Continue
  <2>2. CASE left # {}
    <3>1. disp' = [disp EXCEPT ![t] = call] /\ call.run = None
      BY <1>4, <2>2 DEF Continue
    <3> HIDE DEF call
    <3> QED
      BY <1>1, <3>1 DEF TypeOK, CallerTypeOK
  <2> QED
    BY <2>1, <2>2
<1>5. CASE DispatchStart(t)
  <2>1. disp[t].run = None
    BY <1>5 DEF DispatchStart, Ready, CallsInv
  <2> QED
    BY <1>2, <1>4, <1>5, <2>1 DEF DispatchStart
<1>6. CASE DispatchError(t)
  BY <1>2, <1>3, <1>6 DEF DispatchError
<1>7. ASSUME NEW c \in Conns, DispatchPass(t, c) \/ DispatchNoJob(t, c) PROVE Steps
  BY <1>2, <1>3, <1>4, <1>7 DEF DispatchPass, DispatchNoJob, Visits
<1>8. ASSUME NEW c \in Conns, NEW r \in Runs, DispatchClaim(t, c, r) PROVE Steps
  <2>1. /\ run[r] = "queued" /\ run' = [run EXCEPT ![r] = "running"]
        /\ disp'[t].run = r /\ disp'[t].at = c /\ disp[t].run = None
        /\ \A u \in Threads \ {t} : disp'[u] = disp[u]
        /\ UNCHANGED <<assign, limbo>>
    BY <1>1, <1>8 DEF DispatchClaim, ClaimNextJob, Claimable, Visits, TypeOK, CallerTypeOK
  <2>2. \A d \in Conns : ~Holds(d, r)
    BY <1>1, <2>1, QueuedUnheld
  <2>3. Holds(c, r)'
    BY <2>1 DEF Holds, Delivers
  <2>4. \A d \in Conns, s \in Runs \ {r} : Holds(d, s)' <=> Holds(d, s)
    BY <2>1, NoneIsNotARun DEF Holds, Responsible, Delivers
  <2>5. HolderFacts /\ HolderFacts'
    BY <1>1, HolderIs, HolderWillBe
  <2>6. holders[r] = None /\ holders'[r] = c
    BY <2>2, <2>3, <2>5 DEF HolderFacts, holders
  <2>7. \A s \in Runs \ {r} : holders'[s] = holders[s]
    BY <2>4, <2>5 DEF HolderFacts, holders
  <2>8. holders \in [Runs -> Conns \union {None}] /\ holders' \in [Runs -> Conns \union {None}]
    BY <2>5 DEF holders, HolderFacts
  <2>9. holders' = [holders EXCEPT ![r] = c]
    BY <2>6, <2>7, <2>8
  <2>10. Lifecycle!Claim(r, c)
    BY <2>1, <2>6, <2>9 DEF Lifecycle!Claim, Lifecycle!Becomes, Lifecycle!Held, holders
  <2> QED
    BY <2>10 DEF Steps, Moves
<1>9. ASSUME NEW c \in Conns, NEW r \in Runs, DispatchDeliver(t, c, r) PROVE Steps
  <2>1. /\ disp[t].run = r /\ disp[t].at = c /\ disp'[t].run = None
        /\ \A u \in Threads \ {t} : disp'[u] = disp[u]
        /\ UNCHANGED limbo /\ \A d \in Conns : assign'[d] = IF d = c THEN assign[d] \union {r} ELSE assign[d]
        /\ UNCHANGED run
    BY <1>1, <1>9, DeliverTakes DEF DispatchDeliver, TypeOK, RuntimeTypeOK, repoVars
  <2>2. ASSUME NEW d \in Conns, NEW s \in Runs PROVE Holds(d, s)' <=> Holds(d, s)
    <3>1. Responsible(d, s)' <=> Responsible(d, s) \/ (d = c /\ s = r)
      BY <2>1 DEF Responsible
    <3>2. Delivers(d, s) <=> Delivers(d, s)' \/ (d = c /\ s = r)
      BY <2>1, NoneIsNotARun DEF Delivers
    <3> QED
      BY <3>1, <3>2 DEF Holds
  <2>3. Keeps({})
    BY <2>2 DEF Keeps
  <2> QED
    BY <1>1, <2>1, <2>3, Stutters
<1>10. ASSUME NEW c \in Conns, NEW r \in Runs, DispatchAbort(t, c, r) PROVE Steps
  <2>1. /\ disp[t].run = r /\ disp[t].at = c /\ disp'[t].run = None
        /\ \A u \in Threads \ {t} : disp'[u] = disp[u]
        /\ UNCHANGED <<assign, limbo>> /\ RequeueOrDrop(r)
    BY <1>3, <1>10 DEF DispatchAbort
  <2>2. Holds(c, r)
    BY <2>1 DEF Holds, Delivers
  <2>3. Keeps({r})
    BY <2>1, NoneIsNotARun DEF Keeps, Holds, Responsible, Delivers
  <2>4. ASSUME ~Ended(r), NEW d \in Conns PROVE ~Holds(d, r)'
    <3>1. ~Responsible(d, r) /\ \A u \in Threads : disp[u].run = r => u = t
      BY <1>1, <2>1, <2>4 DEF HoldersInv, OneOwner
    <3> QED
      BY <2>1, <3>1, NoneIsNotARun DEF Holds, Responsible, Delivers
  <2> QED
    BY <2>1, <2>2, <2>3, <2>4, GivesUp
<1> QED
  BY <1>5, <1>6, <1>7, <1>8, <1>9, <1>10 DEF DispatchStep

LEMMA HandlerMoves ==
  ASSUME Ready, NEW c \in Conns,
         \/ Connect(c) \/ ClientDrop(c) \/ HandlerLeaves(c) \/ SendFails(c)
         \/ Deregister(c) \/ Close(c) \/ HandlerReturns(c)
         \/ \E r \in Runs : RequeueLimbo(c, r)
  PROVE  Steps
<1>1. HoldersInv /\ PlaceInv /\ PlaceInv' /\ TypeOK /\ GoneAt(c)
  BY DEF Ready, TurnsInv, GoneInv, HoldersInv
<1>2. CASE UNCHANGED <<run, assign, limbo, disp>>
  BY <1>1, <1>2, KeepsAll, Stutters
<1>3. CASE Connect(c) \/ ClientDrop(c) \/ HandlerLeaves(c) \/ Deregister(c) \/ HandlerReturns(c)
  BY <1>2, <1>3 DEF Connect, ClientDrop, HandlerLeaves, Deregister, HandlerReturns, repoVars
<1>4. ASSUME UNCHANGED <<run, disp>>, \A d \in Conns \ {c} : assign'[d] = assign[d] /\ limbo'[d] = limbo[d],
             \A r \in Runs : Responsible(c, r)' <=> Responsible(c, r)
      PROVE  Steps
  <2>1. \A d \in Conns, r \in Runs : Responsible(d, r)' <=> Responsible(d, r)
    BY <1>4 DEF Responsible
  <2>2. \A d \in Conns, r \in Runs : Delivers(d, r)' <=> Delivers(d, r)
    BY <1>4 DEF Delivers
  <2>3. Keeps({})
    BY <2>1, <2>2 DEF Keeps, Holds
  <2> QED
    BY <1>1, <1>4, <2>3, Stutters
<1>5. CASE SendFails(c)
  <2>1. /\ UNCHANGED <<run, disp>> /\ cmds[c] # <<>> /\ conn[c] = "serving"
        /\ \A d \in Conns \ {c} : assign'[d] = assign[d] /\ limbo'[d] = limbo[d]
    BY <1>1, <1>5 DEF SendFails, repoVars, TypeOK, RuntimeTypeOK
  <2>2. CASE UNCHANGED <<assign, limbo>>
    BY <1>2, <2>1, <2>2
  <2>3. CASE Head(cmds[c]).kind = "assigned"
    <3> DEFINE r == Head(cmds[c]).run
    <3>1. r \in Runs /\ Head(cmds[c]) = Msg("assigned", r)
      BY <1>1, <2>1, <2>3, HeadTail, HeadOf DEF TypeOK, RuntimeTypeOK
    <3>2. limbo[c] = {}
      BY <1>1, <2>1 DEF GoneAt
    <3>3. assign'[c] = assign[c] \ {r} /\ limbo'[c] = {r}
      BY <1>1, <1>5, <2>3 DEF SendFails, TypeOK, RuntimeTypeOK
    <3> HIDE DEF r
    <3>4. r \in assign[c]
      <4>1. 1 \in DOMAIN cmds[c] /\ cmds[c][1] = Head(cmds[c])
        BY <1>1, <2>1 DEF TypeOK, RuntimeTypeOK
      <4>2. Cmd(c, "assigned", r)
        BY <3>1, <4>1 DEF Cmd, In
      <4> QED
        BY <2>1, <3>1, <4>2 DEF Ready, TurnsInv, FreshInv, FreshAt, Open
    <3>5. \A s \in Runs : Responsible(c, s)' <=> Responsible(c, s)
      BY <3>2, <3>3, <3>4 DEF Responsible
    <3> QED
      BY <1>4, <2>1, <3>5
  <2> QED
    BY <1>5, <2>2, <2>3 DEF SendFails
<1>6. CASE Close(c)
  <2>1. limbo[c] = {}
    BY <1>1, <1>6 DEF Close, GoneAt
  <2>2. /\ UNCHANGED <<run, disp>> /\ assign'[c] = {} /\ limbo'[c] = assign[c]
        /\ \A d \in Conns \ {c} : assign'[d] = assign[d] /\ limbo'[d] = limbo[d]
    BY <1>1, <1>6 DEF Close, repoVars, TypeOK, RuntimeTypeOK
  <2>3. \A s \in Runs : Responsible(c, s)' <=> Responsible(c, s)
    BY <2>1, <2>2 DEF Responsible
  <2> QED
    BY <1>4, <2>2, <2>3
<1>7. ASSUME NEW r \in Runs, RequeueLimbo(c, r) PROVE Steps
  <2>1. /\ r \in limbo[c] /\ RequeueOrDrop(r) /\ UNCHANGED <<assign, disp>>
        /\ \A d \in Conns : limbo'[d] = IF d = c THEN limbo[d] \ {r} ELSE limbo[d]
    BY <1>1, <1>7 DEF RequeueLimbo, TypeOK, RuntimeTypeOK
  <2>2. Holds(c, r)
    BY <2>1 DEF Holds, Responsible
  <2>3. \A d \in Conns, s \in Runs : Responsible(d, s)' <=> s \in assign[d] \/ (s \in limbo[d] /\ ~(d = c /\ s = r))
    BY <2>1 DEF Responsible
  <2>4. \A d \in Conns, s \in Runs : Delivers(d, s)' <=> Delivers(d, s)
    BY <2>1 DEF Delivers
  <2>5. Keeps({r})
    BY <2>3, <2>4 DEF Keeps, Holds, Responsible
  <2>6. ASSUME ~Ended(r), NEW d \in Conns PROVE ~Holds(d, r)'
    <3>1. /\ Responsible(d, r) => d = c /\ r \notin assign[c]
          /\ ~Delivers(d, r)
      BY <1>1, <2>1, <2>6 DEF HoldersInv, OneOwner, Responsible, Delivers
    <3> QED
      BY <2>3, <2>4, <3>1 DEF Holds, Responsible
  <2> QED
    BY <2>1, <2>2, <2>5, <2>6, GivesUp
<1> QED
  BY <1>3, <1>5, <1>6, <1>7

LEMMA ReaderMoves ==
  ASSUME Ready, NEW c \in Conns, ReaderStep(c)
  PROVE  Steps
<1>1. HoldersInv /\ PlaceInv /\ PlaceInv' /\ TypeOK
  BY DEF Ready, TurnsInv, HoldersInv
<1>2. UNCHANGED <<limbo, disp>>
  BY <1>1, ReaderShrinks
<1>3. CASE UNCHANGED <<run, assign>>
  BY <1>1, <1>2, <1>3, KeepsAll, Stutters
<1>4. ASSUME NEW r \in Runs, UNCHANGED assign
      PROVE  UNCHANGED [s \in Runs |-> HolderOf(s)]
  BY <1>1, <1>2, <1>4, KeepsAll, KeptInPlace
<1>5. \A r \in Runs : r \in assign[c] => Lifecycle!Held(r)
  BY <1>1, Holding DEF Holds, Responsible
<1>6. ASSUME NEW k \in UpdateKinds, NEW r \in Runs,
             ReaderRejects(c, Msg(k, r)) \/ ReaderNotes(c, Msg(k, r))
      PROVE  Steps
  BY <1>3, <1>6 DEF ReaderRejects, ReaderNotes, Take, repoVars
<1>7. ASSUME NEW k \in UpdateKinds, NEW r \in Runs, ReaderEnds(c, Msg(k, r)) PROVE Steps
  <2>1. /\ UNCHANGED assign /\ Acceptable(c, Msg(k, r)) /\ conn[c] = "serving" /\ up[c] # <<>>
        /\ Msg(k, r) = Head(up[c])
    BY <1>7 DEF ReaderEnds, Take, Reading
  <2>2. \/ k = "completed" /\ CompleteRunWithEvent(r)
        \/ k = "failed" /\ FailRunWithEvent(r)
        \/ k = "ack" /\ UNCHANGED repoVars
    BY <1>7 DEF ReaderEnds, Msg
  <2>3. r \in assign[c] /\ Lifecycle!Held(r)
    BY <1>5, <2>1 DEF Acceptable, Msg
  <2>4. CASE k = "completed" /\ CompleteRunWithEvent(r)
    <3>1. Upd(c, "completed", r)
      <4>1. 1 \in DOMAIN up[c] /\ up[c][1] = Head(up[c])
        BY <1>1, <2>1 DEF TypeOK, ProcTypeOK
      <4> QED
        BY <2>1, <2>4, <4>1 DEF Upd, In
    <3>2. run[r] # "waiting_approval"
      BY <2>1, <3>1 DEF Ready, TurnsInv, WaitInv, QuietAt, Open
    <3>3. run[r] = "running" /\ run' = [run EXCEPT ![r] = "completed"]
      BY <2>4, <3>2 DEF CompleteRunWithEvent, Active
    <3>4. Lifecycle!Complete(r)
      BY <1>4, <2>1, <2>3, <3>3 DEF Lifecycle!Complete, Lifecycle!Becomes
    <3> QED
      BY <3>4 DEF Steps, Moves
  <2>5. CASE k = "failed" /\ FailRunWithEvent(r)
    <3>1. Active(r)
      BY <1>1, <2>3, <2>5 DEF FailRunWithEvent, Cancellable, HoldersInv, HeldIsActive, Responsible, Ended, Finished, Active
    <3>2. run[r] \in {"running", "waiting_approval"} /\ run' = [run EXCEPT ![r] = "failed"]
      BY <2>5, <3>1 DEF FailRunWithEvent, Active
    <3>3. Lifecycle!Fail(r)
      BY <1>4, <2>1, <2>3, <3>2 DEF Lifecycle!Fail, Lifecycle!Becomes
    <3> QED
      BY <3>3 DEF Steps, Moves
  <2>6. CASE k = "ack" /\ UNCHANGED repoVars
    BY <1>3, <2>1, <2>6 DEF repoVars
  <2> QED
    BY <2>2, <2>4, <2>5, <2>6
<1>8. CASE ReaderAsks(c)
  <2> DEFINE r == reader[c].run
  <2>1. reader[c] = At("checked", r) /\ r \in Runs /\ ~ctxDone[c] /\ UNCHANGED assign
    BY <1>1, <1>8, IdleReader DEF ReaderAsks, AtRun
  <2>2. CASE UNCHANGED repoVars
    BY <1>3, <2>1, <2>2 DEF repoVars
  <2>3. CASE CreateApproval(r)
    <3>1. ~Ended(r)
      BY <2>3 DEF CreateApproval, Cancellable, Active, Ended, Finished
    <3>2. conn[c] = "serving" /\ r \in assign[c]
      BY <1>1, <1>8, <2>1, <3>1 DEF ReaderAsks, HoldersInv, ReaderHolds
    <3>3. Active(r)
      BY <1>1, <2>1, <3>1, <3>2 DEF HoldersInv, HeldIsActive, Responsible
    <3>4. run[r] # "waiting_approval"
      BY <2>1, <3>2 DEF Ready, TurnsInv, WaitInv, QuietAt, Open, Before
    <3>5. run[r] = "running" /\ run' = [run EXCEPT ![r] = "waiting_approval"]
      BY <2>3, <3>3, <3>4 DEF CreateApproval, Active
    <3>6. Lifecycle!AskUser(r)
      BY <1>4, <1>5, <2>1, <3>2, <3>5 DEF Lifecycle!AskUser, Lifecycle!Becomes
    <3> QED
      BY <2>1, <3>6 DEF Steps, Moves
  <2> QED
    BY <1>8, <2>2, <2>3 DEF ReaderAsks
<1>9. CASE ReaderAnswers(c) \/ ReaderQuits(c)
  BY <1>3, <1>9 DEF ReaderAnswers, ReaderQuits, repoVars
<1>10. CASE ReaderReleases(c)
  <2> DEFINE r == reader[c].run
  <2>1. reader[c].pc = "release" /\ r \in Runs /\ Ended(r) /\ UNCHANGED run
    BY <1>1, <1>10, IdleReader DEF ReaderReleases, AtRun, HoldersInv, ReaderHolds, repoVars
  <2>2. \A d \in Conns : assign'[d] = IF d = c THEN assign[d] \ {r} ELSE assign[d]
    BY <1>1, <1>10 DEF ReaderReleases, TypeOK, RuntimeTypeOK
  <2> HIDE DEF r
  <2>3. \A d \in Conns, s \in Runs : Delivers(d, s)' <=> Delivers(d, s)
    BY <1>2 DEF Delivers
  <2>4. \A d \in Conns, s \in Runs :
          /\ Responsible(d, s)' => Responsible(d, s)
          /\ Responsible(d, s) /\ s # r => Responsible(d, s)'
    BY <1>2, <2>2 DEF Responsible
  <2>5. Keeps({r})
    BY <2>3, <2>4 DEF Keeps, Holds
  <2> QED
    BY <1>1, <2>1, <2>5, LetsGo
<1> QED
  BY <1>6, <1>7, <1>8, <1>9, <1>10 DEF ReaderStep, UpdateKinds

LEMMA ProcMovesOn ==
  ASSUME Ready, NEW c \in Conns, SendCommand(c) \/ \E r \in Runs : ProcStreams(c, r) \/ ProcAdvances(c, r)
  PROVE  Steps
<1>1. PlaceInv /\ PlaceInv'
  BY DEF Ready, TurnsInv
<1>2. UNCHANGED <<assign, limbo, disp>>
  BY DEF SendCommand, ProcStreams, ProcAdvances, ProcCallsTool, ProcApproved, ProcRefused, ProcFinishes,
         ProcMoves, runtimeVars
<1>3. UNCHANGED run
  BY DEF SendCommand, ProcStreams, ProcAdvances, ProcCallsTool, ProcApproved, ProcRefused, ProcFinishes,
         ConsumeApproval, repoVars
<1> QED
  BY <1>1, <1>2, <1>3, KeepsAll, Stutters

LEMMA RunMoves ==
  ASSUME Ready, NEW r \in Runs, RunStep(r)
  PROVE  Steps
<1>1. HoldersInv /\ PlaceInv /\ PlaceInv' /\ TypeOK
  BY DEF Ready, TurnsInv, HoldersInv
<1>2. ASSUME UNCHANGED <<assign, limbo, disp>> PROVE UNCHANGED [s \in Runs |-> HolderOf(s)]
  BY <1>1, <1>2, KeepsAll, KeptInPlace
<1>3. CASE UNCHANGED <<run, assign, limbo, disp>>
  BY <1>1, <1>3, KeepsAll, Stutters
<1>4. CASE SendMessage(r)
  <2>1. /\ run[r] = "absent" /\ run' = [run EXCEPT ![r] = "queued"]
        /\ UNCHANGED <<assign, limbo, disp>>
    BY <1>4 DEF SendMessage, EnqueueUserMessage, ChatGoes
  <2>2. Lifecycle!Submit(r)
    BY <1>2, <2>1 DEF Lifecycle!Submit, Lifecycle!Becomes
  <2> QED
    BY <2>2 DEF Steps, Moves
<1>5. CASE CancelRun(r)
  <2>1. UNCHANGED <<assign, limbo, disp>>
    BY <1>5 DEF CancelRun, ChatGoes
  <2>2. CASE UNCHANGED repoVars
    BY <1>3, <2>1, <2>2 DEF repoVars
  <2>3. CASE CancelRunWithEvent(r)
    <3>1. run[r] \in {"queued", "running", "waiting_approval"} /\ run' = [run EXCEPT ![r] = "cancelled"]
      BY <2>3 DEF CancelRunWithEvent, Cancellable, Active
    <3>2. Lifecycle!Cancel(r)
      BY <1>2, <2>1, <3>1 DEF Lifecycle!Cancel, Lifecycle!Becomes
    <3> QED
      BY <3>2 DEF Steps, Moves
  <2> QED
    BY <1>5, <2>2, <2>3 DEF CancelRun
<1>6. CASE ChatEnds(r) \/ ChatTells(r)
  BY <1>3, <1>6 DEF ChatEnds, ChatTells, ChatGoes, repoVars
<1>7. CASE Decide(r)
  <2>1. UNCHANGED <<assign, limbo, disp>>
    BY <1>7 DEF Decide, DeciderGoes
  <2>2. /\ run[r] = "waiting_approval"
        /\ run' = [run EXCEPT ![r] = "running"] \/ run' = [run EXCEPT ![r] = "failed"]
    BY <1>7 DEF Decide, ApproveApproval, DenyApproval, ExpireApproval, RefuseApproval, Undecided
  <2>3. Lifecycle!UserDecides(r)
    BY <1>2, <2>1, <2>2 DEF Lifecycle!UserDecides, Lifecycle!Becomes
  <2> QED
    BY <2>3 DEF Steps, Moves
<1>8. CASE DeciderNotifies(r)
  <2>1. UNCHANGED <<run, limbo, disp>>
    BY <1>8 DEF DeciderNotifies, DeciderGoes, repoVars
  <2>2. CASE UNCHANGED assign
    BY <1>3, <2>1, <2>2
  <2>3. CASE /\ decider[r] = "refused"
             /\ assign' = [c \in Conns |-> IF c \in Registered THEN assign[c] \ {r} ELSE assign[c]]
    <3>1. Ended(r)
      BY <1>1, <2>3 DEF HoldersInv, RefusedEnded
    <3>2. \A d \in Conns, s \in Runs : Delivers(d, s)' <=> Delivers(d, s)
      BY <2>1 DEF Delivers
    <3>3. \A d \in Conns, s \in Runs :
            /\ Responsible(d, s)' => Responsible(d, s)
            /\ Responsible(d, s) /\ s # r => Responsible(d, s)'
      BY <2>1, <2>3 DEF Responsible
    <3>4. Keeps({r})
      BY <3>2, <3>3 DEF Keeps, Holds
    <3> QED
      BY <1>1, <2>1, <3>1, <3>4, LetsGo
  <2> QED
    BY <1>8, <2>2, <2>3 DEF DeciderNotifies
<1> QED
  BY <1>4, <1>5, <1>6, <1>7, <1>8 DEF RunStep, ChatHangsUp, ChatStep, ChatCancels

\* Every step but a restart of the orchestrator.
LEMMA StepsFollow ==
  ASSUME Ready, [Next]_vars
  PROVE  Restart \/ Steps
<1>1. CASE UNCHANGED vars
  <2>1. UNCHANGED <<run, assign, limbo, disp>>
    BY <1>1 DEF vars, repoVars, runtimeVars
  <2> QED
    BY <2>1, KeepsAll, Stutters DEF Ready, TurnsInv
<1> QED
  BY <1>1, DispatchMoves, HandlerMoves, ReaderMoves, ProcMovesOn, RunMoves DEF Next, ConnStep, Teardown

\* Every interleaving of the goroutines, the worker processes and the users is one of
\* the lifecycle's: a run is claimed by one session at a time, it completes, asks the
\* user and goes back to the queue only in its holder's hands and only while it is
\* running, and its holder lets go of it only when it has ended or waits.
THEOREM FollowsLifecycle == Spec => ImplementsLifecycle
<1>1. Init => Lifecycle!LifecycleInit
  <2> SUFFICES ASSUME Init PROVE Lifecycle!LifecycleInit
    OBVIOUS
  <2>1. run = [r \in Runs |-> "absent"]
    BY DEF Init, RepoInit
  <2>2. PlaceInv /\ \A c \in Conns, r \in Runs : ~Holds(c, r)
    <3>1. assign = [c \in Conns |-> {}] /\ limbo = [c \in Conns |-> {}] /\ disp = [t \in Threads |-> NoCall]
      BY Zenon DEF Init
    <3>2. \A c \in Conns : assign[c] = {} /\ limbo[c] = {}
      BY <3>1, Zenon
    <3>3. \A t \in Threads : disp[t].run = None
      BY <3>1 DEF NoCall
    <3> QED
      BY <3>2, <3>3, NoneIsNotARun, TurnsInit DEF Holds, Responsible, Delivers, TurnsInv
  <2>3. \A r \in Runs : HolderOf(r) = None
    BY <2>2, HolderIs, Zenon DEF HolderFacts
  <2> QED
    BY <2>1, <2>3 DEF Lifecycle!LifecycleInit
<1>2. ASSUME Ready, [Next]_vars PROVE [Lifecycle!LifecycleNext]_(Lifecycle!lifecycleVars)
  <2>1. CASE Steps
    BY <2>1 DEF Steps, Moves, Lifecycle!LifecycleNext
  <2>2. CASE Restart
    <3>1. \A t \in Threads : disp'[t].run = None
      <4>1. disp' = [t \in Threads |-> NoCall]
        BY <2>2, Zenon DEF Restart
      <4> QED
        BY <4>1 DEF NoCall
    <3>2. \A c \in Conns : assign'[c] = {} /\ limbo'[c] = {}
      BY <2>2, Zenon DEF Restart
    <3>3. \A c \in Conns, r \in Runs : ~Holds(c, r)'
      BY <3>1, <3>2, NoneIsNotARun DEF Holds, Responsible, Delivers
    <3>4. \A r \in Runs : HolderOf(r)' = None
      BY <1>2, <3>3, HolderWillBe DEF HolderFacts, Ready
    <3>5. UNCHANGED run
      BY <2>2 DEF Restart, repoVars
    <3>6. Lifecycle!Crash
      BY <3>4, <3>5 DEF Lifecycle!Crash
    <3> QED
      BY <3>6 DEF Lifecycle!LifecycleNext
  <2> QED
    BY <1>2, <2>1, <2>2, StepsFollow
<1>3. HoldersInv /\ TurnsInv /\ CallsInv /\ (TurnsInv /\ CallsInv)' => Ready
  BY DEF Ready, TurnsInv
<1> QED
  BY <1>1, <1>2, <1>3, HoldersAlways, UpdatesInTurn, PTL
  DEF Spec, ImplementsLifecycle, Lifecycle!LifecycleSpec

\* Nobody lets go of a run that is running, unless the orchestrator is restarted: its
\* connection is torn down, or its delivery given up, by putting it back in the queue.
THEOREM RunsAreKept ==
  ASSUME "restart" \notin Faults
  PROVE  Spec => NeverDropped
<1>1. ASSUME Ready, [Next]_vars, NEW r \in Runs, Holders(r) # {}, run'[r] = "running"
      PROVE  Holders(r)' # {}
  <2>1. Steps
    BY <1>1, StepsFollow DEF Restart, Fault
  <2>2. PICK c \in Conns : Holds(c, r)
    BY <1>1, NoneIsNotARun DEF Holders, Holds, Responsible, Delivers, Ready, HoldersInv, DeliversToOpen
  <2>3. holders[r] # None /\ holders[r] = HolderOf(r) /\ holders'[r] = HolderOf(r)'
    BY <1>1, <2>2, Holding DEF Ready, TurnsInv, Lifecycle!Held, holders
  <2>4. holders'[r] # None
    <3>1. CASE UNCHANGED Lifecycle!lifecycleVars
      BY <2>3, <3>1 DEF Lifecycle!lifecycleVars, holders
    <3>2. ASSUME NEW s \in Runs, Moves(s) PROVE holders'[r] # None
      <4>1. holders \in [Runs -> Conns \union {None}] /\ run \in [Runs -> RunStatus]
        BY <1>1, HolderIs DEF holders, HolderFacts, Ready, TurnsInv, HoldersInv, TypeOK, RepoTypeOK
      <4>2. CASE UNCHANGED [q \in Runs |-> HolderOf(q)]
        BY <2>3, <4>2 DEF holders
      <4>3. ASSUME NEW d \in Conns, Lifecycle!Claim(s, d) PROVE holders'[r] # None
        BY <2>3, <4>1, <4>3, DispatchAssumption DEF Lifecycle!Claim, holders
      <4>4. CASE Lifecycle!GiveBack(s)
        BY <1>1, <2>3, <4>1, <4>4 DEF Lifecycle!GiveBack, Lifecycle!Becomes, holders
      <4>5. CASE Lifecycle!LetGo(s)
        BY <1>1, <2>3, <4>1, <4>5 DEF Lifecycle!LetGo, Lifecycle!Over, holders
      <4> QED
        BY <3>2, <4>2, <4>3, <4>4, <4>5
        DEF Moves, Lifecycle!Submit, Lifecycle!AskUser, Lifecycle!UserDecides, Lifecycle!Complete, Lifecycle!Fail,
            Lifecycle!Cancel
    <3> QED
      BY <2>1, <3>1, <3>2 DEF Steps
  <2>5. PICK d \in Conns : Holds(d, r)'
    BY <1>1, <2>3, <2>4, HolderWillBe DEF HolderFacts, Ready
  <2> QED
    BY <2>5 DEF Holders, Holds, Responsible, Delivers
<1>2. Ready /\ [Next]_vars => [\A r \in Runs : Holders(r) # {} /\ run'[r] = "running" => Holders(r)' # {}]_vars
  BY <1>1
<1>3. HoldersInv /\ TurnsInv /\ CallsInv /\ (TurnsInv /\ CallsInv)' => Ready
  BY DEF Ready, TurnsInv
<1> QED
  BY <1>2, <1>3, HoldersAlways, UpdatesInTurn, PTL DEF Spec, NeverDropped
=============================================================================
