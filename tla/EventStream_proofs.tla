------------------------ MODULE EventStream_proofs ------------------------
(***************************************************************************)
(* Proofs about EventStream: type correctness, the order in which a        *)
(* subscriber gets its events, the completeness of a SendMessage stream    *)
(* and of a listed page, and the only ways in which a subscriber misses an *)
(* event: for any number of writers and readers and any limits.            *)
(***************************************************************************)
EXTENDS EventStream, Integers, TLAPS

\* A page ends between its start and the end of the log.
LEMMA PageBounds ==
  ASSUME NEW after \in Seqs, NEW limit \in Nat, Len(log) \in Nat, Len(log) <= MaxSeq
  PROVE  /\ PageEnd(after, limit) \in Seqs
         /\ after <= PageEnd(after, limit)
         /\ PageEnd(after, limit) > after => PageEnd(after, limit) <= Len(log)
         /\ PageEnd(after, limit) >= Len(log) \/ PageEnd(after, limit) = after + limit
BY EventAssumption DEF PageEnd, Seqs, EventAssumption

\* The log only grows, and what is in it stays.
LEMMA Appended ==
  ASSUME NEW entry \in Entry, log \in Seq(Entry), log' = Append(log, entry)
  PROVE  /\ log' \in Seq(Entry)
         /\ Len(log') = Len(log) + 1
         /\ \A n \in 1 .. Len(log) : log'[n] = log[n]
         /\ log'[Len(log) + 1] = entry
OBVIOUS

LEMMA HeadTail ==
  ASSUME NEW S, NEW q \in Seq(S), q # <<>>
  PROVE  Head(q) \in S /\ Tail(q) \in Seq(S)
OBVIOUS

\* The two ways of committing.
LEMMA CommitGrows ==
  ASSUME TypeOK, NEW p \in Publishers, NEW entry \in Entry, Commit(p, entry)
  PROVE  /\ log' \in Seq(Entry)
         /\ Len(log') = Len(log) + 1 /\ Len(log') <= MaxSeq
         /\ \A n \in 1 .. Len(log) : log'[n] = log[n]
         /\ log'[Len(log) + 1] = entry
         /\ pending' \in [Publishers -> SUBSET (1 .. MaxSeq)]
<1>1. /\ log \in Seq(Entry) /\ Len(log) \in Nat /\ Len(log) <= MaxSeq
      /\ pending \in [Publishers -> SUBSET (1 .. MaxSeq)]
      /\ Len(log) < MaxSeq
      /\ log' = Append(log, entry)
      /\ pending' = [pending EXCEPT ![p] = @ \union {Len(log) + 1}]
  BY DEF TypeOK, Commit
<1>2. /\ log' \in Seq(Entry) /\ Len(log') = Len(log) + 1
      /\ \A n \in 1 .. Len(log) : log'[n] = log[n]
      /\ log'[Len(log) + 1] = entry
  BY <1>1, Appended
<1>3. Len(log) + 1 \in 1 .. MaxSeq
  BY <1>1, EventAssumption DEF EventAssumption
<1> QED BY <1>1, <1>2, <1>3

LEMMA CompletionGrows ==
  ASSUME TypeOK, NEW p \in Publishers, NEW c \in Chats, CommitCompletion(p, c)
  PROVE  /\ log' \in Seq(Entry)
         /\ Len(log') = Len(log) + 2 /\ Len(log') <= MaxSeq
         /\ \A n \in 1 .. Len(log) : log'[n] = log[n]
         /\ log'[Len(log) + 1].run = c /\ log'[Len(log) + 2].run = c
         /\ pending' \in [Publishers -> SUBSET (1 .. MaxSeq)]
<1> DEFINE a == [run |-> c, end |-> FALSE]
           b == [run |-> c, end |-> TRUE]
<1>1. /\ log \in Seq(Entry) /\ Len(log) \in Nat
      /\ pending \in [Publishers -> SUBSET (1 .. MaxSeq)]
      /\ Len(log) + 1 < MaxSeq
      /\ log' = Append(Append(log, a), b)
      /\ pending' = [pending EXCEPT ![p] = {Len(log) + 1, Len(log) + 2}]
  BY DEF TypeOK, CommitCompletion
<1>2. a \in Entry /\ b \in Entry /\ a.run = c /\ b.run = c
  BY DEF Entry
<1> HIDE DEF a, b
<1>3. /\ log' \in Seq(Entry) /\ Len(log') = Len(log) + 2
      /\ \A n \in 1 .. Len(log) : log'[n] = log[n]
      /\ log'[Len(log) + 1] = a /\ log'[Len(log) + 2] = b
  BY <1>1, <1>2
<1>4. {Len(log) + 1, Len(log) + 2} \subseteq 1 .. MaxSeq
  BY <1>1, EventAssumption DEF EventAssumption
<1> QED BY <1>1, <1>2, <1>3, <1>4

(***************************************************************************)
(* The inductive invariant                                                 *)
(***************************************************************************)

\* What a subscriber has been sent is not beyond its position.
SubInv ==
  \A s \in Subscribers :
    /\ \A k \in got[s] : k <= lastSent[s]
    /\ sub[s] = "off" => got[s] = {}

\* A SendMessage stream is at an event of the log, and its page is in the log; a
\* run has no event before its queued one.
ChatInv ==
  \A c \in Chats :
    /\ chat[c] # "off" => chatLast[c] \in 1 .. Len(log)
    /\ chat[c] = "batch" => chatLast[c] < chatUpto[c] /\ chatUpto[c] <= Len(log)
    /\ chat[c] = "off" => \A n \in 1 .. Len(log) : log[n].run # c

\* The latest sequence a ListEvents call has read is in the log.
ListInv == \A l \in Listers : list[l].latest <= Len(log)

StreamInv == TypeOK /\ SubInv /\ ChatInv /\ ListInv /\ ChatComplete /\ PageComplete

LEMMA StreamInit == Init => StreamInv
<1> SUFFICES ASSUME Init PROVE StreamInv
  OBVIOUS
<1>1. TypeOK
  BY EventAssumption
  DEF Init, TypeOK, EventAssumption, Seqs, SubState, ChatState, ListState
<1>2. SubInv /\ ChatInv /\ ListInv /\ ChatComplete /\ PageComplete
  BY DEF Init, SubInv, ChatInv, ListInv, ChatComplete, PageComplete
<1> QED BY <1>1, <1>2 DEF StreamInv

\* What is said of chats and lists survives a growing log, as long as a run has
\* its first event from its own handler; a handler may leave meanwhile.
LEMMA LogGrowth ==
  ASSUME StreamInv,
         log' \in Seq(Entry), Len(log') \in Nat, Len(log) <= Len(log'),
         \A n \in 1 .. Len(log) : log'[n] = log[n],
         \A n \in Len(log) + 1 .. Len(log') : \A c \in Chats :
           log'[n].run = c => chat'[c] # "off",
         \A c \in Chats : chat'[c] = chat[c] \/ (chat'[c] = "gone" /\ chat[c] # "off"),
         UNCHANGED <<chatLast, chatUpto, chatGot, list>>
  PROVE  ChatInv' /\ ListInv' /\ ChatComplete' /\ PageComplete'
<1>1. Len(log) \in Nat /\ chatLast \in [Chats -> Seqs] /\ chatUpto \in [Chats -> Seqs]
  BY DEF StreamInv, TypeOK
<1>2. ListInv' /\ PageComplete'
  <2>1. \A l \in Listers : list[l].latest \in Nat
    BY DEF StreamInv, TypeOK, ListState, Seqs
  <2> QED BY <1>1, <2>1 DEF StreamInv, ListInv, PageComplete
<1>3. ChatInv'
  <2> SUFFICES ASSUME NEW c \in Chats
               PROVE  /\ chat'[c] # "off" => chatLast[c] \in 1 .. Len(log')
                      /\ chat'[c] = "batch" => chatLast[c] < chatUpto[c] /\ chatUpto[c] <= Len(log')
                      /\ chat'[c] = "off" => \A n \in 1 .. Len(log') : log'[n].run # c
    BY DEF ChatInv
  <2>1. chatLast[c] \in Nat /\ chatUpto[c] \in Nat
    BY <1>1 DEF Seqs
  <2>2. /\ chat[c] # "off" => chatLast[c] \in 1 .. Len(log)
        /\ chat[c] = "batch" => chatLast[c] < chatUpto[c] /\ chatUpto[c] <= Len(log)
        /\ chat[c] = "off" => \A n \in 1 .. Len(log) : log[n].run # c
    BY DEF StreamInv, ChatInv
  <2>3. ASSUME chat'[c] = "off", NEW n \in 1 .. Len(log')
        PROVE  log'[n].run # c
    <3>1. CASE n \in 1 .. Len(log)
      BY <2>2, <2>3, <3>1
    <3>2. CASE n \in Len(log) + 1 .. Len(log')
      BY <2>3, <3>2
    <3> QED BY <1>1, <3>1, <3>2
  <2> QED BY <1>1, <2>1, <2>2, <2>3
<1>4. ChatComplete'
  <2> SUFFICES ASSUME NEW c \in Chats, chat'[c] # "off"
               PROVE  /\ chatGot[c] = {n \in 1 .. chatLast[c] : log'[n].run = c}
                      /\ \A n \in chatGot[c] : log'[n].end => n = chatLast[c] /\ chat'[c] \in {"done", "gone"}
                      /\ chat'[c] = "done" => log'[chatLast[c]] = [run |-> c, end |-> TRUE]
    BY DEF ChatComplete, Own
  <2>1. chat[c] # "off" /\ chatLast[c] \in 1 .. Len(log)
    BY DEF StreamInv, ChatInv
  <2>2. /\ chatGot[c] = {n \in 1 .. chatLast[c] : log[n].run = c}
        /\ \A n \in chatGot[c] : log[n].end => n = chatLast[c] /\ chat[c] \in {"done", "gone"}
        /\ chat[c] = "done" => log[chatLast[c]] = [run |-> c, end |-> TRUE]
    BY <2>1 DEF StreamInv, ChatComplete, Own
  <2>3. \A n \in 1 .. chatLast[c] : log'[n] = log[n]
    BY <1>1, <2>1
  <2>4. chatGot[c] \subseteq 1 .. chatLast[c]
    BY <2>2
  <2>5. chatGot[c] = {n \in 1 .. chatLast[c] : log'[n].run = c}
    BY <2>2, <2>3
  <2>6. log'[chatLast[c]] = log[chatLast[c]]
    BY <2>1
  <2> QED BY <2>2, <2>3, <2>4, <2>5, <2>6
<1> QED BY <1>2, <1>3, <1>4

\* Publishing and the subscribers' handlers leave log, chats and lists alone.
LEMMA OthersKept ==
  ASSUME StreamInv, UNCHANGED <<log, chatVars, list>>
  PROVE  /\ ChatInv' /\ ListInv' /\ ChatComplete' /\ PageComplete'
         /\ log' \in Seq(Entry) /\ Len(log') <= MaxSeq
         /\ chat' \in [Chats -> ChatState] /\ chatLast' \in [Chats -> Seqs]
         /\ chatUpto' \in [Chats -> Seqs] /\ chatGot' \in [Chats -> SUBSET (1 .. MaxSeq)]
         /\ list' \in [Listers -> ListState]
BY DEF StreamInv, TypeOK, chatVars, ChatInv, ListInv, ChatComplete, PageComplete, Own

\* A step of the bus or of a subscriber keeps the invariant.
LEMMA SubscriberSteps ==
  ASSUME StreamInv, NEW s \in Subscribers,
         Subscribe(s) \/ Resubscribe(s) \/ SubscriberStep(s) \/ Disconnect(s)
  PROVE  StreamInv'
<1>1. /\ pending \in [Publishers -> SUBSET (1 .. MaxSeq)]
      /\ sub \in [Subscribers -> SubState] /\ from \in [Subscribers -> Seqs]
      /\ lastSent \in [Subscribers -> Seqs] /\ upto \in [Subscribers -> Seqs]
      /\ chan \in [Subscribers -> Seq(1 .. MaxSeq)]
      /\ got \in [Subscribers -> SUBSET (1 .. MaxSeq)]
      /\ Len(log) \in Nat /\ Len(log) <= MaxSeq
  BY DEF StreamInv, TypeOK
<1>2. \A t \in Subscribers :
        /\ \A k \in got[t] : k <= lastSent[t]
        /\ sub[t] = "off" => got[t] = {}
  BY DEF StreamInv, SubInv
<1>3. UNCHANGED <<log, pending, chatVars, list>>
  BY DEF Subscribe, Resubscribe, SubscriberStep, Disconnect, Replays, SendReplayed,
         Register, CatchUp, GoLive, Receive, chatVars
<1>4. \A after \in Seqs : PageEnd(after, ReplayLimit) \in Seqs
  BY <1>1, PageBounds, EventAssumption DEF EventAssumption
<1> DEFINE SubTypes ==
             /\ sub' \in [Subscribers -> SubState] /\ from' \in [Subscribers -> Seqs]
             /\ lastSent' \in [Subscribers -> Seqs] /\ upto' \in [Subscribers -> Seqs]
             /\ chan' \in [Subscribers -> Seq(1 .. MaxSeq)]
             /\ got' \in [Subscribers -> SUBSET (1 .. MaxSeq)]
<1>5. SubTypes /\ SubInv'
  <2>1. CASE Subscribe(s)
    <3>1. PICK after \in Seqs :
            /\ from' = [from EXCEPT ![s] = after]
            /\ lastSent' = [lastSent EXCEPT ![s] = after]
            /\ upto' = [upto EXCEPT ![s] = PageEnd(after, ReplayLimit)]
      BY <2>1 DEF Subscribe, Replays
    <3>2. sub[s] = "off" /\ sub' = [sub EXCEPT ![s] = "replaying"] /\ UNCHANGED <<chan, got>>
      BY <2>1 DEF Subscribe, Replays
    <3> QED BY <1>1, <1>2, <1>4, <3>1, <3>2 DEF SubInv, SubState
  <2>2. CASE Resubscribe(s)
    BY <1>1, <1>2, <1>4, <2>2 DEF Resubscribe, Replays, SubInv, SubState
  <2>3. CASE SendReplayed(s)
    <3>1. lastSent[s] + 1 \in 1 .. MaxSeq
      BY <1>1, <2>3, EventAssumption DEF SendReplayed, Seqs, EventAssumption
    <3>2. /\ got' = [got EXCEPT ![s] = @ \union {lastSent[s] + 1}]
          /\ lastSent' = [lastSent EXCEPT ![s] = lastSent[s] + 1]
          /\ sub[s] # "off"
          /\ UNCHANGED <<sub, from, upto, chan>>
      BY <2>3 DEF SendReplayed, Sends
    <3>3. lastSent[s] \in Nat /\ \A k \in got[s] : k \in Nat
      BY <1>1 DEF Seqs
    <3> QED BY <1>1, <1>2, <3>1, <3>2, <3>3 DEF SubInv, Seqs
  <2>4. CASE Register(s)
    BY <1>1, <1>2, <2>4 DEF Register, SubInv, SubState
  <2>5. CASE CatchUp(s)
    BY <1>1, <1>2, <1>4, <2>5 DEF CatchUp, Replays, SubInv, SubState
  <2>6. CASE GoLive(s)
    BY <1>1, <1>2, <2>6 DEF GoLive, SubInv, SubState
  <2>7. CASE Receive(s)
    <3>1. /\ sub[s] = "live" /\ chan[s] # <<>>
          /\ chan' = [chan EXCEPT ![s] = Tail(chan[s])]
          /\ UNCHANGED <<sub, from, upto>>
      BY <2>7 DEF Receive
    <3>2. Head(chan[s]) \in 1 .. MaxSeq /\ Tail(chan[s]) \in Seq(1 .. MaxSeq)
      BY <1>1, <3>1, HeadTail
    <3>3. CASE Head(chan[s]) > lastSent[s] /\ Sends(s, Head(chan[s]))
      <4>1. /\ got' = [got EXCEPT ![s] = @ \union {Head(chan[s])}]
            /\ lastSent' = [lastSent EXCEPT ![s] = Head(chan[s])]
        BY <3>3 DEF Sends
      <4>2. \A k \in got[s] : k \in Nat /\ k <= Head(chan[s])
        BY <1>1, <1>2, <3>2, <3>3 DEF Seqs
      <4> QED BY <1>1, <1>2, <3>1, <3>2, <4>1, <4>2 DEF SubInv, Seqs
    <3>4. CASE UNCHANGED <<got, lastSent>>
      BY <1>1, <1>2, <3>1, <3>2, <3>4 DEF SubInv
    <3> QED BY <2>7, <3>3, <3>4 DEF Receive
  <2>8. CASE Disconnect(s)
    <3>1. PICK n \in got[s] \union {from[s]} :
            /\ got' = [got EXCEPT ![s] = {k \in @ : k <= n}]
            /\ lastSent' = [lastSent EXCEPT ![s] = n]
      BY <2>8 DEF Disconnect
    <3>2. n \in Seqs /\ {k \in got[s] : k <= n} \subseteq 1 .. MaxSeq
      BY <1>1 DEF Seqs
    <3>3. /\ sub' = [sub EXCEPT ![s] = "gone"] /\ chan' = [chan EXCEPT ![s] = <<>>]
          /\ UNCHANGED <<from, upto>>
      BY <2>8 DEF Disconnect
    <3> QED BY <1>1, <1>2, <3>1, <3>2, <3>3 DEF SubInv, SubState
  <2> QED BY <2>1, <2>2, <2>3, <2>4, <2>5, <2>6, <2>7, <2>8 DEF SubscriberStep
<1>6. ChatInv' /\ ListInv' /\ ChatComplete' /\ PageComplete'
  BY <1>3, OthersKept
<1>7. TypeOK'
  BY <1>1, <1>3, <1>5, OthersKept DEF TypeOK
<1> QED BY <1>5, <1>6, <1>7 DEF StreamInv

LEMMA PublishStep ==
  ASSUME StreamInv, NEW p \in Publishers, Publish(p)
  PROVE  StreamInv'
<1>1. /\ pending \in [Publishers -> SUBSET (1 .. MaxSeq)]
      /\ chan \in [Subscribers -> Seq(1 .. MaxSeq)]
  BY DEF StreamInv, TypeOK
<1>2. PICK n \in pending[p] :
        /\ pending' = [pending EXCEPT ![p] = @ \ {n}]
        /\ chan' = [s \in Subscribers |->
             IF Registered(s) /\ Len(chan[s]) < Buffer THEN Append(chan[s], n) ELSE chan[s]]
  BY DEF Publish
<1>3. UNCHANGED <<log, sub, from, lastSent, upto, got, chatVars, list>>
  BY DEF Publish
<1>4. n \in 1 .. MaxSeq
  BY <1>1
<1>5. chan' \in [Subscribers -> Seq(1 .. MaxSeq)]
  <2>1. \A s \in Subscribers : Append(chan[s], n) \in Seq(1 .. MaxSeq)
    BY <1>1, <1>4
  <2> QED BY <1>1, <1>2, <2>1
<1>6. pending' \in [Publishers -> SUBSET (1 .. MaxSeq)]
  BY <1>1, <1>2
<1>7. TypeOK'
  BY <1>3, <1>5, <1>6, OthersKept DEF TypeOK, StreamInv
<1>8. SubInv'
  BY <1>3 DEF SubInv, StreamInv
<1> QED BY <1>3, <1>7, <1>8, OthersKept DEF StreamInv

\* A writer appends an event of no run in Chats, or of one whose handler has
\* appended the first.
LEMMA WriterStep ==
  ASSUME StreamInv, NEW w \in Writers, WriterAppends(w)
  PROVE  StreamInv'
<1>1. TypeOK /\ w \in Publishers /\ Len(log) \in Nat /\ log \in Seq(Entry)
  BY DEF StreamInv, TypeOK, Publishers
<1>2. UNCHANGED <<subVars, chatVars, list>>
  BY DEF WriterAppends
<1> DEFINE Grown ==
             /\ log' \in Seq(Entry) /\ Len(log') \in Nat /\ Len(log) <= Len(log') /\ Len(log') <= MaxSeq
             /\ \A n \in 1 .. Len(log) : log'[n] = log[n]
             /\ \A n \in Len(log) + 1 .. Len(log') : \A c \in Chats : log'[n].run = c => chat[c] # "off"
             /\ pending' \in [Publishers -> SUBSET (1 .. MaxSeq)]
<1>3. Grown
  <2>1. ASSUME NEW entry \in Entry, Commit(w, entry),
               \A c \in Chats : entry.run = c => chat[c] # "off"
        PROVE  Grown
    BY <1>1, <2>1, CommitGrows
  <2>2. CASE Commit(w, [run |-> None, end |-> FALSE])
    <3>1. [run |-> None, end |-> FALSE] \in Entry
      BY DEF Entry
    <3>2. \A c \in Chats : [run |-> None, end |-> FALSE].run # c
      BY EventAssumption DEF EventAssumption
    <3> QED BY <2>1, <2>2, <3>1, <3>2
  <2>3. ASSUME NEW c \in Chats, chat[c] # "off", NEW e \in BOOLEAN, Commit(w, [run |-> c, end |-> e])
        PROVE  Grown
    <3>1. [run |-> c, end |-> e] \in Entry /\ [run |-> c, end |-> e].run = c
      BY DEF Entry
    <3> QED BY <2>1, <2>3, <3>1
  <2>4. ASSUME NEW c \in Chats, chat[c] # "off", CommitCompletion(w, c)
        PROVE  Grown
    <3>1. /\ log' \in Seq(Entry)
          /\ Len(log') = Len(log) + 2 /\ Len(log') <= MaxSeq
          /\ \A n \in 1 .. Len(log) : log'[n] = log[n]
          /\ log'[Len(log) + 1].run = c /\ log'[Len(log) + 2].run = c
          /\ pending' \in [Publishers -> SUBSET (1 .. MaxSeq)]
      BY <1>1, <2>4, CompletionGrows
    <3>2. \A n \in Len(log) + 1 .. Len(log') : n = Len(log) + 1 \/ n = Len(log) + 2
      BY <1>1, <3>1
    <3>3. \A n \in Len(log) + 1 .. Len(log') : log'[n].run = c
      BY <3>1, <3>2
    <3>4. \A n \in Len(log) + 1 .. Len(log') : \A d \in Chats : log'[n].run = d => chat[d] # "off"
      BY <2>4, <3>3
    <3> QED BY <1>1, <3>1, <3>4
  <2> QED BY <2>2, <2>3, <2>4 DEF WriterAppends
<1>4. ChatInv' /\ ListInv' /\ ChatComplete' /\ PageComplete'
  BY <1>2, <1>3, LogGrowth DEF chatVars
<1>5. TypeOK' /\ SubInv'
  BY <1>2, <1>3 DEF StreamInv, TypeOK, SubInv, subVars, chatVars
<1> QED BY <1>4, <1>5 DEF StreamInv

LEMMA ChatEnqueuesStep ==
  ASSUME StreamInv, NEW c \in Chats, ChatEnqueues(c)
  PROVE  StreamInv'
<1> DEFINE entry == [run |-> c, end |-> FALSE]
           N == Len(log) + 1
<1>1. /\ TypeOK /\ c \in Publishers /\ Len(log) \in Nat /\ log \in Seq(Entry)
      /\ chat \in [Chats -> ChatState] /\ chatLast \in [Chats -> Seqs]
      /\ chatUpto \in [Chats -> Seqs] /\ chatGot \in [Chats -> SUBSET (1 .. MaxSeq)]
  BY DEF StreamInv, TypeOK, Publishers
<1>2. /\ chat[c] = "off" /\ Commit(c, entry)
      /\ chat' = [chat EXCEPT ![c] = "idle"]
      /\ chatLast' = [chatLast EXCEPT ![c] = N]
      /\ chatGot' = [chatGot EXCEPT ![c] = {N}]
      /\ UNCHANGED <<subVars, chatUpto, list>>
  BY DEF ChatEnqueues
<1>3. entry \in Entry /\ entry.run = c /\ entry.end = FALSE
  BY DEF Entry
<1> HIDE DEF entry
<1>4. /\ log' \in Seq(Entry) /\ Len(log') = N /\ Len(log') <= MaxSeq
      /\ \A n \in 1 .. Len(log) : log'[n] = log[n]
      /\ log'[N] = entry
      /\ pending' \in [Publishers -> SUBSET (1 .. MaxSeq)]
  BY <1>1, <1>2, <1>3, CommitGrows
<1>5. TypeOK' /\ SubInv'
  <2>1. N \in Seqs /\ {N} \subseteq 1 .. MaxSeq
    BY <1>1, <1>4, EventAssumption DEF Seqs, EventAssumption
  <2>2. /\ chat' \in [Chats -> ChatState] /\ chatLast' \in [Chats -> Seqs]
        /\ chatGot' \in [Chats -> SUBSET (1 .. MaxSeq)]
    BY <1>1, <1>2, <2>1 DEF ChatState
  <2> QED BY <1>2, <1>4, <2>2 DEF StreamInv, TypeOK, SubInv, subVars
<1>6. ListInv' /\ PageComplete'
  <2>1. \A l \in Listers : list[l].latest \in Nat
    BY DEF StreamInv, TypeOK, ListState, Seqs
  <2> QED BY <1>1, <1>2, <1>4, <2>1 DEF StreamInv, ListInv, PageComplete
<1>7. ASSUME NEW d \in Chats, d # c
      PROVE  /\ chat'[d] = chat[d] /\ chatLast'[d] = chatLast[d]
             /\ chatUpto'[d] = chatUpto[d] /\ chatGot'[d] = chatGot[d]
             /\ log'[N].run # d
  BY <1>1, <1>2, <1>3, <1>4, <1>7
<1>8. chat'[c] = "idle" /\ chatLast'[c] = N /\ chatGot'[c] = {N}
  BY <1>1, <1>2
<1>9. \A n \in 1 .. Len(log) : log[n].run # c
  BY <1>2 DEF StreamInv, ChatInv
<1>10. ChatInv'
  <2> SUFFICES ASSUME NEW d \in Chats
               PROVE  /\ chat'[d] # "off" => chatLast'[d] \in 1 .. Len(log')
                      /\ chat'[d] = "batch" => chatLast'[d] < chatUpto'[d] /\ chatUpto'[d] <= Len(log')
                      /\ chat'[d] = "off" => \A n \in 1 .. Len(log') : log'[n].run # d
    BY DEF ChatInv
  <2>1. CASE d = c
    BY <1>1, <1>4, <1>8, <2>1
  <2>2. CASE d # c
    <3>1. chatLast[d] \in Nat /\ chatUpto[d] \in Nat
      BY <1>1 DEF Seqs
    <3>2. /\ chat[d] # "off" => chatLast[d] \in 1 .. Len(log)
          /\ chat[d] = "batch" => chatLast[d] < chatUpto[d] /\ chatUpto[d] <= Len(log)
          /\ chat[d] = "off" => \A n \in 1 .. Len(log) : log[n].run # d
      BY DEF StreamInv, ChatInv
    <3>3. \A n \in 1 .. Len(log') : n \in 1 .. Len(log) \/ n = N
      BY <1>1, <1>4
    <3>4. chat[d] = "off" => \A n \in 1 .. Len(log') : log'[n].run # d
      BY <1>4, <1>7, <2>2, <3>2, <3>3
    <3> QED BY <1>1, <1>4, <1>7, <2>2, <3>1, <3>2, <3>4
  <2> QED BY <2>1, <2>2
<1>11. ChatComplete'
  <2> SUFFICES ASSUME NEW d \in Chats, chat'[d] # "off"
               PROVE  /\ chatGot'[d] = {n \in 1 .. chatLast'[d] : log'[n].run = d}
                      /\ \A n \in chatGot'[d] : log'[n].end => n = chatLast'[d] /\ chat'[d] \in {"done", "gone"}
                      /\ chat'[d] = "done" => log'[chatLast'[d]] = [run |-> d, end |-> TRUE]
    BY DEF ChatComplete, Own
  <2>1. CASE d = c
    <3>1. \A n \in 1 .. N : n \in 1 .. Len(log) \/ n = N
      BY <1>1
    <3>2. \A n \in 1 .. N : log'[n].run = c <=> n = N
      BY <1>1, <1>3, <1>4, <1>9, <3>1
    <3>3. N \in 1 .. N
      BY <1>1
    <3> HIDE DEF N
    <3> QED BY <1>3, <1>4, <1>8, <2>1, <3>2, <3>3
  <2>2. CASE d # c
    <3>1. chat[d] # "off" /\ chatLast[d] \in 1 .. Len(log)
      BY <1>7, <2>2 DEF StreamInv, ChatInv
    <3>2. /\ chatGot[d] = {n \in 1 .. chatLast[d] : log[n].run = d}
          /\ \A n \in chatGot[d] : log[n].end => n = chatLast[d] /\ chat[d] \in {"done", "gone"}
          /\ chat[d] = "done" => log[chatLast[d]] = [run |-> d, end |-> TRUE]
      BY <3>1 DEF StreamInv, ChatComplete, Own
    <3>3. \A n \in 1 .. chatLast[d] : log'[n] = log[n]
      BY <1>1, <1>4, <3>1
    <3>4. chatGot[d] \subseteq 1 .. chatLast[d] /\ log'[chatLast[d]] = log[chatLast[d]]
      BY <1>4, <3>1, <3>2
    <3>5. chatGot[d] = {n \in 1 .. chatLast[d] : log'[n].run = d}
      BY <3>2, <3>3
    <3> QED BY <1>7, <2>2, <3>2, <3>3, <3>4, <3>5
  <2> QED BY <2>1, <2>2
<1> QED BY <1>5, <1>6, <1>10, <1>11 DEF StreamInv

LEMMA ChatReadsStep ==
  ASSUME StreamInv, NEW c \in Chats, ChatReads(c)
  PROVE  StreamInv'
<1> DEFINE end == PageEnd(chatLast[c], ReplayLimit)
<1>1. /\ Len(log) \in Nat /\ Len(log) <= MaxSeq
      /\ chat \in [Chats -> ChatState] /\ chatLast \in [Chats -> Seqs] /\ chatUpto \in [Chats -> Seqs]
  BY DEF StreamInv, TypeOK
<1>2. /\ chat[c] = "idle" /\ end > chatLast[c]
      /\ chatUpto' = [chatUpto EXCEPT ![c] = end]
      /\ chat' = [chat EXCEPT ![c] = "batch"]
      /\ UNCHANGED <<log, pending, subVars, chatLast, chatGot, list>>
  BY DEF ChatReads
<1>3. end \in Seqs /\ end <= Len(log)
  BY <1>1, <1>2, PageBounds, EventAssumption DEF EventAssumption
<1> HIDE DEF end
<1>4. TypeOK' /\ SubInv' /\ ListInv' /\ PageComplete'
  <2>1. chat' \in [Chats -> ChatState] /\ chatUpto' \in [Chats -> Seqs]
    BY <1>1, <1>2, <1>3 DEF ChatState
  <2> QED BY <1>2, <2>1 DEF StreamInv, TypeOK, SubInv, ListInv, PageComplete, subVars
<1>5. \A d \in Chats : chatLast[d] \in Nat
  BY <1>1 DEF Seqs
<1>6. ChatInv'
  BY <1>1, <1>2, <1>3, <1>5 DEF StreamInv, ChatInv, Seqs
<1>7. ChatComplete'
  <2>1. \A d \in Chats : chat'[d] = chat[d] \/ (d = c /\ chat'[d] = "batch" /\ chat[d] = "idle")
    BY <1>1, <1>2
  <2> QED BY <1>2, <2>1 DEF StreamInv, ChatComplete, Own
<1> QED BY <1>4, <1>6, <1>7 DEF StreamInv

LEMMA ChatSendsStep ==
  ASSUME StreamInv, NEW c \in Chats, ChatSends(c)
  PROVE  StreamInv'
<1> DEFINE N == chatLast[c] + 1
           pc == IF Own(c, N) /\ log[N].end THEN "done"
                 ELSE IF N < chatUpto[c] THEN "batch" ELSE "idle"
           sent == IF Own(c, N) THEN chatGot[c] \union {N} ELSE chatGot[c]
<1>1. /\ log \in Seq(Entry) /\ Len(log) \in Nat /\ Len(log) <= MaxSeq
      /\ chat \in [Chats -> ChatState] /\ chatLast \in [Chats -> Seqs] /\ chatUpto \in [Chats -> Seqs]
      /\ chatGot \in [Chats -> SUBSET (1 .. MaxSeq)]
  BY DEF StreamInv, TypeOK
<1>2. /\ chat[c] = "batch"
      /\ chatLast' = [chatLast EXCEPT ![c] = N]
      /\ chatGot' = [chatGot EXCEPT ![c] = sent]
      /\ chat' = [chat EXCEPT ![c] = pc]
      /\ UNCHANGED <<log, pending, subVars, chatUpto, list>>
  BY DEF ChatSends
<1>3. /\ chatLast[c] \in Nat /\ chatUpto[c] \in Nat
      /\ chatLast[c] < chatUpto[c] /\ chatUpto[c] <= Len(log) /\ chatLast[c] \in 1 .. Len(log)
  BY <1>1, <1>2 DEF StreamInv, ChatInv, Seqs
<1>4. /\ N \in 1 .. Len(log) /\ N \in Seqs /\ N \in 1 .. MaxSeq /\ N \in 1 .. N
      /\ pc = "batch" => N < chatUpto[c]
      /\ pc \in {"done", "batch", "idle"}
  BY <1>1, <1>3, EventAssumption DEF Seqs, EventAssumption
<1>5. log[N] \in Entry
  BY <1>1, <1>4
<1>6. TypeOK' /\ SubInv' /\ ListInv' /\ PageComplete'
  <2>1. sent \in SUBSET (1 .. MaxSeq)
    BY <1>1, <1>4
  <2> HIDE DEF N, pc, sent
  <2>2. /\ chat' \in [Chats -> ChatState] /\ chatLast' \in [Chats -> Seqs]
        /\ chatGot' \in [Chats -> SUBSET (1 .. MaxSeq)]
    BY <1>1, <1>2, <1>4, <2>1 DEF ChatState
  <2> QED BY <1>2, <2>2 DEF StreamInv, TypeOK, SubInv, ListInv, PageComplete, subVars
<1>7. chat'[c] = pc /\ chatLast'[c] = N /\ chatGot'[c] = sent
  BY <1>1, <1>2
<1>8. \A d \in Chats : d # c => /\ chat'[d] = chat[d] /\ chatLast'[d] = chatLast[d]
                                /\ chatGot'[d] = chatGot[d]
  BY <1>1, <1>2
<1>9. ChatInv'
  <2> HIDE DEF N, pc, sent
  <2> QED BY <1>2, <1>3, <1>4, <1>7, <1>8 DEF StreamInv, ChatInv
<1>10. /\ chatGot[c] = {n \in 1 .. chatLast[c] : log[n].run = c}
       /\ \A n \in chatGot[c] : ~log[n].end
  BY <1>2 DEF StreamInv, ChatComplete, Own
<1>11. sent = {n \in 1 .. N : log[n].run = c}
  <2>1. \A n : n \in 1 .. N <=> n \in 1 .. chatLast[c] \/ n = N
    BY <1>3
  <2> HIDE DEF N
  <2> QED BY <1>10, <2>1 DEF Own
<1>12. \A n \in sent : log[n].end => n = N /\ pc = "done"
  <2> HIDE DEF N
  <2> QED BY <1>10 DEF Own
<1>13. pc = "done" => log[N] = [run |-> c, end |-> TRUE]
  <2>1. CASE ~(Own(c, N) /\ log[N].end)
    BY <2>1
  <2>2. CASE Own(c, N) /\ log[N].end
    <3> HIDE DEF N
    <3> QED BY <1>5, <2>2 DEF Own, Entry
  <2> QED BY <2>1, <2>2
<1>14. ChatComplete'
  <2> SUFFICES ASSUME NEW d \in Chats, chat'[d] # "off"
               PROVE  /\ chatGot'[d] = {n \in 1 .. chatLast'[d] : log[n].run = d}
                      /\ \A n \in chatGot'[d] : log[n].end => n = chatLast'[d] /\ chat'[d] \in {"done", "gone"}
                      /\ chat'[d] = "done" => log[chatLast'[d]] = [run |-> d, end |-> TRUE]
    BY <1>2 DEF ChatComplete, Own
  <2> HIDE DEF N, pc, sent
  <2>1. CASE d = c
    BY <1>7, <1>11, <1>12, <1>13, <2>1
  <2>2. CASE d # c
    BY <1>8, <2>2 DEF StreamInv, ChatComplete, Own
  <2> QED BY <2>1, <2>2
<1> QED BY <1>6, <1>9, <1>14 DEF StreamInv

LEMMA ChatHangsUpStep ==
  ASSUME StreamInv, NEW c \in Chats, ChatHangsUp(c)
  PROVE  StreamInv'
<1> DEFINE entry == [run |-> c, end |-> TRUE]
<1>1. /\ TypeOK /\ c \in Publishers /\ Len(log) \in Nat /\ Len(log) <= MaxSeq /\ log \in Seq(Entry)
      /\ chat \in [Chats -> ChatState] /\ pending \in [Publishers -> SUBSET (1 .. MaxSeq)]
  BY DEF StreamInv, TypeOK, Publishers
<1>2. /\ chat[c] \in {"idle", "batch"}
      /\ chat' = [chat EXCEPT ![c] = "gone"]
      /\ UNCHANGED <<subVars, chatLast, chatUpto, chatGot, list>>
      /\ Commit(c, entry) \/ UNCHANGED <<log, pending>>
  BY DEF ChatHangsUp
<1>3. entry \in Entry /\ entry.run = c
  BY DEF Entry
<1> HIDE DEF entry
<1>4. \A d \in Chats : chat'[d] = chat[d] \/ (d = c /\ chat'[d] = "gone" /\ chat[d] # "off")
  BY <1>1, <1>2
<1>5. /\ log' \in Seq(Entry) /\ Len(log') \in Nat /\ Len(log) <= Len(log') /\ Len(log') <= MaxSeq
      /\ \A n \in 1 .. Len(log) : log'[n] = log[n]
      /\ \A n \in Len(log) + 1 .. Len(log') : \A d \in Chats : log'[n].run = d => chat'[d] # "off"
      /\ pending' \in [Publishers -> SUBSET (1 .. MaxSeq)]
  <2>1. CASE Commit(c, entry)
    <3>1. /\ log' \in Seq(Entry)
          /\ Len(log') = Len(log) + 1 /\ Len(log') <= MaxSeq
          /\ \A n \in 1 .. Len(log) : log'[n] = log[n]
          /\ log'[Len(log) + 1] = entry
          /\ pending' \in [Publishers -> SUBSET (1 .. MaxSeq)]
      BY <1>1, <1>3, <2>1, CommitGrows
    <3>2. chat'[c] = "gone"
      BY <1>1, <1>2
    <3>3. \A n \in Len(log) + 1 .. Len(log') : n = Len(log) + 1
      BY <1>1, <3>1
    <3>4. \A n \in Len(log) + 1 .. Len(log') : log'[n].run = c
      BY <1>3, <3>1, <3>3
    <3>5. \A n \in Len(log) + 1 .. Len(log') : \A d \in Chats : log'[n].run = d => chat'[d] # "off"
      BY <3>2, <3>4
    <3> QED BY <1>1, <3>1, <3>5
  <2>2. CASE UNCHANGED <<log, pending>>
    BY <1>1, <2>2
  <2> QED BY <1>2, <2>1, <2>2
<1>6. ChatInv' /\ ListInv' /\ ChatComplete' /\ PageComplete'
  BY <1>2, <1>4, <1>5, LogGrowth
<1>7. chat' \in [Chats -> ChatState]
  BY <1>1, <1>2 DEF ChatState
<1>8. TypeOK' /\ SubInv'
  BY <1>2, <1>5, <1>7 DEF StreamInv, TypeOK, SubInv, subVars
<1> QED BY <1>6, <1>8 DEF StreamInv

LEMMA ListStep ==
  ASSUME StreamInv, NEW l \in Listers, ListEvents(l)
  PROVE  StreamInv'
<1>1. /\ Len(log) \in Nat /\ Len(log) <= MaxSeq /\ list \in [Listers -> ListState]
  BY DEF StreamInv, TypeOK
<1>2. UNCHANGED <<log, pending, subVars, chatVars>>
  BY DEF ListEvents, ListLatest, ListRows
<1>3. ListInv /\ PageComplete
  BY DEF StreamInv
<1>4. list' \in [Listers -> ListState] /\ ListInv' /\ PageComplete'
  <2>1. CASE ListLatest(l)
    <3>1. PICK after \in Seqs, limit \in 1 .. ReplayLimit :
            list' = [list EXCEPT ![l] =
              [pc |-> "rows", after |-> after, limit |-> limit, latest |-> Len(log), upto |-> after]]
      BY <2>1 DEF ListLatest
    <3> DEFINE row == [pc |-> "rows", after |-> after, limit |-> limit, latest |-> Len(log), upto |-> after]
    <3>2. Len(log) \in Seqs /\ limit \in 0 .. ReplayLimit
      BY <1>1, EventAssumption DEF Seqs, EventAssumption
    <3>3. row \in ListState /\ row.pc = "rows" /\ row.latest <= Len(log)
      BY <1>1, <3>2 DEF ListState
    <3> HIDE DEF row
    <3>4. list' = [list EXCEPT ![l] = row]
      BY <3>1 DEF row
    <3> QED BY <1>1, <1>2, <1>3, <3>3, <3>4 DEF ListInv, PageComplete
  <2>2. CASE ListRows(l)
    <3> DEFINE old == list[l]
               end == PageEnd(old.after, old.limit)
               row == [pc |-> "done", after |-> old.after, limit |-> old.limit,
                       latest |-> old.latest, upto |-> end]
    <3>1. list' = [list EXCEPT ![l] = row]
      BY <2>2 DEF ListRows
    <3>2. /\ old \in ListState /\ old.after \in Seqs /\ old.limit \in 0 .. ReplayLimit
          /\ old.latest \in Seqs /\ old.latest <= Len(log)
      BY <1>1, <1>3 DEF ListState, ListInv
    <3>3. /\ end \in Seqs
          /\ end >= Len(log) \/ end = old.after + old.limit
      BY <1>1, <3>2, PageBounds, EventAssumption DEF EventAssumption
    <3> HIDE DEF end, old
    <3>4. /\ row \in ListState /\ row.latest <= Len(log)
          /\ row.upto >= row.latest \/ row.upto = row.after + row.limit
      BY <1>1, <3>2, <3>3 DEF ListState, Seqs
    <3> HIDE DEF row
    <3> QED BY <1>1, <1>2, <1>3, <3>1, <3>4 DEF ListInv, PageComplete
  <2> QED BY <2>1, <2>2 DEF ListEvents
<1>5. TypeOK' /\ SubInv' /\ ChatInv' /\ ChatComplete'
  BY <1>2, <1>4 DEF StreamInv, TypeOK, SubInv, ChatInv, ChatComplete, Own, subVars, chatVars
<1> QED BY <1>4, <1>5 DEF StreamInv

LEMMA StreamNext == StreamInv /\ [Next]_vars => StreamInv'
<1> SUFFICES ASSUME StreamInv, [Next]_vars PROVE StreamInv'
  OBVIOUS
<1>1. ASSUME NEW w \in Writers, WriterAppends(w) PROVE StreamInv'
  BY <1>1, WriterStep
<1>2. ASSUME NEW p \in Publishers, Publish(p) PROVE StreamInv'
  BY <1>2, PublishStep
<1>3. ASSUME NEW s \in Subscribers, Subscribe(s) \/ Resubscribe(s) \/ SubscriberStep(s) \/ Disconnect(s)
      PROVE  StreamInv'
  BY <1>3, SubscriberSteps
<1>4. ASSUME NEW c \in Chats, ChatEnqueues(c) \/ ChatReads(c) \/ ChatSends(c) \/ ChatHangsUp(c)
      PROVE  StreamInv'
  BY <1>4, ChatEnqueuesStep, ChatReadsStep, ChatSendsStep, ChatHangsUpStep
<1>5. ASSUME NEW l \in Listers, ListEvents(l) PROVE StreamInv'
  BY <1>5, ListStep
<1>6. CASE UNCHANGED vars
  BY <1>6 DEF vars, subVars, chatVars, StreamInv, TypeOK, SubInv, ChatInv, ListInv,
              ChatComplete, PageComplete, Own
<1> QED BY <1>1, <1>2, <1>3, <1>4, <1>5, <1>6 DEF Next

(***************************************************************************)
(* The theorems                                                            *)
(***************************************************************************)

\* Every variable keeps to its type, whatever appends, publishes and reads.
THEOREM TypeCorrect == Spec => []TypeOK
<1>1. StreamInv => TypeOK
  BY DEF StreamInv
<1> QED BY StreamInit, StreamNext, <1>1, PTL DEF Spec

\* A SendMessage stream has every event of its run up to its position, and ends
\* with the run's terminal event only.
THEOREM ChatStreamsComplete == Spec => []ChatComplete
<1>1. StreamInv => ChatComplete
  BY DEF StreamInv
<1> QED BY StreamInit, StreamNext, <1>1, PTL DEF Spec

\* A listed page that is not full reaches the latest sequence listed with it.
THEOREM PagesComplete == Spec => []PageComplete
<1>1. StreamInv => PageComplete
  BY DEF StreamInv
<1> QED BY StreamInit, StreamNext, <1>1, PTL DEF Spec

\* A subscriber gets its events in the order of the log, each at most once.
THEOREM OrderKept == Spec => InOrder
<1> DEFINE Ordered == \A s \in Subscribers : \A n \in got'[s] \ got[s], k \in got[s] : k < n
<1>1. ASSUME StreamInv, [Next]_vars PROVE [Ordered]_vars
  <2>1. /\ got \in [Subscribers -> SUBSET (1 .. MaxSeq)] /\ lastSent \in [Subscribers -> Seqs]
        /\ \A s \in Subscribers : \A k \in got[s] : k <= lastSent[s]
    BY <1>1 DEF StreamInv, TypeOK, SubInv
  <2>2. \A s \in Subscribers : lastSent[s] \in Nat /\ \A k \in got[s] : k \in Nat
    BY <2>1 DEF Seqs
  <2>3. ASSUME NEW s \in Subscribers, NEW n \in Nat, n > lastSent[s], Sends(s, n)
        PROVE  Ordered
    <3>1. got' = [got EXCEPT ![s] = got[s] \union {n}]
      BY <2>3 DEF Sends
    <3>2. \A k \in got[s] : k < n
      BY <2>1, <2>2, <2>3
    <3> QED BY <2>1, <3>1, <3>2
  <2>4. ASSUME UNCHANGED got PROVE Ordered
    BY <2>4
  <2>5. ASSUME NEW s \in Subscribers, Subscribe(s) \/ Resubscribe(s) \/ SubscriberStep(s) \/ Disconnect(s)
        PROVE  Ordered
    <3>1. CASE SendReplayed(s)
      BY <2>2, <2>3, <3>1 DEF SendReplayed
    <3>2. CASE Receive(s)
      <4>1. chan[s] \in Seq(1 .. MaxSeq) /\ chan[s] # <<>>
        BY <1>1, <3>2 DEF Receive, StreamInv, TypeOK
      <4>2. Head(chan[s]) \in 1 .. MaxSeq
        BY <4>1, HeadTail
      <4>3. (Head(chan[s]) > lastSent[s] /\ Sends(s, Head(chan[s]))) \/ UNCHANGED got
        BY <3>2 DEF Receive
      <4> QED BY <2>3, <2>4, <4>2, <4>3, EventAssumption DEF EventAssumption
    <3>3. CASE Disconnect(s)
      <4>1. PICK n : got' = [got EXCEPT ![s] = {k \in @ : k <= n}]
        BY <3>3 DEF Disconnect
      <4>2. \A t \in Subscribers : got'[t] \subseteq got[t]
        BY <2>1, <4>1
      <4> QED BY <4>2
    <3>4. CASE Subscribe(s) \/ Resubscribe(s) \/ Register(s) \/ CatchUp(s) \/ GoLive(s)
      BY <2>4, <3>4 DEF Subscribe, Resubscribe, Register, CatchUp, GoLive, Replays
    <3> QED BY <2>5, <3>1, <3>2, <3>3, <3>4 DEF SubscriberStep
  <2>6. CASE \/ \E w \in Writers : WriterAppends(w)
             \/ \E p \in Publishers : Publish(p)
             \/ \E c \in Chats : ChatEnqueues(c) \/ ChatReads(c) \/ ChatSends(c) \/ ChatHangsUp(c)
             \/ \E l \in Listers : ListEvents(l)
    BY <2>4, <2>6 DEF WriterAppends, Publish, ChatEnqueues, ChatReads, ChatSends, ChatHangsUp,
                      ListEvents, ListLatest, ListRows, subVars
  <2>7. CASE UNCHANGED vars
    BY <2>4, <2>7 DEF vars, subVars
  <2> QED BY <1>1, <2>5, <2>6, <2>7 DEF Next
<1>2. Spec => []StreamInv
  BY StreamInit, StreamNext, PTL DEF Spec
<1> QED BY <1>1, <1>2, PTL DEF Spec, InOrder

(***************************************************************************)
(* What a subscriber misses.                                               *)
(***************************************************************************)

\* A subscriber's position is not before the one it started with, and beyond the
\* log only if it started there; a page under way ends in the log, or is at its
\* end.
PlaceInv ==
  \A s \in Subscribers :
    /\ from[s] <= lastSent[s] /\ \A k \in got[s] : from[s] <= k
    /\ lastSent[s] = from[s] \/ lastSent[s] <= Len(log)
    /\ sub[s] \in {"replaying", "catchup"} => upto[s] <= lastSent[s] \/ upto[s] <= Len(log)

On(q, k) == \E i \in DOMAIN q : q[i] = k

\* What is published or about to be is in the log.
SourceInv ==
  /\ \A p \in Publishers : pending[p] \subseteq 1 .. Len(log)
  /\ \A s \in Subscribers : \A k : On(chan[s], k) => k \in 1 .. Len(log)

PlacesInv == StreamInv /\ PlaceInv /\ SourceInv

\* The entries of a channel after one is put on it, and after one is taken off.
LEMMA EntriesAppended ==
  ASSUME NEW S, NEW q \in Seq(S), NEW n \in S
  PROVE  \A k : On(Append(q, n), k) <=> On(q, k) \/ k = n
<1> DEFINE r == Append(q, n)
<1>1. /\ Len(q) \in Nat /\ DOMAIN q = 1 .. Len(q) /\ DOMAIN r = 1 .. Len(q) + 1
      /\ \A j \in 1 .. Len(q) : r[j] = q[j]
      /\ r[Len(q) + 1] = n
  OBVIOUS
<1>2. Len(q) + 1 \in DOMAIN r /\ \A i \in DOMAIN r : i = Len(q) + 1 \/ i \in DOMAIN q
  BY <1>1
<1>3. \A j \in DOMAIN q : j \in DOMAIN r /\ r[j] = q[j]
  BY <1>1
<1> HIDE DEF r
<1>4. \A k : On(r, k) <=> On(q, k) \/ k = n
  BY <1>1, <1>2, <1>3 DEF On
<1> QED BY <1>4 DEF r

LEMMA EntriesTaken ==
  ASSUME NEW S, NEW q \in Seq(S), q # <<>>
  PROVE  \A k : On(q, k) <=> On(Tail(q), k) \/ k = Head(q)
<1> DEFINE r == Tail(q)
<1>1. /\ Len(q) \in Nat \ {0} /\ DOMAIN q = 1 .. Len(q) /\ DOMAIN r = 1 .. Len(q) - 1
      /\ \A i \in 1 .. Len(q) - 1 : r[i] = q[i + 1]
      /\ q[1] = Head(q)
  OBVIOUS
<1>2. \A i \in DOMAIN r : i + 1 \in DOMAIN q /\ r[i] = q[i + 1]
  BY <1>1
<1>3. \A j \in DOMAIN q : j = 1 \/ (j - 1 \in DOMAIN r /\ r[j - 1] = q[j])
  BY <1>1
<1>4. 1 \in DOMAIN q
  BY <1>1
<1> HIDE DEF r
<1>5. \A k : On(q, k) <=> On(r, k) \/ k = Head(q)
  BY <1>1, <1>2, <1>3, <1>4 DEF On
<1> QED BY <1>5 DEF r

\* Where everything may be found, as the lemmas below use it.
LEMMA PlaceTypes ==
  ASSUME TypeOK
  PROVE  /\ Len(log) \in Nat /\ Len(log) <= MaxSeq
         /\ pending \in [Publishers -> SUBSET (1 .. MaxSeq)]
         /\ sub \in [Subscribers -> SubState]
         /\ from \in [Subscribers -> Nat] /\ lastSent \in [Subscribers -> Nat]
         /\ upto \in [Subscribers -> Nat]
         /\ chan \in [Subscribers -> Seq(1 .. MaxSeq)]
         /\ got \in [Subscribers -> SUBSET (1 .. MaxSeq)]
         /\ ReplayLimit \in Nat /\ MaxSeq \in Nat /\ Buffer \in Nat
BY EventAssumption DEF TypeOK, Seqs, EventAssumption

LEMMA PlacesInit == Init => PlacesInv
<1> SUFFICES ASSUME Init PROVE PlacesInv
  OBVIOUS
<1>1. StreamInv
  BY StreamInit
<1>2. PlaceInv
  BY DEF Init, PlaceInv
<1>3. SourceInv
  BY DEF Init, SourceInv, On
<1> QED BY <1>1, <1>2, <1>3 DEF PlacesInv

\* Nothing is missed of a subscriber by a step that leaves it alone while the log
\* grows by events that are pending.
LEMMA NothingMissedByGrowth ==
  ASSUME PlacesInv, NEW s \in Subscribers, UNCHANGED subVars,
         Len(log') \in Nat, Len(log) <= Len(log'),
         \A p \in Publishers : pending[p] \subseteq pending'[p],
         \A n \in Len(log) + 1 .. Len(log') : \E p \in Publishers : n \in pending'[p]
  PROVE  Missing(s)' \subseteq Missing(s)
<1> SUFFICES ASSUME NEW n \in Missing(s)'
             PROVE  n \in Missing(s)
  OBVIOUS
<1>1. /\ Len(log) \in Nat /\ from[s] \in Nat /\ lastSent[s] \in Nat
      /\ from[s] <= lastSent[s]
      /\ lastSent[s] = from[s] \/ lastSent[s] <= Len(log)
  BY PlaceTypes DEF PlacesInv, StreamInv, PlaceInv
<1>2. n \in from[s] + 1 .. Len(log') /\ n \notin got[s] /\ n \notin Ahead(s)'
  BY DEF Missing, subVars
<1>3. n \in Len(log) + 1 .. Len(log') => n \in Ahead(s)'
  BY <1>1, <1>2 DEF Ahead, subVars
<1>4. n \in from[s] + 1 .. Len(log)
  BY <1>1, <1>2, <1>3
<1>5. n \in Ahead(s) => n \in Ahead(s)'
  BY <1>1, <1>2 DEF Ahead, subVars
<1> QED BY <1>2, <1>4, <1>5 DEF Missing

\* How the log and what is pending grow by a step that appends.
LogGrows ==
  /\ log' \in Seq(Entry) /\ Len(log') \in Nat /\ Len(log) <= Len(log')
  /\ \A p \in Publishers : /\ pending[p] \subseteq pending'[p]
                           /\ pending'[p] \subseteq pending[p] \union (Len(log) + 1 .. Len(log'))
  /\ \A n \in Len(log) + 1 .. Len(log') : \E p \in Publishers : n \in pending'[p]

LEMMA CommitPends ==
  ASSUME TypeOK, NEW p \in Publishers, NEW entry \in Entry, Commit(p, entry)
  PROVE  LogGrows
<1>1. /\ log \in Seq(Entry) /\ Len(log) \in Nat
      /\ pending \in [Publishers -> SUBSET (1 .. MaxSeq)]
      /\ log' = Append(log, entry)
      /\ pending' = [pending EXCEPT ![p] = @ \union {Len(log) + 1}]
  BY DEF TypeOK, Commit
<1>2. log' \in Seq(Entry) /\ Len(log') = Len(log) + 1
  BY <1>1, Appended
<1>3. \A n \in Len(log) + 1 .. Len(log) + 1 : n = Len(log) + 1
  BY <1>1
<1>4. Len(log) + 1 \in Len(log) + 1 .. Len(log) + 1
  BY <1>1
<1>5. Len(log) + 1 \in pending'[p]
  BY <1>1
<1>6. \A q \in Publishers : pending'[q] = pending[q] \/ pending'[q] = pending[q] \union {Len(log) + 1}
  BY <1>1
<1> QED BY <1>1, <1>2, <1>3, <1>4, <1>5, <1>6 DEF LogGrows

LEMMA CompletionPends ==
  ASSUME TypeOK, NEW p \in Publishers, NEW c \in Chats, CommitCompletion(p, c), pending[p] = {}
  PROVE  LogGrows
<1> DEFINE a == [run |-> c, end |-> FALSE]
           b == [run |-> c, end |-> TRUE]
<1>1. /\ log \in Seq(Entry) /\ Len(log) \in Nat
      /\ pending \in [Publishers -> SUBSET (1 .. MaxSeq)]
      /\ log' = Append(Append(log, a), b)
      /\ pending' = [pending EXCEPT ![p] = {Len(log) + 1, Len(log) + 2}]
  BY DEF TypeOK, CommitCompletion
<1>2. a \in Entry /\ b \in Entry
  BY DEF Entry
<1> HIDE DEF a, b
<1>3. log' \in Seq(Entry) /\ Len(log') = Len(log) + 2
  BY <1>1, <1>2
<1>4. \A n \in Len(log) + 1 .. Len(log) + 2 : n = Len(log) + 1 \/ n = Len(log) + 2
  BY <1>1
<1>5. {Len(log) + 1, Len(log) + 2} \subseteq Len(log) + 1 .. Len(log) + 2
  BY <1>1
<1>6. \A q \in Publishers : \/ pending'[q] = pending[q]
                            \/ pending[q] = {} /\ pending'[q] = {Len(log) + 1, Len(log) + 2}
  BY <1>1
<1>7. Len(log) + 1 \in pending'[p] /\ Len(log) + 2 \in pending'[p]
  BY <1>1
<1> QED BY <1>1, <1>3, <1>4, <1>5, <1>6, <1>7 DEF LogGrows

\* What is not sent to a subscriber and not on its way any more was lost in one of
\* the three ways.
LossExplained(s) ==
  \A n \in Missing(s)' \ Missing(s) : Dropped(s, n) \/ Overtaken(s, n) \/ Beyond(s, n)

LEMMA GrowthStep ==
  ASSUME PlacesInv, LogGrows, UNCHANGED subVars
  PROVE  PlaceInv' /\ SourceInv' /\ \A s \in Subscribers : LossExplained(s)
<1>1. /\ Len(log) \in Nat /\ from \in [Subscribers -> Nat] /\ lastSent \in [Subscribers -> Nat]
      /\ upto \in [Subscribers -> Nat]
      /\ Len(log') \in Nat /\ Len(log) <= Len(log')
  BY PlaceTypes DEF PlacesInv, StreamInv, LogGrows
<1>2. PlaceInv'
  BY <1>1 DEF PlacesInv, PlaceInv, subVars
<1>3. 1 .. Len(log) \subseteq 1 .. Len(log') /\ Len(log) + 1 .. Len(log') \subseteq 1 .. Len(log')
  BY <1>1
<1>4. SourceInv'
  BY <1>3 DEF PlacesInv, SourceInv, LogGrows, subVars
<1>5. \A s \in Subscribers : Missing(s)' \subseteq Missing(s)
  BY <1>1, NothingMissedByGrowth DEF LogGrows
<1> QED BY <1>2, <1>4, <1>5 DEF LossExplained

LEMMA AppendSteps ==
  ASSUME StreamInv,
         (\E w \in Writers : WriterAppends(w)) \/ (\E c \in Chats : ChatEnqueues(c) \/ ChatHangsUp(c))
  PROVE  (LogGrows \/ UNCHANGED <<log, pending>>) /\ UNCHANGED subVars
<1>1. TypeOK /\ \A c \in Chats : \A e \in BOOLEAN : [run |-> c, end |-> e] \in Entry
  BY DEF StreamInv, Entry
<1>2. [run |-> None, end |-> FALSE] \in Entry
  BY DEF Entry
<1>3. ASSUME NEW w \in Writers, WriterAppends(w) PROVE LogGrows /\ UNCHANGED subVars
  <2>1. w \in Publishers /\ pending[w] = {} /\ UNCHANGED subVars
    BY <1>3 DEF WriterAppends, Publishers
  <2>2. \/ \E entry \in Entry : Commit(w, entry)
        \/ \E c \in Chats : CommitCompletion(w, c)
    BY <1>1, <1>2, <1>3 DEF WriterAppends
  <2> QED BY <1>1, <2>1, <2>2, CommitPends, CompletionPends
<1>4. ASSUME NEW c \in Chats, ChatEnqueues(c) PROVE LogGrows /\ UNCHANGED subVars
  <2>1. c \in Publishers /\ UNCHANGED subVars /\ Commit(c, [run |-> c, end |-> FALSE])
    BY <1>4 DEF ChatEnqueues, Publishers
  <2> QED BY <1>1, <2>1, CommitPends
<1>5. ASSUME NEW c \in Chats, ChatHangsUp(c)
      PROVE  (LogGrows \/ UNCHANGED <<log, pending>>) /\ UNCHANGED subVars
  <2>1. /\ c \in Publishers /\ UNCHANGED subVars
        /\ Commit(c, [run |-> c, end |-> TRUE]) \/ UNCHANGED <<log, pending>>
    BY <1>5 DEF ChatHangsUp, Publishers
  <2> QED BY <1>1, <2>1, CommitPends
<1> QED BY <1>3, <1>4, <1>5

\* An event is put on every channel that has room and belongs to a subscriber that
\* will not read it from the log.
LEMMA PublishPlaces ==
  ASSUME PlacesInv, NEW p \in Publishers, Publish(p)
  PROVE  PlaceInv' /\ SourceInv' /\ \A s \in Subscribers : LossExplained(s)
<1>1. /\ Len(log) \in Nat
      /\ pending \in [Publishers -> SUBSET (1 .. MaxSeq)]
      /\ sub \in [Subscribers -> SubState]
      /\ chan \in [Subscribers -> Seq(1 .. MaxSeq)]
      /\ Buffer \in Nat
  BY PlaceTypes DEF PlacesInv, StreamInv
<1>2. PICK n \in pending[p] :
        /\ pending' = [pending EXCEPT ![p] = @ \ {n}]
        /\ chan' = [s \in Subscribers |->
             IF Registered(s) /\ Len(chan[s]) < Buffer THEN Append(chan[s], n) ELSE chan[s]]
  BY DEF Publish
<1>3. UNCHANGED <<log, sub, from, lastSent, upto, got>>
  BY DEF Publish
<1>4. n \in 1 .. MaxSeq /\ n \in 1 .. Len(log)
  BY <1>1 DEF PlacesInv, SourceInv
<1>5. PlaceInv'
  BY <1>3 DEF PlacesInv, PlaceInv
<1>6. \A q \in Publishers : pending'[q] \subseteq pending[q] /\ pending[q] \subseteq pending'[q] \union {n}
  BY <1>1, <1>2
<1>7. n \in pending[p] \ pending'[p]
  BY <1>1, <1>2
<1>8. ASSUME NEW s \in Subscribers
      PROVE  \/ chan'[s] = chan[s] /\ ~(Registered(s) /\ Len(chan[s]) < Buffer)
             \/ \A k : On(chan'[s], k) <=> On(chan[s], k) \/ k = n
  <2>1. chan[s] \in Seq(1 .. MaxSeq)
    BY <1>1
  <2>2. \A k : On(Append(chan[s], n), k) <=> On(chan[s], k) \/ k = n
    BY <1>4, <2>1, EntriesAppended
  <2>3. \/ chan'[s] = Append(chan[s], n)
        \/ chan'[s] = chan[s] /\ ~(Registered(s) /\ Len(chan[s]) < Buffer)
    BY <1>2
  <2> QED BY <2>2, <2>3
<1>9. SourceInv'
  <2>1. /\ \A q \in Publishers : pending[q] \subseteq 1 .. Len(log)
        /\ \A s \in Subscribers : \A k : On(chan[s], k) => k \in 1 .. Len(log)
    BY DEF PlacesInv, SourceInv
  <2>2. \A q \in Publishers : pending'[q] \subseteq 1 .. Len(log')
    BY <1>3, <1>6, <2>1
  <2>3. \A s \in Subscribers : \A k : On(chan'[s], k) => k \in 1 .. Len(log')
    BY <1>3, <1>4, <1>8, <2>1
  <2> QED BY <2>2, <2>3 DEF SourceInv
<1>10. ASSUME NEW s \in Subscribers PROVE LossExplained(s)
  <2> SUFFICES ASSUME NEW k \in Missing(s)', k \notin Missing(s)
               PROVE  Dropped(s, k)
    BY DEF LossExplained
  <2>1. /\ k \in from[s] + 1 .. Len(log) /\ k \notin got[s]
        /\ k \in Ahead(s) /\ k \notin Ahead(s)'
    BY <1>3 DEF Missing
  <2>2. /\ k > lastSent[s]
        /\ sub[s] \in {"catchup", "live"}
        /\ ~(sub[s] = "catchup" /\ k <= upto[s])
        /\ ~On(chan'[s], k)
        /\ ~\E q \in Publishers : k \in pending'[q]
    BY <1>3, <2>1 DEF Ahead, On
  <2>3. On(chan[s], k) \/ \E q \in Publishers : k \in pending[q]
    BY <2>1, <2>2 DEF Ahead, On
  <2>4. k = n
    BY <1>6, <1>8, <2>2, <2>3
  <2>5. ~(Len(chan[s]) < Buffer)
    BY <1>8, <2>2, <2>4 DEF Registered
  <2>6. Len(chan[s]) \in Nat
    BY <1>1
  <2>7. Len(chan[s]) >= Buffer
    BY <1>1, <2>5, <2>6
  <2> QED BY <1>7, <2>4, <2>7 DEF Dropped
<1> QED BY <1>5, <1>9, <1>10

\* A step of one subscriber leaves what the others miss alone.
LEMMA OneSubscriber ==
  ASSUME PlacesInv, NEW s \in Subscribers, UNCHANGED <<log, pending>>,
         \A t \in Subscribers : t # s =>
           /\ sub'[t] = sub[t] /\ from'[t] = from[t] /\ lastSent'[t] = lastSent[t]
           /\ upto'[t] = upto[t] /\ chan'[t] = chan[t] /\ got'[t] = got[t],
         from'[s] <= lastSent'[s], \A k \in got'[s] : from'[s] <= k,
         lastSent'[s] = from'[s] \/ lastSent'[s] <= Len(log),
         sub'[s] \in {"replaying", "catchup"} => upto'[s] <= lastSent'[s] \/ upto'[s] <= Len(log),
         \A k : On(chan'[s], k) => On(chan[s], k),
         LossExplained(s)
  PROVE  PlaceInv' /\ SourceInv' /\ \A t \in Subscribers : LossExplained(t)
<1>1. PlaceInv'
  <2> SUFFICES ASSUME NEW t \in Subscribers
               PROVE  /\ from'[t] <= lastSent'[t] /\ \A k \in got'[t] : from'[t] <= k
                      /\ lastSent'[t] = from'[t] \/ lastSent'[t] <= Len(log')
                      /\ sub'[t] \in {"replaying", "catchup"} =>
                           upto'[t] <= lastSent'[t] \/ upto'[t] <= Len(log')
    BY DEF PlaceInv
  <2>1. CASE t = s
    BY <2>1
  <2>2. CASE t # s
    BY <2>2 DEF PlacesInv, PlaceInv
  <2> QED BY <2>1, <2>2
<1>2. SourceInv'
  <2>1. \A t \in Subscribers : \A k : On(chan'[t], k) => On(chan[t], k)
    OBVIOUS
  <2> QED BY <2>1 DEF PlacesInv, SourceInv
<1>3. ASSUME NEW t \in Subscribers, t # s PROVE LossExplained(t)
  <2>1. Missing(t)' = Missing(t)
    BY <1>3 DEF Missing, Ahead
  <2> QED BY <2>1 DEF LossExplained
<1> QED BY <1>1, <1>2, <1>3

\* What a subscriber has not been sent is behind its position if it is missed.
LEMMA NotYet ==
  ASSUME NEW s \in Subscribers, NEW k, k \notin Missing(s), k \in from[s] + 1 .. Len(log)
  PROVE  k \in got[s] \/ k \in Ahead(s)
BY DEF Missing

LEMMA SubscriberPlaces ==
  ASSUME PlacesInv, NEW s \in Subscribers,
         Subscribe(s) \/ Resubscribe(s) \/ SubscriberStep(s) \/ Disconnect(s)
  PROVE  PlaceInv' /\ SourceInv' /\ \A t \in Subscribers : LossExplained(t)
<1>1. /\ Len(log) \in Nat /\ Len(log) <= MaxSeq
      /\ sub \in [Subscribers -> SubState]
      /\ from \in [Subscribers -> Nat] /\ lastSent \in [Subscribers -> Nat]
      /\ upto \in [Subscribers -> Nat]
      /\ chan \in [Subscribers -> Seq(1 .. MaxSeq)]
      /\ got \in [Subscribers -> SUBSET (1 .. MaxSeq)]
      /\ ReplayLimit \in Nat /\ MaxSeq \in Nat
  BY PlaceTypes DEF PlacesInv, StreamInv
<1>2. /\ from[s] <= lastSent[s] /\ \A k \in got[s] : from[s] <= k
      /\ lastSent[s] = from[s] \/ lastSent[s] <= Len(log)
      /\ sub[s] \in {"replaying", "catchup"} => upto[s] <= lastSent[s] \/ upto[s] <= Len(log)
      /\ \A k \in got[s] : k <= lastSent[s] /\ k \in Nat
      /\ from[s] \in Nat /\ lastSent[s] \in Nat /\ upto[s] \in Nat
  BY <1>1 DEF PlacesInv, PlaceInv, StreamInv, SubInv
<1>3. UNCHANGED <<log, pending>>
  BY DEF Subscribe, Resubscribe, SubscriberStep, Disconnect, Replays, SendReplayed,
         Register, CatchUp, GoLive, Receive
<1>4. ASSUME NEW after \in Nat, NEW end, end = PageEnd(after, ReplayLimit)
      PROVE  /\ end <= after \/ end <= Len(log)
             /\ Len(log) <= end \/ end = after + ReplayLimit
             /\ end \in Nat
  BY <1>1, <1>4 DEF PageEnd
<1> DEFINE Places ==
             /\ from'[s] <= lastSent'[s] /\ \A k \in got'[s] : from'[s] <= k
             /\ lastSent'[s] = from'[s] \/ lastSent'[s] <= Len(log)
             /\ sub'[s] \in {"replaying", "catchup"} => upto'[s] <= lastSent'[s] \/ upto'[s] <= Len(log)
             /\ \A k : On(chan'[s], k) => On(chan[s], k)
             /\ LossExplained(s)
           Others ==
             \A t \in Subscribers : t # s =>
               /\ sub'[t] = sub[t] /\ from'[t] = from[t] /\ lastSent'[t] = lastSent[t]
               /\ upto'[t] = upto[t] /\ chan'[t] = chan[t] /\ got'[t] = got[t]
<1>5. Others
  <2>1. CASE Subscribe(s)
    BY <1>1, <2>1 DEF Subscribe, Replays
  <2>2. CASE Resubscribe(s)
    BY <1>1, <2>2 DEF Resubscribe, Replays
  <2>3. CASE SendReplayed(s)
    BY <1>1, <2>3 DEF SendReplayed, Sends
  <2>4. CASE Register(s)
    BY <1>1, <2>4 DEF Register
  <2>5. CASE CatchUp(s)
    BY <1>1, <2>5 DEF CatchUp, Replays
  <2>6. CASE GoLive(s)
    BY <1>1, <2>6 DEF GoLive
  <2>7. CASE Receive(s)
    BY <1>1, <2>7 DEF Receive, Sends
  <2>8. CASE Disconnect(s)
    BY <1>1, <2>8 DEF Disconnect
  <2> QED BY <2>1, <2>2, <2>3, <2>4, <2>5, <2>6, <2>7, <2>8 DEF SubscriberStep
<1>6. CASE Subscribe(s)
  <2>1. PICK after \in Seqs :
          /\ from' = [from EXCEPT ![s] = after]
          /\ sub' = [sub EXCEPT ![s] = "replaying"]
          /\ lastSent' = [lastSent EXCEPT ![s] = after]
          /\ upto' = [upto EXCEPT ![s] = PageEnd(after, ReplayLimit)]
    BY <1>6 DEF Subscribe, Replays
  <2>2. after \in Nat /\ chan' = chan
    BY <1>1, <1>6 DEF Seqs, Subscribe
  <2>3. /\ from'[s] = after /\ sub'[s] = "replaying" /\ lastSent'[s] = after
        /\ upto'[s] = PageEnd(after, ReplayLimit)
    BY <1>1, <2>1
  <2>4. Missing(s)' = {}
    BY <1>1, <1>3, <2>2, <2>3 DEF Missing, Ahead
  <2>5. PageEnd(after, ReplayLimit) <= after \/ PageEnd(after, ReplayLimit) <= Len(log)
    BY <1>1, <1>4, <2>2
  <2>6. got'[s] = {}
    BY <1>6 DEF Subscribe, PlacesInv, StreamInv, SubInv
  <2>7. Places
    BY <1>1, <2>2, <2>3, <2>4, <2>5, <2>6 DEF LossExplained
  <2> QED BY <1>3, <1>5, <2>7, OneSubscriber
<1>7. CASE Resubscribe(s)
  <2>1. /\ sub[s] = "gone" /\ sub'[s] = "replaying" /\ lastSent'[s] = lastSent[s]
        /\ upto'[s] = PageEnd(lastSent[s], ReplayLimit)
        /\ from' = from /\ chan' = chan /\ got' = got
    BY <1>1, <1>7 DEF Resubscribe, Replays
  <2>2. Missing(s)' = Missing(s)
    BY <1>3, <2>1 DEF Missing, Ahead
  <2>3. upto'[s] <= lastSent[s] \/ upto'[s] <= Len(log)
    BY <1>1, <1>2, <1>4, <2>1
  <2>4. Places
    BY <1>2, <2>1, <2>2, <2>3 DEF LossExplained
  <2> QED BY <1>3, <1>5, <2>4, OneSubscriber
<1>8. CASE SendReplayed(s)
  <2>1. /\ sub[s] \in {"replaying", "catchup"} /\ lastSent[s] < upto[s]
        /\ got'[s] = got[s] \union {lastSent[s] + 1} /\ lastSent'[s] = lastSent[s] + 1
        /\ sub' = sub /\ from' = from /\ upto' = upto /\ chan' = chan
    BY <1>1, <1>8 DEF SendReplayed, Sends
  <2>2. Missing(s)' \subseteq Missing(s)
    <3> SUFFICES ASSUME NEW k \in Missing(s)', k \notin Missing(s)
                 PROVE  FALSE
      OBVIOUS
    <3>1. k \in from[s] + 1 .. Len(log) /\ k \notin got[s] /\ k # lastSent[s] + 1 /\ k \notin Ahead(s)'
      BY <1>3, <2>1 DEF Missing
    <3>2. k \in Ahead(s)
      BY <3>1, NotYet
    <3>3. k > lastSent[s] + 1
      BY <1>1, <1>2, <3>1, <3>2 DEF Ahead
    <3> QED BY <1>3, <2>1, <3>1, <3>2, <3>3 DEF Ahead
  <2>3. /\ from[s] <= lastSent[s] + 1
        /\ upto[s] <= Len(log) /\ lastSent[s] + 1 <= Len(log)
        /\ \A k \in got'[s] : from[s] <= k
    BY <1>1, <1>2, <2>1
  <2>4. Places
    BY <2>1, <2>2, <2>3 DEF LossExplained
  <2> QED BY <1>3, <1>5, <2>4, OneSubscriber
<1>9. CASE Register(s)
  <2>1. /\ sub[s] = "replaying" /\ sub'[s] = "subscribed"
        /\ from' = from /\ lastSent' = lastSent /\ chan' = chan /\ got' = got
    BY <1>1, <1>9 DEF Register
  <2>2. Missing(s)' = Missing(s)
    BY <1>3, <2>1 DEF Missing, Ahead
  <2>3. Places
    BY <1>2, <2>1, <2>2 DEF LossExplained
  <2> QED BY <1>3, <1>5, <2>3, OneSubscriber
<1>10. CASE CatchUp(s)
  <2>1. /\ sub[s] = "subscribed" /\ sub'[s] = "catchup" /\ lastSent'[s] = lastSent[s]
        /\ upto'[s] = PageEnd(lastSent[s], ReplayLimit)
        /\ from' = from /\ chan' = chan /\ got' = got
    BY <1>1, <1>10 DEF CatchUp, Replays
  <2>2. LossExplained(s)
    <3> SUFFICES ASSUME NEW k \in Missing(s)', k \notin Missing(s)
                 PROVE  Beyond(s, k)
      BY DEF LossExplained
    <3>1. k \in from[s] + 1 .. Len(log) /\ k \notin got[s] /\ k \notin Ahead(s)'
      BY <1>3, <2>1 DEF Missing
    <3>2. k \in Ahead(s)
      BY <3>1, NotYet
    <3>3. k > lastSent[s] /\ ~(k <= upto'[s])
      BY <1>3, <2>1, <3>1, <3>2 DEF Ahead
    <3>4. k > upto'[s] /\ upto'[s] = lastSent[s] + ReplayLimit
      <4>1. /\ Len(log) <= upto'[s] \/ upto'[s] = lastSent[s] + ReplayLimit
            /\ upto'[s] \in Nat
        BY <1>2, <1>4, <2>1
      <4>2. k \in Nat /\ k <= Len(log)
        BY <1>1, <1>2, <3>1
      <4> QED BY <1>1, <3>3, <4>1, <4>2
    <3> QED BY <2>1, <3>4 DEF Beyond
  <2>3. upto'[s] <= lastSent[s] \/ upto'[s] <= Len(log)
    BY <1>1, <1>2, <1>4, <2>1
  <2>4. Places
    BY <1>2, <2>1, <2>2, <2>3
  <2> QED BY <1>3, <1>5, <2>4, OneSubscriber
<1>11. CASE GoLive(s)
  <2>1. /\ sub[s] = "catchup" /\ lastSent[s] >= upto[s] /\ sub'[s] = "live"
        /\ from' = from /\ lastSent' = lastSent /\ chan' = chan /\ got' = got
    BY <1>1, <1>11 DEF GoLive
  <2>2. Missing(s)' \subseteq Missing(s)
    <3> SUFFICES ASSUME NEW k \in Missing(s)', k \notin Missing(s)
                 PROVE  FALSE
      OBVIOUS
    <3>1. k \in from[s] + 1 .. Len(log) /\ k \notin got[s] /\ k \notin Ahead(s)'
      BY <1>3, <2>1 DEF Missing
    <3>2. k \in Ahead(s)
      BY <3>1, NotYet
    <3>3. k > lastSent[s] /\ ~(k <= upto[s])
      BY <1>1, <1>2, <2>1, <3>1, <3>2 DEF Ahead
    <3> QED BY <1>3, <2>1, <3>1, <3>2, <3>3 DEF Ahead
  <2>3. Places
    BY <1>2, <2>1, <2>2 DEF LossExplained
  <2> QED BY <1>3, <1>5, <2>3, OneSubscriber
<1>12. CASE Receive(s)
  <2> DEFINE h == Head(chan[s])
  <2>1. /\ sub[s] = "live" /\ chan[s] # <<>> /\ chan'[s] = Tail(chan[s])
        /\ sub' = sub /\ from' = from /\ upto' = upto
    BY <1>1, <1>12 DEF Receive
  <2>2. chan[s] \in Seq(1 .. MaxSeq)
    BY <1>1
  <2>3. \A k : On(chan[s], k) <=> On(chan'[s], k) \/ k = h
    BY <2>1, <2>2, EntriesTaken
  <2>4. h \in 1 .. Len(log) /\ h \in Nat
    <3>1. On(chan[s], h)
      BY <2>3
    <3> QED BY <3>1 DEF PlacesInv, SourceInv
  <2>5. \/ h > lastSent[s] /\ got'[s] = got[s] \union {h} /\ lastSent'[s] = h
        \/ h <= lastSent[s] /\ got'[s] = got[s] /\ lastSent'[s] = lastSent[s]
    BY <1>1, <1>12 DEF Receive, Sends
  <2> HIDE DEF h
  <2>6. LossExplained(s)
    <3> SUFFICES ASSUME NEW k \in Missing(s)', k \notin Missing(s)
                 PROVE  Overtaken(s, k)
      BY DEF LossExplained
    <3>1. k \in from[s] + 1 .. Len(log) /\ k \notin got'[s] /\ k \notin Ahead(s)'
      BY <1>3, <2>1 DEF Missing
    <3>2. k \in Ahead(s) /\ k \in Nat
      BY <1>2, <2>5, <3>1, NotYet
    <3>3. /\ k > lastSent[s]
          /\ On(chan[s], k) \/ \E p \in Publishers : k \in pending[p]
      BY <2>1, <3>2 DEF Ahead, On
    <3>4. k = h \/ ~(k > lastSent'[s])
      BY <1>3, <2>1, <2>3, <3>1, <3>3 DEF Ahead, On
    <3>5. k # h /\ lastSent'[s] = h
      BY <1>2, <2>4, <2>5, <3>1, <3>2, <3>3, <3>4
    <3>6. k < h
      BY <2>4, <3>2, <3>4, <3>5
    <3> QED BY <2>1, <3>5, <3>6 DEF Overtaken, h
  <2>7. lastSent'[s] = from[s] \/ lastSent'[s] <= Len(log)
    BY <1>1, <1>2, <2>4, <2>5
  <2>8. from[s] <= lastSent'[s] /\ \A k \in got'[s] : from[s] <= k
    BY <1>1, <1>2, <2>4, <2>5
  <2>9. Places
    BY <2>1, <2>3, <2>6, <2>7, <2>8
  <2> QED BY <1>3, <1>5, <2>9, OneSubscriber
<1>13. CASE Disconnect(s)
  <2>1. PICK n \in got[s] \union {from[s]} :
          /\ got' = [got EXCEPT ![s] = {k \in @ : k <= n}]
          /\ lastSent' = [lastSent EXCEPT ![s] = n]
    BY <1>13 DEF Disconnect
  <2>2. /\ got'[s] = {k \in got[s] : k <= n} /\ lastSent'[s] = n
        /\ sub'[s] = "gone" /\ chan'[s] = <<>> /\ from' = from
    BY <1>1, <1>13, <2>1 DEF Disconnect
  <2>3. n \in Nat /\ n <= lastSent[s]
    BY <1>2, <2>1
  <2>4. Missing(s)' \subseteq Missing(s)
    <3> SUFFICES ASSUME NEW k \in Missing(s)', k \notin Missing(s)
                 PROVE  FALSE
      OBVIOUS
    <3>1. k \in from[s] + 1 .. Len(log) /\ k \notin got'[s] /\ k \notin Ahead(s)'
      BY <1>3, <2>2 DEF Missing
    <3>2. ~(k > n) /\ k \in Nat
      BY <1>2, <1>3, <2>2, <3>1 DEF Ahead
    <3>3. k \notin got[s] /\ ~(k > lastSent[s])
      BY <1>2, <2>2, <2>3, <3>1, <3>2
    <3> QED BY <3>1, <3>3, NotYet DEF Ahead
  <2>5. from[s] <= n
    <3>1. CASE n = from[s]
      BY <1>2, <3>1
    <3>2. CASE n \in got[s]
      BY <1>2, <3>2
    <3> QED BY <2>1, <3>1, <3>2
  <2>6. \A k : ~On(chan'[s], k)
    BY <2>2 DEF On
  <2>7. Places
    BY <1>1, <1>2, <2>2, <2>3, <2>4, <2>5, <2>6 DEF LossExplained
  <2> QED BY <1>3, <1>5, <2>7, OneSubscriber
<1> QED BY <1>6, <1>7, <1>8, <1>9, <1>10, <1>11, <1>12, <1>13 DEF SubscriberStep

LEMMA PlacesNext ==
  ASSUME PlacesInv, [Next]_vars
  PROVE  PlacesInv' /\ \A s \in Subscribers : LossExplained(s)
<1>1. StreamInv'
  BY StreamNext DEF PlacesInv
<1> DEFINE Goal == PlaceInv' /\ SourceInv' /\ \A s \in Subscribers : LossExplained(s)
<1> SUFFICES Goal
  BY <1>1 DEF PlacesInv
<1>2. ASSUME UNCHANGED <<log, pending, subVars>> PROVE Goal
  <2>1. \A s \in Subscribers : Missing(s)' = Missing(s)
    BY <1>2 DEF Missing, Ahead, subVars
  <2> QED BY <1>2, <2>1 DEF PlacesInv, PlaceInv, SourceInv, LossExplained, subVars
<1>3. CASE (\E w \in Writers : WriterAppends(w)) \/ \E c \in Chats : ChatEnqueues(c) \/ ChatHangsUp(c)
  <2>1. (LogGrows \/ UNCHANGED <<log, pending>>) /\ UNCHANGED subVars
    BY <1>3, AppendSteps DEF PlacesInv
  <2> QED BY <1>2, <2>1, GrowthStep
<1>4. CASE \E p \in Publishers : Publish(p)
  BY <1>4, PublishPlaces
<1>5. CASE \E s \in Subscribers : Subscribe(s) \/ Resubscribe(s) \/ SubscriberStep(s) \/ Disconnect(s)
  BY <1>5, SubscriberPlaces
<1>6. CASE (\E c \in Chats : ChatReads(c) \/ ChatSends(c)) \/ \E l \in Listers : ListEvents(l)
  BY <1>2, <1>6 DEF ChatReads, ChatSends, ListEvents, ListLatest, ListRows
<1>7. CASE UNCHANGED vars
  BY <1>2, <1>7 DEF vars
<1> QED BY <1>3, <1>4, <1>5, <1>6, <1>7 DEF Next

\* Whatever is appended and published, and wherever a client starts and reconnects,
\* an event a subscriber is not sent was dropped at a full channel, overtaken by a
\* later one of another goroutine, or beyond a full second replay.
THEOREM LossesExplained == Spec => LostOnlyAtLimits
<1> DEFINE Explained ==
             \A s \in Subscribers : \A n \in Missing(s)' \ Missing(s) :
               Dropped(s, n) \/ Overtaken(s, n) \/ Beyond(s, n)
<1>1. PlacesInv /\ [Next]_vars => PlacesInv' /\ [Explained]_vars
  BY PlacesNext DEF LossExplained
<1>2. Spec => []PlacesInv
  BY PlacesInit, <1>1, PTL DEF Spec
<1> QED BY <1>1, <1>2, PTL DEF Spec, LostOnlyAtLimits
=============================================================================
