---------------------------- MODULE EventStream ----------------------------
(***************************************************************************)
(* The event log of one session and those who read it while it grows:      *)
(*   - goroutines that append events in a transaction and publish them on  *)
(*     the bus afterwards, with no lock in between;                        *)
(*   - SubscribeSessionEvents streams: replay, subscribe, replay again,    *)
(*     then follow the bus;                                                *)
(*   - SendMessage streams: poll the log for the run's events;             *)
(*   - ListEvents calls: two statements, the latest sequence and a page.   *)
(* An event is its sequence number, its position in the log: AppendEvent   *)
(* and appendRunEventTx number it MAX(sequence) + 1 in a transaction of    *)
(* the only database connection.                                           *)
(***************************************************************************)
EXTENDS Naturals, Sequences, FiniteSets

CONSTANTS
  Writers,      \* goroutines that append events
  Subscribers,  \* clients of SubscribeSessionEvents
  Chats,        \* SendMessage handlers; also the identities of their runs
  Listers,      \* callers of ListEvents
  None,         \* no run, or a run that is nobody's in Chats
  Buffer,       \* capacity of a subscription's channel
  ReplayLimit,  \* the LIMIT of a replay
  MaxSeq        \* bound on the number of events

ASSUME EventAssumption ==
  /\ None \notin Chats
  /\ Writers \intersect Chats = {}
  /\ Buffer \in Nat \ {0}
  /\ ReplayLimit \in Nat \ {0}
  /\ MaxSeq \in Nat

VARIABLES
  log,       \* the events of the session
  pending,   \* events a goroutine has committed and not yet published
  sub,       \* where a SubscribeSessionEvents handler is
  from,      \* the after_sequence the client started with
  lastSent,  \* lastSent of the handler
  upto,      \* the end of the replay it is sending
  chan,      \* the subscription's channel
  got,       \* events the client has been sent
  chat,      \* where a SendMessage handler is
  chatLast,  \* its lastSent
  chatUpto,  \* the end of the replay it is sending
  chatGot,   \* the events of its run it has sent
  list       \* the state of a ListEvents call

subVars  == <<sub, from, lastSent, upto, chan, got>>
chatVars == <<chat, chatLast, chatUpto, chatGot>>
vars     == <<log, pending, subVars, chatVars, list>>

Seqs       == 0 .. MaxSeq
Publishers == Writers \union Chats
Entry      == [run : Chats \union {None}, end : BOOLEAN]
SubState   == {"off", "replaying", "subscribed", "catchup", "live", "gone"}
ChatState  == {"off", "idle", "batch", "done", "gone"}
ListState  == [pc : {"idle", "rows", "done"}, after : Seqs, limit : 0 .. ReplayLimit, latest : Seqs, upto : Seqs]

TypeOK ==
  /\ log \in Seq(Entry) /\ Len(log) <= MaxSeq
  /\ pending \in [Publishers -> SUBSET (1 .. MaxSeq)]
  /\ sub \in [Subscribers -> SubState]
  /\ from \in [Subscribers -> Seqs]
  /\ lastSent \in [Subscribers -> Seqs]
  /\ upto \in [Subscribers -> Seqs]
  /\ chan \in [Subscribers -> Seq(1 .. MaxSeq)]
  /\ got \in [Subscribers -> SUBSET (1 .. MaxSeq)]
  /\ chat \in [Chats -> ChatState]
  /\ chatLast \in [Chats -> Seqs]
  /\ chatUpto \in [Chats -> Seqs]
  /\ chatGot \in [Chats -> SUBSET (1 .. MaxSeq)]
  /\ list \in [Listers -> ListState]

Init ==
  /\ log = <<>>
  /\ pending = [p \in Publishers |-> {}]
  /\ sub = [s \in Subscribers |-> "off"]
  /\ from = [s \in Subscribers |-> 0]
  /\ lastSent = [s \in Subscribers |-> 0]
  /\ upto = [s \in Subscribers |-> 0]
  /\ chan = [s \in Subscribers |-> <<>>]
  /\ got = [s \in Subscribers |-> {}]
  /\ chat = [c \in Chats |-> "off"]
  /\ chatLast = [c \in Chats |-> 0]
  /\ chatUpto = [c \in Chats |-> 0]
  /\ chatGot = [c \in Chats |-> {}]
  /\ list = [l \in Listers |-> [pc |-> "idle", after |-> 0, limit |-> 0, latest |-> 0, upto |-> 0]]

\* Mutant: the page is not cut at the end of the log.
FullPage(after, limit) == after + limit

\* ReplayEvents: the page after a sequence ends here.
PageEnd(after, limit) ==
  IF Len(log) <= after THEN after
  ELSE IF Len(log) <= after + limit THEN Len(log)
  ELSE after + limit

Ended(c) == \E n \in 1 .. Len(log) : log[n] = [run |-> c, end |-> TRUE]

(***************************************************************************)
(* Appending and publishing                                                *)
(***************************************************************************)
Commit(p, entry) ==
  /\ Len(log) < MaxSeq
  /\ log' = Append(log, entry)
  /\ pending' = [pending EXCEPT ![p] = @ \union {Len(log) + 1}]

\* message.completed and agent.run.completed, in one transaction.
CommitCompletion(p, c) ==
  /\ Len(log) + 1 < MaxSeq
  /\ log' = Append(Append(log, [run |-> c, end |-> FALSE]), [run |-> c, end |-> TRUE])
  /\ pending' = [pending EXCEPT ![p] = {Len(log) + 1, Len(log) + 2}]

\* Once a run has ended its status refuses runtime events, completion, failure
\* and cancellation; the events of its approvals and tools are not guarded.
WriterAppends(w) ==
  /\ pending[w] = {}
  /\ \/ Commit(w, [run |-> None, end |-> FALSE])
     \/ \E c \in Chats :
          /\ chat[c] # "off"
          /\ \/ Commit(w, [run |-> c, end |-> FALSE])
             \/ ~Ended(c) /\ Commit(w, [run |-> c, end |-> TRUE])
             \/ ~Ended(c) /\ CommitCompletion(w, c)
  /\ UNCHANGED <<subVars, chatVars, list>>

\* Mutant: the handler subscribes after its second replay.
RegisteredLate(s) == sub[s] = "live"

Registered(s) == sub[s] \in {"subscribed", "catchup", "live"}

\* Bus.Publish: an event is dropped at a subscriber whose channel is full.  A
\* goroutine publishes its events in order.
Publish(p) ==
  /\ \E n \in pending[p] :
       /\ \A k \in pending[p] : n <= k
       /\ pending' = [pending EXCEPT ![p] = @ \ {n}]
       /\ chan' = [s \in Subscribers |->
            IF Registered(s) /\ Len(chan[s]) < Buffer THEN Append(chan[s], n) ELSE chan[s]]
  /\ UNCHANGED <<log, sub, from, lastSent, upto, got, chatVars, list>>

(***************************************************************************)
(* SubscribeSessionEvents                                                  *)
(***************************************************************************)
Replays(s, after, pc) ==
  /\ sub' = [sub EXCEPT ![s] = pc]
  /\ lastSent' = [lastSent EXCEPT ![s] = after]
  /\ upto' = [upto EXCEPT ![s] = PageEnd(after, ReplayLimit)]
  /\ UNCHANGED <<log, pending, chatVars, list>>

\* A client starts after any sequence.
Subscribe(s) ==
  /\ sub[s] = "off"
  /\ \E after \in Seqs :
       /\ from' = [from EXCEPT ![s] = after]
       /\ Replays(s, after, "replaying")
  /\ UNCHANGED <<chan, got>>

\* It reconnects after the last sequence it has seen.
Resubscribe(s) ==
  /\ sub[s] = "gone"
  /\ Replays(s, lastSent[s], "replaying")
  /\ UNCHANGED <<from, chan, got>>

Sends(s, n) ==
  /\ got' = [got EXCEPT ![s] = @ \union {n}]
  /\ lastSent' = [lastSent EXCEPT ![s] = n]

SendReplayed(s) ==
  /\ sub[s] \in {"replaying", "catchup"} /\ lastSent[s] < upto[s]
  /\ Sends(s, lastSent[s] + 1)
  /\ UNCHANGED <<log, pending, sub, from, upto, chan, chatVars, list>>

\* Bus.Subscribe
Register(s) ==
  /\ sub[s] = "replaying" /\ lastSent[s] >= upto[s]
  /\ sub' = [sub EXCEPT ![s] = "subscribed"]
  /\ UNCHANGED <<log, pending, from, lastSent, upto, chan, got, chatVars, list>>

CatchUp(s) ==
  /\ sub[s] = "subscribed"
  /\ Replays(s, lastSent[s], "catchup")
  /\ UNCHANGED <<from, chan, got>>

GoLive(s) ==
  /\ sub[s] = "catchup" /\ lastSent[s] >= upto[s]
  /\ sub' = [sub EXCEPT ![s] = "live"]
  /\ UNCHANGED <<log, pending, from, lastSent, upto, chan, got, chatVars, list>>

\* Mutant: an event from the bus is sent whatever its sequence.
ReceiveAll(s) ==
  /\ sub[s] = "live" /\ chan[s] # <<>>
  /\ chan' = [chan EXCEPT ![s] = Tail(@)]
  /\ Sends(s, Head(chan[s]))
  /\ UNCHANGED <<log, pending, sub, from, upto, chatVars, list>>

Receive(s) ==
  /\ sub[s] = "live" /\ chan[s] # <<>>
  /\ chan' = [chan EXCEPT ![s] = Tail(@)]
  /\ \/ Head(chan[s]) > lastSent[s] /\ Sends(s, Head(chan[s]))
     \/ Head(chan[s]) <= lastSent[s] /\ UNCHANGED <<got, lastSent>>
  /\ UNCHANGED <<log, pending, sub, from, upto, chatVars, list>>

\* The stream breaks: what was in flight is lost, and the client keeps the last
\* sequence it has seen.
Disconnect(s) ==
  /\ sub[s] \notin {"off", "gone"}
  /\ \E n \in got[s] \union {from[s]} :
       /\ got' = [got EXCEPT ![s] = {k \in @ : k <= n}]
       /\ lastSent' = [lastSent EXCEPT ![s] = n]
  /\ sub' = [sub EXCEPT ![s] = "gone"]
  /\ chan' = [chan EXCEPT ![s] = <<>>]
  /\ UNCHANGED <<log, pending, from, upto, chatVars, list>>

SubscriberStep(s) ==
  SendReplayed(s) \/ Register(s) \/ CatchUp(s) \/ GoLive(s) \/ Receive(s)

(***************************************************************************)
(* SendMessage.  What it receives from the bus only wakes it up, and so    *)
(* does its ticker: the subscription is left out.                          *)
(***************************************************************************)

\* The queued event is appended, published and sent as RunQueued.
ChatEnqueues(c) ==
  /\ chat[c] = "off"
  /\ Commit(c, [run |-> c, end |-> FALSE])
  /\ chat' = [chat EXCEPT ![c] = "idle"]
  /\ chatLast' = [chatLast EXCEPT ![c] = Len(log) + 1]
  /\ chatGot' = [chatGot EXCEPT ![c] = {Len(log) + 1}]
  /\ UNCHANGED <<subVars, chatUpto, list>>

\* A wake-up of streamAvailableEvents that finds something.  (After a full page
\* it reads again without waiting.)
ChatReads(c) ==
  /\ chat[c] = "idle" /\ pending[c] = {}
  /\ PageEnd(chatLast[c], ReplayLimit) > chatLast[c]
  /\ chatUpto' = [chatUpto EXCEPT ![c] = PageEnd(chatLast[c], ReplayLimit)]
  /\ chat' = [chat EXCEPT ![c] = "batch"]
  /\ UNCHANGED <<log, pending, subVars, chatLast, chatGot, list>>

Own(c, n) == log[n].run = c

\* Mutant: lastSent is advanced by the events of the run only.
ChatSendsOwn(c) ==
  LET own == {n \in chatLast[c] + 1 .. chatUpto[c] : Own(c, n)}
  IN  /\ chat[c] = "batch"
      /\ chatGot' = [chatGot EXCEPT ![c] = @ \union own]
      /\ chatLast' = [chatLast EXCEPT ![c] =
           IF own = {} THEN @ ELSE CHOOSE n \in own : \A k \in own : k <= n]
      /\ chat' = [chat EXCEPT ![c] = IF \E n \in own : log[n].end THEN "done" ELSE "idle"]
      /\ UNCHANGED <<log, pending, subVars, chatUpto, list>>

\* Mutant: the loop goes on after a terminal event.
ChatSendsOn(c) ==
  LET n == chatLast[c] + 1
  IN  /\ chat[c] = "batch"
      /\ chatLast' = [chatLast EXCEPT ![c] = n]
      /\ chatGot' = [chatGot EXCEPT ![c] = IF Own(c, n) THEN @ \union {n} ELSE @]
      /\ chat' = [chat EXCEPT ![c] =
           IF n < chatUpto[c] THEN "batch"
           ELSE IF \E k \in 1 .. n : log[k] = [run |-> c, end |-> TRUE] THEN "done" ELSE "idle"]
      /\ UNCHANGED <<log, pending, subVars, chatUpto, list>>

\* The next event of the page: an event of another run is passed over, a
\* terminal event of the run ends the stream.
ChatSends(c) ==
  LET n == chatLast[c] + 1
  IN  /\ chat[c] = "batch"
      /\ chatLast' = [chatLast EXCEPT ![c] = n]
      /\ chatGot' = [chatGot EXCEPT ![c] = IF Own(c, n) THEN @ \union {n} ELSE @]
      /\ chat' = [chat EXCEPT ![c] =
           IF Own(c, n) /\ log[n].end THEN "done"
           ELSE IF n < chatUpto[c] THEN "batch" ELSE "idle"]
      /\ UNCHANGED <<log, pending, subVars, chatUpto, list>>

\* The client goes away; the run is cancelled if it has not ended.
ChatHangsUp(c) ==
  /\ chat[c] \in {"idle", "batch"} /\ pending[c] = {}
  /\ \/ ~Ended(c) /\ Commit(c, [run |-> c, end |-> TRUE])
     \/ Ended(c) /\ UNCHANGED <<log, pending>>
  /\ chat' = [chat EXCEPT ![c] = "gone"]
  /\ UNCHANGED <<subVars, chatLast, chatUpto, chatGot, list>>

(***************************************************************************)
(* ListEvents: SELECT MAX(sequence), then the page, in no transaction.     *)
(***************************************************************************)
ListLatest(l) ==
  /\ list[l].pc # "rows"
  /\ \E after \in Seqs, limit \in 1 .. ReplayLimit :
       list' = [list EXCEPT ![l] =
         [pc |-> "rows", after |-> after, limit |-> limit, latest |-> Len(log), upto |-> after]]
  /\ UNCHANGED <<log, pending, subVars, chatVars>>

ListRows(l) ==
  /\ list[l].pc = "rows"
  /\ list' = [list EXCEPT ![l] =
       [pc |-> "done", after |-> @.after, limit |-> @.limit, latest |-> @.latest,
        upto |-> PageEnd(@.after, @.limit)]]
  /\ UNCHANGED <<log, pending, subVars, chatVars>>

\* Mutant: the page is read first.
ListsSwapped(l) ==
  \/ /\ list[l].pc # "rows"
     /\ \E after \in Seqs, limit \in 1 .. ReplayLimit :
          list' = [list EXCEPT ![l] =
            [pc |-> "rows", after |-> after, limit |-> limit, latest |-> 0, upto |-> PageEnd(after, limit)]]
     /\ UNCHANGED <<log, pending, subVars, chatVars>>
  \/ /\ list[l].pc = "rows"
     /\ list' = [list EXCEPT ![l].pc = "done", ![l].latest = Len(log)]
     /\ UNCHANGED <<log, pending, subVars, chatVars>>

ListEvents(l) == ListLatest(l) \/ ListRows(l)

Next ==
  \/ \E w \in Writers : WriterAppends(w)
  \/ \E p \in Publishers : Publish(p)
  \/ \E s \in Subscribers : Subscribe(s) \/ Resubscribe(s) \/ SubscriberStep(s) \/ Disconnect(s)
  \/ \E c \in Chats : ChatEnqueues(c) \/ ChatReads(c) \/ ChatSends(c) \/ ChatHangsUp(c)
  \/ \E l \in Listers : ListEvents(l)

Spec == Init /\ [][Next]_vars

\* The goroutines run; a SendMessage handler has a ticker.
Fairness ==
  /\ \A p \in Publishers : WF_vars(Publish(p))
  /\ \A c \in Chats : WF_vars(ChatReads(c)) /\ WF_vars(ChatSends(c))

FairSpec == Spec /\ Fairness

(***************************************************************************)
(* Properties                                                              *)
(***************************************************************************)

\* A subscriber never gets an event twice nor after a later one, although the
\* replays overlap what the bus delivers and goroutines publish in any order.
InOrder ==
  [][\A s \in Subscribers :
       \A n \in got'[s] \ got[s], k \in got[s] : k < n]_vars

\* Events that a subscriber will still be sent as things stand: the replays to
\* come and the rest of the second one, its channel, and what is not published yet.
Ahead(s) ==
  {n \in from[s] + 1 .. Len(log) :
     /\ n > lastSent[s]
     /\ \/ sub[s] \notin {"catchup", "live"}
        \/ sub[s] = "catchup" /\ n <= upto[s]
        \/ \E i \in DOMAIN chan[s] : chan[s][i] = n
        \/ \E p \in Publishers : n \in pending[p]}

\* Events that it has not been sent and never will be, while it stays connected.
Missing(s) == (from[s] + 1 .. Len(log)) \ (got[s] \union Ahead(s))

\* The three ways to lose an event: it is published when the channel is full, it
\* is overtaken by a later one that another goroutine has published before it, or
\* the second replay is a full page and it lies beyond.
Dropped(s, n)   == Len(chan[s]) >= Buffer /\ \E p \in Publishers : n \in pending[p] \ pending'[p]
Overtaken(s, n) == sub[s] = "live" /\ chan[s] # <<>> /\ n < Head(chan[s]) /\ lastSent'[s] = Head(chan[s])
Beyond(s, n)    == sub[s] = "subscribed" /\ n > upto'[s] /\ upto'[s] = lastSent[s] + ReplayLimit

\* Between replay, subscription, catch-up and bus no event falls through, whatever
\* is appended and published meanwhile and wherever the client reconnects: one that
\* a subscriber is not sent is lost in one of the three ways.
LostOnlyAtLimits ==
  [][\A s \in Subscribers : \A n \in Missing(s)' \ Missing(s) :
       Dropped(s, n) \/ Overtaken(s, n) \/ Beyond(s, n)]_vars

\* A SendMessage stream has every event of its run up to its position, though
\* other runs' events fill its pages and the bus drops what it likes; it ends
\* with the run's first terminal event, and with that only.
ChatComplete ==
  \A c \in Chats : chat[c] # "off" =>
    /\ chatGot[c] = {n \in 1 .. chatLast[c] : Own(c, n)}
    /\ \A n \in chatGot[c] : log[n].end => n = chatLast[c] /\ chat[c] \in {"done", "gone"}
    /\ chat[c] = "done" => log[chatLast[c]] = [run |-> c, end |-> TRUE]

\* A page that is not full holds every event up to the latest_sequence that
\* came with it, whatever is appended between the two statements.
PageComplete ==
  \A l \in Listers : list[l].pc = "done" =>
    \/ list[l].upto >= list[l].latest
    \/ list[l].upto = list[l].after + list[l].limit

\* The stream of a run that has ended ends.
ChatEndStreamed ==
  \A c \in Chats : Ended(c) ~> (chat[c] \in {"done", "gone"})

\* "If the replay gap is available, the orchestrator sends missed events. If the
\* gap is too large, it instructs the client to refetch".
GapNeverSilent ==
  \A s \in Subscribers : got[s] = from[s] + 1 .. lastSent[s]
=============================================================================
