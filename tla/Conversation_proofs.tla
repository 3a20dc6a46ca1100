------------------------- MODULE Conversation_proofs -------------------------
(***************************************************************************)
(* Theorems about the messages of a session, for any number of runs, any   *)
(* size of the history and any number of attempts: what a worker puts to   *)
(* its model, and that the answer stored is the one that was heard.        *)
(***************************************************************************)
EXTENDS Conversation, SequenceTheorems, WellFoundedInduction, TLAPS

(***************************************************************************)
(* Spelling                                                                *)
(***************************************************************************)
LEMMA Spelling ==
  /\ MapEventType["message.started"] = "MESSAGE_STARTED"
  /\ MapEventType["message.delta"] = "MESSAGE_DELTA"
  /\ MapEventType["message.completed"] = "MESSAGE_COMPLETED"
  /\ MapEventType["agent.run.queued"] = "AGENT_RUN_QUEUED"
  /\ MapEventType["agent.run.started"] = "AGENT_RUN_STARTED"
  /\ MapEventType["agent.run.completed"] = "AGENT_RUN_COMPLETED"
  /\ MapEventType["agent.run.failed"] = "AGENT_RUN_FAILED"
  /\ MapEventType["agent.run.cancelled"] = "AGENT_RUN_CANCELLED"
BY DEF EventTypes, MapEventType

LEMMA SpeltBack ==
  /\ RuntimeEventType("MESSAGE_STARTED") = "message.started"
  /\ RuntimeEventType("MESSAGE_DELTA") = "message.delta"
<1>1. \A type \in EventTypes :
        /\ MapEventType[type] = "MESSAGE_STARTED" <=> type = "message.started"
        /\ MapEventType[type] = "MESSAGE_DELTA" <=> type = "message.delta"
  BY Spelling DEF EventTypes
<1>2. "message.started" \in EventTypes /\ "message.delta" \in EventTypes
  BY DEF EventTypes
<1> QED
  BY <1>1, <1>2 DEF RuntimeEventType

(***************************************************************************)
(* Types                                                                   *)
(***************************************************************************)
StoredSet == [type : EventTypes, text : Text]
SentSet   == [type : SentTypes, text : Text]

LEMMA EventTyped ==
  ASSUME NEW type, NEW text \in Text
  PROVE  /\ type \in EventTypes => Event(type, text) \in StoredSet
         /\ type \in SentTypes => Event(type, text) \in SentSet
         /\ Event(type, text).type = type /\ Event(type, text).text = text
BY DEF Event, StoredSet, SentSet

LEMMA EmptyText == <<>> \in Text
BY DEF Text

\* What is handled is a sent update of a run that exists.
LEMMA HeadTyped ==
  ASSUME ConversationTypeOK, NEW r \in Asked, NEW type, Handles(r, type)
  PROVE  /\ wire[r] \in Seq(SentSet) /\ wire[r] # <<>>
         /\ Head(wire[r]) = wire[r][1] /\ Head(wire[r]) \in SentSet
         /\ Tail(wire[r]) \in Seq(SentSet)
         /\ Head(wire[r]).text \in Text /\ Head(wire[r]).type = type
         /\ stage[r] = "running"
<1>1. wire[r] \in Seq(SentSet) /\ wire[r] # <<>>
  BY DEF ConversationTypeOK, Handles, SentSet
<1>2. Head(wire[r]) \in SentSet /\ Tail(wire[r]) \in Seq(SentSet)
  BY <1>1, HeadTailProperties
<1>3. Head(wire[r]) = wire[r][1]
  BY <1>1
<1>4. Head(wire[r]).text \in Text
  BY <1>2 DEF SentSet
<1> QED
  BY <1>1, <1>2, <1>3, <1>4 DEF Handles

\* Appending well typed events to a run keeps the type.
LEMMA AppendsTyped ==
  ASSUME ConversationTypeOK, NEW r \in Asked, NEW type \in EventTypes, NEW text \in Text,
         Appends(r, type, text)
  PROVE  events' \in [Asked -> Seq(StoredSet)]
<1>1. Event(type, text) \in StoredSet
  BY EventTyped
<1>2. events[r] \in Seq(StoredSet) /\ events \in [Asked -> Seq(StoredSet)]
  BY DEF ConversationTypeOK, StoredSet
<1>3. Append(events[r], Event(type, text)) \in Seq(StoredSet)
  BY <1>1, <1>2, AppendProperties
<1> QED
  BY <1>2, <1>3 DEF Appends

LEMMA DismissedTyped ==
  ASSUME ConversationTypeOK, NEW r \in Asked, Dismissed(r)
  PROVE  /\ speaker' \in [Asked -> SpeakerSet] /\ prompt' \in [Asked -> Seq(MessageSet)]
         /\ content' \in [Asked -> Text] /\ try' \in [Asked -> 0 .. MaxTries]
         /\ wire' \in [Asked -> Seq(SentSet)]
<1>1. "idle" \in SpeakerSet /\ <<>> \in Text /\ <<>> \in Seq(MessageSet)
      /\ <<>> \in Seq(SentSet)
  BY EmptyText, EmptySeq DEF SpeakerSet
<1> QED
  BY <1>1 DEF Dismissed, ConversationTypeOK, SentSet

(***************************************************************************)
(* Loops over a sequence                                                   *)
(***************************************************************************)
\* A set of natural numbers has a least one.
LEMMA LeastOf ==
  ASSUME NEW S, S \subseteq Nat, S # {}
  PROVE  \E x \in S : \A y \in S : x <= y
<1> DEFINE less == OpToRel(<, Nat)
<1>1. \A x, y \in Nat : <<y, x>> \in less <=> y < x
  BY DEF OpToRel
<1>2. IsWellFoundedOn(less, Nat)
  BY NatLessThanWellFounded DEF OpToRel
<1> HIDE DEF less
<1>3. PICK x \in S : \A y \in S : ~(<<y, x>> \in less)
  BY <1>2, WFMin
<1>4. ASSUME NEW y \in S PROVE x <= y
  <2>1. x \in Nat /\ y \in Nat
    OBVIOUS
  <2>2. ~(y < x)
    BY <1>1, <1>3, <2>1
  <2> QED
    BY <2>1, <2>2
<1> QED
  BY <1>4

\* The first n elements of a sequence, from the last one back.
LastFirst(got, n) == [i \in 1 .. n |-> got[Len(got) + 1 - i]]

LEMMA LastFirstGrows ==
  ASSUME NEW S, NEW got \in Seq(S), NEW n \in 1 .. Len(got)
  PROVE  LastFirst(got, n) = Append(LastFirst(got, n - 1), got[Len(got) + 1 - n])
<1>1. \A i \in 1 .. n : got[Len(got) + 1 - i] \in S
  OBVIOUS
<1>2. n \in Nat /\ n - 1 \in Nat
  OBVIOUS
<1>3. /\ LastFirst(got, n - 1) \in Seq(S) /\ Len(LastFirst(got, n - 1)) = n - 1
      /\ LastFirst(got, n) \in Seq(S) /\ Len(LastFirst(got, n)) = n
      /\ \A i \in 1 .. n : LastFirst(got, n)[i] = got[Len(got) + 1 - i]
      /\ \A i \in 1 .. n - 1 : LastFirst(got, n - 1)[i] = got[Len(got) + 1 - i]
  BY <1>1, <1>2 DEF LastFirst
<1> HIDE DEF LastFirst
<1> DEFINE longer == Append(LastFirst(got, n - 1), got[Len(got) + 1 - n])
<1>4. got[Len(got) + 1 - n] \in S
  BY <1>1
<1>5. /\ longer \in Seq(S) /\ Len(longer) = n /\ longer[n] = got[Len(got) + 1 - n]
      /\ \A i \in 1 .. n - 1 : longer[i] = LastFirst(got, n - 1)[i]
  BY <1>2, <1>3, <1>4, AppendProperties
<1> HIDE DEF longer
<1>6. ASSUME NEW i \in 1 .. n PROVE LastFirst(got, n)[i] = longer[i]
  <2>1. LastFirst(got, n)[i] = got[Len(got) + 1 - i]
    BY <1>3
  <2>2. CASE i = n
    BY <1>5, <2>1, <2>2
  <2>3. CASE i # n
    <3>1. i \in 1 .. n - 1
      BY <1>2, <2>3
    <3> QED
      BY <1>3, <1>5, <2>1, <3>1
  <2> QED
    BY <2>2, <2>3
<1>7. LastFirst(got, n) = longer
  BY <1>3, <1>5, <1>6, SeqEqual
<1> QED
  BY <1>7 DEF longer

\* What FetchMessages returns: all that it got, the other way round.
LEMMA FetchedIs ==
  ASSUME NEW got \in Seq(MessageSet)
  PROVE  FetchMessages(got) = LastFirst(got, Len(got))
<1> DEFINE Nth(n) == got[Len(got) + 1 - n]
           Next2(out, n) == IF n = 0 THEN <<>>
                            ELSE IF ChatRole(Nth(n)) THEN Append(out[n - 1], Nth(n)) ELSE out[n - 1]
           Out(out) == out = [n \in 0 .. Len(got) |-> Next2(out, n)]
           all == [n \in 0 .. Len(got) |-> LastFirst(got, n)]
<1>1. \A n \in 1 .. Len(got) : ChatRole(Nth(n))
  <2>1. \A message \in MessageSet : ChatRole(message)
    BY DEF MessageSet, Roles, ChatRole
  <2>2. \A n \in 1 .. Len(got) : Nth(n) \in MessageSet
    OBVIOUS
  <2> QED
    BY <2>1, <2>2
<1>2. LastFirst(got, 0) = <<>>
  BY DEF LastFirst
<1>3. ASSUME NEW n \in 0 .. Len(got) PROVE all[n] = Next2(all, n)
  <2>1. CASE n = 0
    BY <1>2, <2>1
  <2>2. CASE n # 0
    <3>1. n \in 1 .. Len(got) /\ n - 1 \in 0 .. Len(got)
      BY <2>2
    <3>2. all[n - 1] = LastFirst(got, n - 1) /\ all[n] = LastFirst(got, n)
      BY <3>1
    <3> HIDE DEF all
    <3>3. all[n] = Append(all[n - 1], Nth(n))
      BY <3>1, <3>2, LastFirstGrows
    <3> QED
      BY <1>1, <2>2, <3>1, <3>3
  <2> QED
    BY <2>1, <2>2
<1>4. Out(all)
  <2>1. all = [n \in 0 .. Len(got) |-> all[n]]
    OBVIOUS
  <2> HIDE DEF all, Nth
  <2> QED
    BY <1>3, <2>1
<1>5. PICK out : out = (CHOOSE o : Out(o)) /\ Out(out)
  <2> HIDE DEF Out
  <2> QED
    BY <1>4
<1>6. FetchMessages(got) = out[Len(got)]
  BY <1>5 DEF FetchMessages
<1>7. \A n \in 0 .. Len(got) : out[n] = Next2(out, n)
  <2> HIDE DEF Next2
  <2> QED
    BY <1>5
<1> DEFINE bad == {n \in 0 .. Len(got) : out[n] # LastFirst(got, n)}
<1>8. ASSUME bad # {} PROVE FALSE
  <2>1. PICK n \in bad : \A m \in bad : n <= m
    <3>1. bad \subseteq Nat
      OBVIOUS
    <3> HIDE DEF bad
    <3> QED
      BY <1>8, <3>1, LeastOf
  <2>2. n # 0
    BY <1>2, <1>7, <2>1
  <2>3. n \in 1 .. Len(got) /\ n - 1 \in 0 .. Len(got) /\ n - 1 < n /\ ~(n <= n - 1)
    BY <2>1, <2>2
  <2>4. out[n - 1] = LastFirst(got, n - 1)
    BY <2>1, <2>3
  <2>5. out[n] = Append(out[n - 1], Nth(n))
    BY <1>1, <1>7, <2>2, <2>3
  <2>6. out[n] = LastFirst(got, n)
    BY <2>3, <2>4, <2>5, LastFirstGrows
  <2> QED
    BY <2>1, <2>6
<1>9. Len(got) \in 0 .. Len(got)
  OBVIOUS
<1> QED
  BY <1>6, <1>8, <1>9

LEMMA ListedIs ==
  ASSUME ConversationTypeOK, NEW limit \in Nat \ {0}
  PROVE  LET got == ListMessages(limit)
             k   == IF Len(messages) > limit THEN Len(messages) - limit ELSE 0
         IN  /\ got \in Seq(MessageSet) /\ Len(got) = Len(messages) - k /\ k \in 0 .. Len(messages)
             /\ k = 0 \/ Len(got) = limit
             /\ \A i \in 1 .. Len(got) : got[i] = messages[k + i]
<1> DEFINE k == IF Len(messages) > limit THEN Len(messages) - limit ELSE 0
           got == ListMessages(limit)
<1>1. messages \in Seq(MessageSet) /\ Len(messages) \in Nat
  BY DEF ConversationTypeOK
<1>2. k \in 0 .. Len(messages)
  BY <1>1
<1>3. got = SubSeq(messages, k + 1, Len(messages))
  BY <1>1 DEF ListMessages
<1>4. \A i \in k + 1 .. Len(messages) : messages[i] \in MessageSet
  BY <1>1, <1>2
<1>5. /\ got \in Seq(MessageSet)
      /\ Len(got) = IF k + 1 <= Len(messages) THEN Len(messages) - (k + 1) + 1 ELSE 0
      /\ \A i \in 1 .. Len(messages) - (k + 1) + 1 : got[i] = messages[k + 1 + i - 1]
  <2>1. k + 1 \in Int /\ Len(messages) \in Int
    BY <1>1, <1>2
  <2> HIDE DEF k, got
  <2> QED
    BY <1>3, <1>4, <2>1, SubSeqProperties
<1>6. k = 0 \/ Len(messages) - k = limit
  BY <1>1
<1> HIDE DEF k, got
<1>7. Len(got) = Len(messages) - k
  BY <1>1, <1>2, <1>5
<1>8. \A i \in 1 .. Len(got) : got[i] = messages[k + i]
  BY <1>1, <1>2, <1>5, <1>7
<1> QED
  BY <1>2, <1>5, <1>6, <1>7, <1>8 DEF k, got

(***************************************************************************)
(* The steps keep the types                                                *)
(***************************************************************************)
\* The types, under the names used here.
LEMMA Types ==
  ASSUME ConversationTypeOK
  PROVE  /\ messages \in Seq(MessageSet) /\ Len(messages) \in Nat
         /\ DOMAIN messages = 1 .. Len(messages) /\ messages = [i \in 1 .. Len(messages) |-> messages[i]]
         /\ \A i \in 1 .. Len(messages) :
              /\ messages[i] \in MessageSet /\ messages[i].run \in Asked
              /\ messages[i].role \in Roles /\ messages[i].text \in Text
         /\ stage \in [Asked -> StageSet] /\ try \in [Asked -> 0 .. MaxTries]
         /\ speaker \in [Asked -> SpeakerSet] /\ prompt \in [Asked -> Seq(MessageSet)]
         /\ content \in [Asked -> Text] /\ wire \in [Asked -> Seq(SentSet)]
         /\ events \in [Asked -> Seq(StoredSet)]
<1>1. messages \in Seq(MessageSet)
  BY DEF ConversationTypeOK
<1>2. \A i \in 1 .. Len(messages) : messages[i] \in MessageSet
  BY <1>1
<1>3. \A m \in MessageSet : m.run \in Asked /\ m.role \in Roles /\ m.text \in Text
  BY DEF MessageSet
<1>4. Len(messages) \in Nat /\ DOMAIN messages = 1 .. Len(messages)
      /\ messages = [i \in 1 .. Len(messages) |-> messages[i]]
  BY <1>1
<1> QED
  BY <1>1, <1>2, <1>3, <1>4 DEF ConversationTypeOK, SentSet, StoredSet

LEMMA Typed ==
  ASSUME /\ messages \in Seq(MessageSet)
         /\ stage \in [Asked -> StageSet] /\ try \in [Asked -> 0 .. MaxTries]
         /\ speaker \in [Asked -> SpeakerSet] /\ prompt \in [Asked -> Seq(MessageSet)]
         /\ content \in [Asked -> Text] /\ wire \in [Asked -> Seq(SentSet)]
         /\ events \in [Asked -> Seq(StoredSet)]
  PROVE  ConversationTypeOK
BY DEF ConversationTypeOK, SentSet, StoredSet

\* EnqueueUserMessage adds two messages.
LEMMA AskedMessages ==
  ASSUME ConversationTypeOK, NEW r \in Asked, EnqueueUserMessage(r)
  PROVE  /\ messages' \in Seq(MessageSet) /\ Len(messages') = Len(messages) + 2
         /\ \A i \in 1 .. Len(messages) : messages'[i] = messages[i]
         /\ messages'[Len(messages) + 1] = [run |-> r, role |-> "user", text |-> <<>>]
         /\ messages'[Len(messages) + 2] = [run |-> r, role |-> "assistant", text |-> <<>>]
<1> DEFINE new == <<[run |-> r, role |-> "user", text |-> <<>>],
                    [run |-> r, role |-> "assistant", text |-> <<>>]>>
<1>1. messages' = messages \o new
  BY DEF EnqueueUserMessage, Question
<1>2. new[1] \in MessageSet /\ new[2] \in MessageSet
  BY EmptyText DEF MessageSet, Roles
<1>3. new \in Seq(MessageSet) /\ Len(new) = 2
  BY <1>2
<1>4. /\ new[1] = [run |-> r, role |-> "user", text |-> <<>>]
      /\ new[2] = [run |-> r, role |-> "assistant", text |-> <<>>]
  OBVIOUS
<1> HIDE DEF new
<1>5. messages \in Seq(MessageSet) /\ Len(messages) \in Nat
  BY Types
<1>6. /\ messages' \in Seq(MessageSet) /\ Len(messages') = Len(messages) + 2
      /\ \A i \in 1 .. Len(messages) + 2 :
           messages'[i] = IF i <= Len(messages) THEN messages[i] ELSE new[i - Len(messages)]
  <2>1. /\ messages \o new \in Seq(MessageSet) /\ Len(messages \o new) = Len(messages) + Len(new)
        /\ \A i \in 1 .. Len(messages) + Len(new) :
             (messages \o new)[i] = IF i <= Len(messages) THEN messages[i] ELSE new[i - Len(messages)]
    BY <1>3, <1>5, ConcatProperties
  <2> QED
    BY <1>1, <1>3, <2>1
<1>7. /\ messages'[Len(messages) + 1] = new[1] /\ messages'[Len(messages) + 2] = new[2]
      /\ \A i \in 1 .. Len(messages) : messages'[i] = messages[i]
  BY <1>5, <1>6
<1> QED
  BY <1>4, <1>6, <1>7

\* CompleteRun changes the text of the run's answer.
LEMMA AnsweredMessages ==
  ASSUME ConversationTypeOK, NEW r \in Asked, CompleteRun(r)
  PROVE  /\ messages' \in Seq(MessageSet) /\ Len(messages') = Len(messages)
         /\ \A i \in 1 .. Len(messages) :
              /\ messages'[i].run = messages[i].run /\ messages'[i].role = messages[i].role
              /\ messages'[i].text = IF messages[i].run = r /\ messages[i].role = "assistant"
                                       THEN Head(wire[r]).text ELSE messages[i].text
<1> DEFINE said == Head(wire[r]).text
           new(m) == IF m.run = r /\ m.role = "assistant" THEN [m EXCEPT !.text = said] ELSE m
<1>1. said \in Text
  BY HeadTyped DEF CompleteRun
<1>2. messages \in Seq(MessageSet) /\ Len(messages) \in Nat /\ DOMAIN messages = 1 .. Len(messages)
      /\ \A i \in 1 .. Len(messages) : messages[i] \in MessageSet
  BY Types
<1>3. messages' = [i \in 1 .. Len(messages) |-> new(messages[i])]
  BY <1>2 DEF CompleteRun
<1> HIDE DEF said
<1>4. ASSUME NEW m \in MessageSet
      PROVE  /\ new(m) \in MessageSet /\ new(m).run = m.run /\ new(m).role = m.role
             /\ new(m).text = IF m.run = r /\ m.role = "assistant" THEN said ELSE m.text
  BY <1>1 DEF MessageSet
<1> HIDE DEF new
<1>5. messages' \in Seq(MessageSet) /\ Len(messages') = Len(messages)
      /\ \A i \in 1 .. Len(messages) : messages'[i] = new(messages[i])
  BY <1>2, <1>3, <1>4
<1> QED
  BY <1>2, <1>4, <1>5 DEF said

LEMMA TypesInitially == ConversationInit => ConversationTypeOK
<1> SUFFICES ASSUME ConversationInit PROVE ConversationTypeOK
  OBVIOUS
<1>1. /\ <<>> \in Seq(MessageSet) /\ <<>> \in Seq(SentSet) /\ <<>> \in Seq(StoredSet)
      /\ "none" \in StageSet /\ "idle" \in SpeakerSet /\ 0 \in 0 .. MaxTries
  BY ConversationAssumption DEF StageSet, SpeakerSet
<1> QED
  BY <1>1, EmptyText, Typed DEF ConversationInit

\* An agent that works on a run works on an attempt of it.
Tried == \A r \in Asked : speaker[r] # "idle" => try[r] # 0

LEMMA TypesKept ==
  ASSUME ConversationTypeOK, Tried, [ConversationNext]_conversationVars
  PROVE  ConversationTypeOK'
<1>1. /\ messages \in Seq(MessageSet)
      /\ stage \in [Asked -> StageSet] /\ try \in [Asked -> 0 .. MaxTries]
      /\ speaker \in [Asked -> SpeakerSet] /\ prompt \in [Asked -> Seq(MessageSet)]
      /\ content \in [Asked -> Text] /\ wire \in [Asked -> Seq(SentSet)]
      /\ events \in [Asked -> Seq(StoredSet)]
  BY Types
<1> DEFINE Goal == /\ messages' \in Seq(MessageSet)
                   /\ stage' \in [Asked -> StageSet] /\ try' \in [Asked -> 0 .. MaxTries]
                   /\ speaker' \in [Asked -> SpeakerSet] /\ prompt' \in [Asked -> Seq(MessageSet)]
                   /\ content' \in [Asked -> Text] /\ wire' \in [Asked -> Seq(SentSet)]
                   /\ events' \in [Asked -> Seq(StoredSet)]
<1>2. ASSUME NEW r \in Asked, EnqueueUserMessage(r) PROVE Goal
  <2>1. messages' \in Seq(MessageSet)
    BY <1>2, AskedMessages
  <2>2. events' \in [Asked -> Seq(StoredSet)]
    BY <1>2, AppendsTyped, EmptyText DEF EnqueueUserMessage, EventTypes
  <2> QED
    BY <1>1, <1>2, <2>1, <2>2 DEF EnqueueUserMessage, StageSet, speakerVars
<1>3. ASSUME NEW r \in Asked, ClaimRun(r) PROVE Goal
  <2>1. events' \in [Asked -> Seq(StoredSet)]
    BY <1>3, AppendsTyped, EmptyText DEF ClaimRun, EventTypes
  <2>2. try' \in [Asked -> 0 .. MaxTries]
    BY <1>1, <1>3, ConversationAssumption DEF ClaimRun
  <2> QED
    BY <1>1, <1>3, <2>1, <2>2 DEF ClaimRun, StageSet, SpeakerSet
<1>4. ASSUME NEW r \in Asked, AppendRuntimeEvent(r) PROVE Goal
  <2>1. PICK type \in {"MESSAGE_STARTED", "MESSAGE_DELTA"} : Handles(r, type)
    BY <1>4 DEF AppendRuntimeEvent
  <2>2. /\ Head(wire[r]).text \in Text /\ Head(wire[r]).type = type /\ Tail(wire[r]) \in Seq(SentSet)
    BY <2>1, HeadTyped
  <2>3. RuntimeEventType(Head(wire[r]).type) \in EventTypes
    BY <2>1, <2>2, SpeltBack DEF EventTypes
  <2>4. events' \in [Asked -> Seq(StoredSet)]
    BY <1>4, <2>2, <2>3, AppendsTyped DEF AppendRuntimeEvent
  <2> QED
    BY <1>1, <1>4, <2>2, <2>4 DEF AppendRuntimeEvent, speakerVars
<1>5. ASSUME NEW r \in Asked, CompleteRun(r) PROVE Goal
  <2>1. messages' \in Seq(MessageSet)
    BY <1>5, AnsweredMessages
  <2>2. Head(wire[r]).text \in Text
    BY <1>5, HeadTyped DEF CompleteRun
  <2> DEFINE end == <<Event("message.completed", Head(wire[r]).text), Event("agent.run.completed", <<>>)>>
  <2>3. end \in Seq(StoredSet)
    <3>1. /\ Event("message.completed", Head(wire[r]).text) \in StoredSet
          /\ Event("agent.run.completed", <<>>) \in StoredSet
      BY <2>2, EmptyText, EventTyped DEF EventTypes
    <3> QED
      BY <3>1
  <2>4. events' = [events EXCEPT ![r] = @ \o end]
    BY <1>5 DEF CompleteRun
  <2> HIDE DEF end
  <2>5. events' \in [Asked -> Seq(StoredSet)]
    <3>1. events[r] \o end \in Seq(StoredSet)
      BY <1>1, <2>3, ConcatProperties
    <3> QED
      BY <1>1, <2>4, <3>1
  <2>6. Dismissed(r) /\ stage' \in [Asked -> StageSet]
    BY <1>1, <1>5 DEF CompleteRun, StageSet
  <2> QED
    BY <2>1, <2>5, <2>6, DismissedTyped
<1>6. ASSUME NEW r \in Asked, FailRun(r) PROVE Goal
  <2>1. events' \in [Asked -> Seq(StoredSet)]
    BY <1>6, AppendsTyped, EmptyText DEF FailRun, EventTypes
  <2>2. Dismissed(r) /\ stage' \in [Asked -> StageSet] /\ messages' = messages
    BY <1>1, <1>6 DEF FailRun, StageSet
  <2> QED
    BY <1>1, <2>1, <2>2, DismissedTyped
<1>7. ASSUME NEW r \in Asked, CancelRun(r) PROVE Goal
  <2>1. events' \in [Asked -> Seq(StoredSet)]
    BY <1>7, AppendsTyped, EmptyText DEF CancelRun, EventTypes
  <2> QED
    BY <1>1, <1>7, <2>1 DEF CancelRun, StageSet, speakerVars
<1>8. ASSUME NEW r \in Asked, LoseWorker(r) PROVE Goal
  <2>1. Dismissed(r) /\ stage' \in [Asked -> StageSet] /\ messages' = messages /\ events' = events
    BY <1>1, <1>8 DEF LoseWorker, StageSet
  <2> QED
    BY <1>1, <2>1, DismissedTyped
<1>9. ASSUME NEW r \in Asked, FetchHistory(r) PROVE Goal
  <2> DEFINE got == ListMessages(History)
             question == [run |-> r, role |-> "user", text |-> Question]
  <2>1. got \in Seq(MessageSet) /\ Len(got) \in Nat
    BY ListedIs, ConversationAssumption
  <2>2. question \in MessageSet
    BY EmptyText DEF MessageSet, Roles, Question
  <2>3. FetchMessages(got) \in Seq(MessageSet)
    <3> HIDE DEF got
    <3>1. \A i \in 1 .. Len(got) : got[Len(got) + 1 - i] \in MessageSet
      BY <2>1
    <3>2. LastFirst(got, Len(got)) \in Seq(MessageSet)
      BY <2>1, <3>1 DEF LastFirst
    <3> QED
      BY <2>1, <3>2, FetchedIs
  <2>4. Append(FetchMessages(got), question) \in Seq(MessageSet)
    BY <2>2, <2>3, AppendProperties
  <2>5. prompt' = [prompt EXCEPT ![r] = Append(FetchMessages(got), question)]
    BY <1>9 DEF FetchHistory
  <2> HIDE DEF got, question
  <2>6. prompt' \in [Asked -> Seq(MessageSet)]
    BY <1>1, <2>4, <2>5
  <2> QED
    BY <1>1, <1>9, <2>6 DEF FetchHistory, Steps, SpeakerSet
<1>10. ASSUME NEW r \in Asked, NEW type \in SentTypes, NEW text \in Text, Says(r, type, text)
       PROVE  wire' \in [Asked -> Seq(SentSet)]
  <2>1. Append(wire[r], Event(type, text)) \in Seq(SentSet)
    BY <1>1, EventTyped, AppendProperties
  <2> QED
    BY <1>1, <1>10, <2>1 DEF Says
<1>11. ASSUME NEW r \in Asked, SayStarted(r) PROVE Goal
  <2>1. wire' \in [Asked -> Seq(SentSet)]
    BY <1>10, <1>11, EmptyText DEF SayStarted, SentTypes
  <2> QED
    BY <1>1, <1>11, <2>1 DEF SayStarted, Steps, SpeakerSet
<1>12. ASSUME NEW r \in Asked, SayDelta(r) PROVE Goal
  <2>5. try[r] \in Piece
    <3>1. try[r] \in 0 .. MaxTries /\ try[r] # 0 /\ MaxTries \in Nat
      BY <1>1, <1>12, ConversationAssumption DEF Tried, SayDelta, Steps
    <3> QED
      BY <3>1 DEF Piece
  <2>1. <<try[r]>> \in Text
    BY <2>5 DEF Text
  <2>2. wire' \in [Asked -> Seq(SentSet)]
    BY <1>10, <1>12, <2>1 DEF SayDelta, SentTypes
  <2>3. Append(content[r], try[r]) \in Text
    BY <1>1, <2>5, AppendProperties DEF Text
  <2>4. content' \in [Asked -> Text]
    BY <1>1, <1>12, <2>3 DEF SayDelta
  <2> QED
    BY <1>1, <1>12, <2>2, <2>4 DEF SayDelta, Steps, SpeakerSet
<1>13. ASSUME NEW r \in Asked, SayEnd(r) PROVE Goal
  <2>1. content[r] \in Text
    BY <1>1
  <2>2. wire' \in [Asked -> Seq(SentSet)]
    <3>1. CASE Says(r, "run_completed", content[r])
      BY <1>10, <2>1, <3>1 DEF SentTypes
    <3>2. CASE Says(r, "run_failed", <<>>)
      BY <1>10, <3>2, EmptyText DEF SentTypes
    <3> QED
      BY <1>13, <3>1, <3>2 DEF SayEnd
  <2> QED
    BY <1>1, <1>13, <2>2 DEF SayEnd, Steps, SpeakerSet
<1>14. ASSUME UNCHANGED conversationVars PROVE Goal
  BY <1>1, <1>14 DEF conversationVars, speakerVars
<1>15. Goal
  BY <1>2, <1>3, <1>4, <1>5, <1>6, <1>7, <1>8, <1>9, <1>11, <1>12, <1>13, <1>14
     DEF ConversationNext
<1> QED
  BY <1>15 DEF ConversationTypeOK, SentSet, StoredSet

LEMMA TriedKept ==
  ASSUME ConversationTypeOK, Tried, [ConversationNext]_conversationVars
  PROVE  Tried'
<1>1. speaker \in [Asked -> SpeakerSet] /\ try \in [Asked -> 0 .. MaxTries]
  BY Types
<1>2. CASE \E r \in Asked : ClaimRun(r)
  BY <1>1, <1>2, ConversationAssumption DEF ClaimRun, Tried
<1>3. CASE \E r \in Asked : CompleteRun(r) \/ FailRun(r) \/ LoseWorker(r)
  BY <1>1, <1>3 DEF CompleteRun, FailRun, LoseWorker, Dismissed, Tried
<1>4. CASE \E r \in Asked : FetchHistory(r) \/ SayStarted(r) \/ SayDelta(r) \/ SayEnd(r)
  BY <1>1, <1>4 DEF FetchHistory, SayStarted, SayDelta, SayEnd, Steps, Tried
<1>5. CASE \/ UNCHANGED conversationVars
           \/ \E r \in Asked : EnqueueUserMessage(r) \/ AppendRuntimeEvent(r) \/ CancelRun(r)
  BY <1>5 DEF EnqueueUserMessage, AppendRuntimeEvent, CancelRun, speakerVars, conversationVars, Tried
<1> QED
  BY <1>2, <1>3, <1>4, <1>5 DEF ConversationNext

LEMMA TypesAlways == ConversationSpec => [](ConversationTypeOK /\ Tried)
<1>1. ConversationInit => ConversationTypeOK /\ Tried
  BY TypesInitially DEF ConversationInit, Tried
<1>2. ConversationTypeOK /\ Tried /\ [ConversationNext]_conversationVars => (ConversationTypeOK /\ Tried)'
  BY TypesKept, TriedKept
<1> QED
  BY <1>1, <1>2, PTL DEF ConversationSpec

\* Messages, events, updates, prompts and answers have their types (ConversationTypeOK).
THEOREM ConversationTypeCorrect == ConversationSpec => []ConversationTypeOK
BY TypesAlways, PTL

(***************************************************************************)
(* The rows, and what a worker reads of them                               *)
(***************************************************************************)
\* What a worker has, by where it is in its work, and by the status of the run.
Working ==
  \A r \in Asked :
    /\ stage[r] \in {"none", "queued", "completed", "failed"} => speaker[r] = "idle"
    /\ stage[r] = "running" => speaker[r] # "idle"
    /\ speaker[r] \in {"idle", "fetch"} => prompt[r] = <<>>
    /\ speaker[r] \in {"idle", "fetch", "start"} => wire[r] = <<>> /\ content[r] = <<>>

\* A run has a question and, behind it, its answer, which is empty until the run
\* has completed.
Rows ==
  /\ \A i, j \in 1 .. Len(messages) :
       messages[i].run = messages[j].run /\ messages[i].role = messages[j].role => i = j
  /\ \A r \in Asked : stage[r] # "none" =>
       \E i \in 1 .. Len(messages) - 1 :
         /\ messages[i].run = r /\ messages[i].role = "user"
         /\ messages[i + 1].run = r /\ messages[i + 1].role = "assistant"
  /\ \A i \in 1 .. Len(messages) :
       /\ stage[messages[i].run] # "none"
       /\ messages[i].text # <<>> =>
            messages[i].role = "assistant" /\ stage[messages[i].run] = "completed"

\* The prompt of a run is a window that ends at k + n.
Window(r, n, k) ==
  /\ n \in Nat /\ Len(prompt[r]) = n + 1
  /\ prompt[r][n + 1] = [run |-> r, role |-> "user", text |-> Question]
  /\ k \in 0 .. Len(messages) /\ k + n <= Len(messages)
  /\ k = 0 \/ n = History
  /\ \A i \in 1 .. Len(messages) :
       messages[i].run = r /\ messages[i].role = "user" => i + 1 <= k + n
  /\ \A i \in 1 .. n :
       /\ prompt[r][n + 1 - i].run = messages[k + i].run
       /\ prompt[r][n + 1 - i].role = messages[k + i].role
       /\ prompt[r][n + 1 - i].text \in {<<>>, messages[k + i].text}
       /\ prompt[r][n + 1 - i].run = r => prompt[r][n + 1 - i].text = <<>>

Windows == \A r \in Asked : prompt[r] # <<>> => \E n \in Nat, k \in Nat : Window(r, n, k)

LEMMA WorkingKept ==
  ASSUME ConversationTypeOK, Working, [ConversationNext]_conversationVars
  PROVE  Working'
<1>1. /\ stage \in [Asked -> StageSet] /\ speaker \in [Asked -> SpeakerSet]
      /\ prompt \in [Asked -> Seq(MessageSet)]
      /\ content \in [Asked -> Text] /\ wire \in [Asked -> Seq(SentSet)]
  BY Types
<1>2. CASE \E r \in Asked : EnqueueUserMessage(r) \/ ClaimRun(r) \/ CancelRun(r)
  BY <1>1, <1>2 DEF EnqueueUserMessage, ClaimRun, CancelRun, speakerVars, Working
<1>3. ASSUME NEW r \in Asked, Handles(r, Head(wire[r]).type) PROVE speaker[r] \in {"talk", "sent"}
  BY <1>1, <1>3 DEF Handles, Working, SpeakerSet
<1>4. ASSUME NEW r \in Asked, AppendRuntimeEvent(r) PROVE Working'
  <2>1. speaker[r] \in {"talk", "sent"}
    BY <1>3, <1>4 DEF AppendRuntimeEvent, Handles
  <2> QED
    BY <1>1, <1>4, <2>1 DEF AppendRuntimeEvent, speakerVars, Working
<1>5. CASE \E r \in Asked : CompleteRun(r) \/ FailRun(r) \/ LoseWorker(r)
  <2>1. PICK r \in Asked : CompleteRun(r) \/ FailRun(r) \/ LoseWorker(r)
    BY <1>5
  <2>2. Dismissed(r) /\ stage'[r] # "running" /\ \A q \in Asked : q # r => stage'[q] = stage[q]
    BY <1>1, <2>1 DEF CompleteRun, FailRun, LoseWorker, StageSet
  <2> QED
    BY <1>1, <2>2 DEF Dismissed, Working
<1>6. CASE \E r \in Asked : FetchHistory(r)
  BY <1>1, <1>6 DEF FetchHistory, Steps, Working
<1>7. CASE \E r \in Asked : SayStarted(r) \/ SayEnd(r)
  BY <1>1, <1>7 DEF SayStarted, SayEnd, Says, Steps, Working
<1>8. CASE \E r \in Asked : SayDelta(r)
  BY <1>1, <1>8 DEF SayDelta, Says, Steps, Working
<1>9. CASE UNCHANGED conversationVars
  BY <1>9 DEF conversationVars, speakerVars, Working
<1> QED
  BY <1>2, <1>4, <1>5, <1>6, <1>7, <1>8, <1>9 DEF ConversationNext

\* The status of a run that steps: never back to none, and never off completed.
LEMMA StageMoves ==
  ASSUME ConversationTypeOK, ConversationNext
  PROVE  \A r \in Asked :
           /\ stage[r] # "none" => stage'[r] # "none"
           /\ stage[r] = "completed" => stage'[r] = "completed"
<1>1. stage \in [Asked -> StageSet]
  BY Types
<1> QED
  BY <1>1 DEF ConversationNext, EnqueueUserMessage, ClaimRun, AppendRuntimeEvent, CompleteRun,
     FailRun, CancelRun, LoseWorker, FetchHistory, SayStarted, SayDelta, SayEnd, Handles, StageSet

LEMMA RowsKept ==
  ASSUME ConversationTypeOK, Working, Rows, [ConversationNext]_conversationVars
  PROVE  Rows'
<1>1. /\ Len(messages) \in Nat /\ stage \in [Asked -> StageSet] /\ messages \in Seq(MessageSet)
      /\ \A i \in 1 .. Len(messages) : messages[i].run \in Asked /\ messages[i].role \in Roles
  BY Types
<1>2. ASSUME NEW r \in Asked, EnqueueUserMessage(r) PROVE Rows'
  <2> DEFINE n == Len(messages)
  <2>1. /\ messages' \in Seq(MessageSet) /\ Len(messages') = n + 2
        /\ \A i \in 1 .. n : messages'[i] = messages[i]
        /\ messages'[n + 1] = [run |-> r, role |-> "user", text |-> <<>>]
        /\ messages'[n + 2] = [run |-> r, role |-> "assistant", text |-> <<>>]
    BY <1>2, AskedMessages
  <2>2. stage[r] = "none" /\ stage' = [stage EXCEPT ![r] = "queued"]
    BY <1>2 DEF EnqueueUserMessage
  <2>3. \A i \in 1 .. n : messages[i].run # r
    BY <2>2 DEF Rows
  <2>4. /\ messages'[n + 1].run = r /\ messages'[n + 1].role = "user" /\ messages'[n + 1].text = <<>>
        /\ messages'[n + 2].run = r /\ messages'[n + 2].role = "assistant" /\ messages'[n + 2].text = <<>>
    BY <2>1
  <2>5. \A i \in 1 .. Len(messages') : i \in 1 .. n \/ i = n + 1 \/ i = n + 2
    BY <1>1, <2>1
  <2>6. n \in Nat /\ n + 1 # n + 2 /\ n + 1 \in 1 .. Len(messages') - 1 /\ n + 1 + 1 = n + 2
        /\ 1 .. n \subseteq 1 .. Len(messages') /\ 1 .. n - 1 \subseteq 1 .. Len(messages') - 1
        /\ \A i \in 1 .. n - 1 : i \in 1 .. n /\ i + 1 \in 1 .. n
    BY <1>1, <2>1
  <2> HIDE DEF n
  <2>7. ASSUME NEW i \in 1 .. Len(messages'), NEW j \in 1 .. Len(messages'),
               messages'[i].run = messages'[j].run, messages'[i].role = messages'[j].role
        PROVE  i = j
    <3>1. CASE i \in 1 .. n /\ j \in 1 .. n
      BY <2>1, <2>7, <3>1 DEF Rows, n
    <3>2. CASE i \in 1 .. n /\ j \in {n + 1, n + 2}
      BY <2>1, <2>3, <2>4, <2>7, <3>2
    <3>3. CASE j \in 1 .. n /\ i \in {n + 1, n + 2}
      BY <2>1, <2>3, <2>4, <2>7, <3>3
    <3>4. CASE i \in {n + 1, n + 2} /\ j \in {n + 1, n + 2}
      BY <2>4, <2>7, <3>4
    <3> QED
      BY <2>5, <3>1, <3>2, <3>3, <3>4
  <2>8. ASSUME NEW q \in Asked, stage'[q] # "none"
        PROVE  \E i \in 1 .. Len(messages') - 1 :
                 /\ messages'[i].run = q /\ messages'[i].role = "user"
                 /\ messages'[i + 1].run = q /\ messages'[i + 1].role = "assistant"
    <3>1. CASE q = r
      BY <2>4, <2>6, <3>1
    <3>2. CASE q # r
      <4>1. stage[q] # "none"
        BY <1>1, <2>2, <2>8, <3>2
      <4>2. PICK i \in 1 .. n - 1 :
              /\ messages[i].run = q /\ messages[i].role = "user"
              /\ messages[i + 1].run = q /\ messages[i + 1].role = "assistant"
        BY <4>1 DEF Rows, n
      <4> QED
        BY <2>1, <2>6, <4>2
    <3> QED
      BY <3>1, <3>2
  <2>9. ASSUME NEW i \in 1 .. Len(messages')
        PROVE  /\ stage'[messages'[i].run] # "none"
               /\ messages'[i].text # <<>> =>
                    messages'[i].role = "assistant" /\ stage'[messages'[i].run] = "completed"
    <3>1. CASE i \in 1 .. n
      BY <1>1, <2>1, <2>2, <2>3, <3>1 DEF Rows, n
    <3>2. CASE i \in {n + 1, n + 2}
      BY <1>1, <2>2, <2>4, <3>2
    <3> QED
      BY <2>5, <3>1, <3>2
  <2> QED
    BY <2>7, <2>8, <2>9 DEF Rows
<1>3. ASSUME NEW r \in Asked, CompleteRun(r) PROVE Rows'
  <2>1. /\ Len(messages') = Len(messages)
        /\ \A i \in 1 .. Len(messages) :
             /\ messages'[i].run = messages[i].run /\ messages'[i].role = messages[i].role
             /\ messages'[i].text = IF messages[i].run = r /\ messages[i].role = "assistant"
                                      THEN Head(wire[r]).text ELSE messages[i].text
    BY <1>3, AnsweredMessages
  <2>2. stage' = [stage EXCEPT ![r] = "completed"] /\ stage[r] = "running"
    BY <1>3 DEF CompleteRun, Handles
  <2>3. \A i \in 1 .. Len(messages) - 1 : i \in 1 .. Len(messages) /\ i + 1 \in 1 .. Len(messages)
    BY <1>1
  <2>4. \A q \in Asked : stage'[q] # "none" => stage[q] # "none"
    BY <1>1, <2>2
  <2>5. ASSUME NEW i \in 1 .. Len(messages)
        PROVE  /\ stage'[messages'[i].run] # "none"
               /\ messages'[i].text # <<>> =>
                    messages'[i].role = "assistant" /\ stage'[messages'[i].run] = "completed"
    <3>1. messages[i].run \in Asked /\ stage[messages[i].run] # "none"
          /\ (messages[i].text # <<>> =>
                 messages[i].role = "assistant" /\ stage[messages[i].run] = "completed")
      BY <1>1 DEF Rows
    <3>2. CASE messages[i].run = r /\ messages[i].role = "assistant"
      BY <1>1, <2>1, <2>2, <3>1, <3>2
    <3>3. CASE ~(messages[i].run = r /\ messages[i].role = "assistant")
      BY <1>1, <2>1, <2>2, <3>1, <3>3
    <3> QED
      BY <3>2, <3>3
  <2>6. ASSUME NEW q \in Asked, stage'[q] # "none"
        PROVE  \E i \in 1 .. Len(messages) - 1 :
                 /\ messages'[i].run = q /\ messages'[i].role = "user"
                 /\ messages'[i + 1].run = q /\ messages'[i + 1].role = "assistant"
    <3>1. PICK i \in 1 .. Len(messages) - 1 :
            /\ messages[i].run = q /\ messages[i].role = "user"
            /\ messages[i + 1].run = q /\ messages[i + 1].role = "assistant"
      BY <2>4, <2>6 DEF Rows
    <3> QED
      BY <2>1, <2>3, <3>1
  <2>7. \A i, j \in 1 .. Len(messages) :
          messages'[i].run = messages'[j].run /\ messages'[i].role = messages'[j].role => i = j
    BY <2>1 DEF Rows
  <2> QED
    BY <2>1, <2>5, <2>6, <2>7 DEF Rows
<1>4. CASE UNCHANGED conversationVars
  BY <1>4 DEF conversationVars, Rows
<1>5. ASSUME ConversationNext, messages' = messages, \A r \in Asked : stage'[r] # "none" => stage[r] # "none"
      PROVE  Rows'
  <2>1. \A r \in Asked : /\ stage[r] # "none" => stage'[r] # "none"
                         /\ stage[r] = "completed" => stage'[r] = "completed"
    BY <1>5, StageMoves
  <2> QED
    BY <1>1, <1>5, <2>1 DEF Rows
<1>6. ASSUME NEW r \in Asked,
             \/ ClaimRun(r) \/ AppendRuntimeEvent(r) \/ FailRun(r) \/ CancelRun(r) \/ LoseWorker(r)
             \/ FetchHistory(r) \/ SayStarted(r) \/ SayDelta(r) \/ SayEnd(r)
      PROVE  messages' = messages /\ \A q \in Asked : stage'[q] # "none" => stage[q] # "none"
  BY <1>1, <1>6 DEF ClaimRun, AppendRuntimeEvent, FailRun, CancelRun, LoseWorker, FetchHistory,
     SayStarted, SayDelta, SayEnd, Handles
<1> QED
  BY <1>2, <1>3, <1>4, <1>5, <1>6 DEF ConversationNext

\* A message that is fetched is one of the last rows, newest first.
LEMMA FetchedWindow ==
  ASSUME ConversationTypeOK, Working, Rows, NEW r \in Asked, FetchHistory(r)
  PROVE  \E n \in Nat, k \in Nat : Window(r, n, k)'
<1> DEFINE got == ListMessages(History)
           question == [run |-> r, role |-> "user", text |-> Question]
           k == IF Len(messages) > History THEN Len(messages) - History ELSE 0
           n == Len(got)
           fetched == LastFirst(got, n)
<1>1. /\ messages \in Seq(MessageSet) /\ Len(messages) \in Nat /\ prompt \in [Asked -> Seq(MessageSet)]
      /\ \A i \in 1 .. Len(messages) : messages[i].run \in Asked /\ messages[i].text \in Text
  BY Types
<1>2. /\ got \in Seq(MessageSet) /\ n = Len(messages) - k /\ k \in 0 .. Len(messages)
      /\ k = 0 \/ n = History
      /\ \A i \in 1 .. n : got[i] = messages[k + i]
  BY ListedIs, ConversationAssumption
<1> HIDE DEF got, k
<1>3. n \in Nat /\ k \in Nat
  BY <1>1, <1>2
<1>4. /\ fetched \in Seq(MessageSet) /\ Len(fetched) = n
      /\ \A i \in 1 .. n : fetched[n + 1 - i] = got[i]
  <2> HIDE DEF n
  <2>0. n = Len(got)
    BY DEF n
  <2>1. \A i \in 1 .. n : got[n + 1 - i] \in MessageSet
    BY <1>2, <1>3, <2>0
  <2>2. \A i \in 1 .. n : n + 1 - i \in 1 .. n /\ n + 1 - (n + 1 - i) = i
    BY <1>3
  <2>3. fetched = [i \in 1 .. n |-> got[n + 1 - i]]
    BY <2>0 DEF LastFirst
  <2> HIDE DEF fetched
  <2> QED
    BY <1>3, <2>1, <2>2, <2>3
<1>5. question \in MessageSet
  BY EmptyText DEF MessageSet, Roles, Question
<1>6. prompt'[r] = Append(fetched, question)
  BY <1>1, <1>2, FetchedIs DEF FetchHistory, got
<1> HIDE DEF fetched, question, n
<1>7. /\ Len(prompt'[r]) = n + 1 /\ prompt'[r][n + 1] = question
      /\ \A i \in 1 .. n : prompt'[r][i] = fetched[i]
  BY <1>4, <1>5, <1>6, AppendProperties
<1>8. \A i \in 1 .. n : n + 1 - i \in 1 .. n /\ k + i \in 1 .. Len(messages)
  BY <1>2, <1>3, <1>1
<1>9. \A i \in 1 .. n : prompt'[r][n + 1 - i] = messages[k + i]
  BY <1>2, <1>4, <1>7, <1>8
<1>10. messages' = messages /\ speaker[r] = "fetch"
  BY DEF FetchHistory, Steps
<1>11. stage[r] # "completed" /\ stage[r] # "none"
  BY <1>10 DEF Working
<1>12. \A i \in 1 .. Len(messages) : messages[i].run = r => messages[i].text = <<>>
  BY <1>11 DEF Rows
<1>13. ASSUME NEW i \in 1 .. Len(messages), messages[i].run = r, messages[i].role = "user"
       PROVE  i + 1 <= k + n
  <2>1. PICK j \in 1 .. Len(messages) - 1 : messages[j].run = r /\ messages[j].role = "user"
    BY <1>11 DEF Rows
  <2>2. j \in 1 .. Len(messages)
    BY <1>1
  <2>3. i = j
    BY <1>13, <2>1, <2>2 DEF Rows
  <2> QED
    BY <1>1, <1>2, <1>3, <2>3 DEF n
<1>14. k \in 0 .. Len(messages) /\ k + n <= Len(messages)
  BY <1>1, <1>2, <1>3 DEF n
<1>15. k = 0 \/ n = History
  BY <1>2 DEF n
<1>16. PICK size \in Nat, from \in Nat : size = n /\ from = k
  BY <1>3
<1>17. \A i \in 1 .. size :
         /\ prompt'[r][size + 1 - i].run = messages'[from + i].run
         /\ prompt'[r][size + 1 - i].role = messages'[from + i].role
         /\ prompt'[r][size + 1 - i].text \in {<<>>, messages'[from + i].text}
         /\ prompt'[r][size + 1 - i].run = r => prompt'[r][size + 1 - i].text = <<>>
  BY <1>8, <1>9, <1>10, <1>12, <1>16
<1>18. \A i \in 1 .. Len(messages') :
         messages'[i].run = r /\ messages'[i].role = "user" => i + 1 <= from + size
  BY <1>10, <1>13, <1>16
<1>19. /\ Len(prompt'[r]) = size + 1
       /\ prompt'[r][size + 1] = [run |-> r, role |-> "user", text |-> Question]
       /\ from \in 0 .. Len(messages') /\ from + size <= Len(messages')
       /\ from = 0 \/ size = History
  BY <1>7, <1>10, <1>14, <1>15, <1>16 DEF question
<1>20. Window(r, size, from)'
  BY <1>17, <1>18, <1>19 DEF Window
<1> QED
  BY <1>20

LEMMA WindowsKept ==
  ASSUME ConversationTypeOK, Working, Rows, Windows, [ConversationNext]_conversationVars
  PROVE  Windows'
<1>1. /\ Len(messages) \in Nat /\ prompt \in [Asked -> Seq(MessageSet)]
      /\ \A i \in 1 .. Len(messages) : messages[i].run \in Asked /\ messages[i].role \in Roles
  BY Types
<1>2. ASSUME NEW q \in Asked, prompt'[q] = prompt[q], messages' = messages,
             prompt'[q] # <<>>
      PROVE  \E n \in Nat, k \in Nat : Window(q, n, k)'
  <2>1. PICK n \in Nat, k \in Nat : Window(q, n, k)
    BY <1>2 DEF Windows
  <2>2. Window(q, n, k)'
    BY <1>2, <2>1 DEF Window
  <2> QED
    BY <2>2
<1>3. ASSUME messages' = messages, prompt' = prompt PROVE Windows'
  BY <1>2, <1>3 DEF Windows
<1>4. ASSUME NEW r \in Asked, EnqueueUserMessage(r) PROVE Windows'
  <2>1. /\ Len(messages') = Len(messages) + 2
        /\ \A i \in 1 .. Len(messages) : messages'[i] = messages[i]
        /\ messages'[Len(messages) + 1] = [run |-> r, role |-> "user", text |-> <<>>]
        /\ messages'[Len(messages) + 2] = [run |-> r, role |-> "assistant", text |-> <<>>]
    BY <1>4, AskedMessages
  <2>2. prompt' = prompt /\ stage[r] = "none"
    BY <1>4 DEF EnqueueUserMessage, speakerVars
  <2>3. prompt[r] = <<>>
    BY <2>2 DEF Working
  <2>4. ASSUME NEW q \in Asked, prompt'[q] # <<>> PROVE \E n \in Nat, k \in Nat : Window(q, n, k)'
    <3>1. PICK n \in Nat, k \in Nat : Window(q, n, k)
      BY <2>2, <2>4 DEF Windows
    <3>2. q # r
      BY <2>2, <2>3, <2>4
    <3>3. ASSUME NEW i \in 1 .. Len(messages'), messages'[i].run = q
          PROVE  i \in 1 .. Len(messages) /\ messages'[i] = messages[i]
      <4>1. i \in 1 .. Len(messages) \/ i = Len(messages) + 1 \/ i = Len(messages) + 2
        BY <1>1, <2>1
      <4> QED
        BY <2>1, <3>2, <3>3, <4>1
    <3>4. \A i \in 1 .. n : k + i \in 1 .. Len(messages)
      BY <1>1, <3>1 DEF Window
    <3>5. k \in 0 .. Len(messages') /\ k + n <= Len(messages')
      BY <1>1, <2>1, <3>1 DEF Window
    <3>6. Window(q, n, k)'
      BY <2>1, <2>2, <3>1, <3>3, <3>4, <3>5 DEF Window
    <3> QED
      BY <3>6
  <2> QED
    BY <2>4 DEF Windows
<1>5. ASSUME NEW r \in Asked, CompleteRun(r) PROVE Windows'
  <2>1. /\ Len(messages') = Len(messages)
        /\ \A i \in 1 .. Len(messages) :
             /\ messages'[i].run = messages[i].run /\ messages'[i].role = messages[i].role
             /\ messages'[i].text = IF messages[i].run = r /\ messages[i].role = "assistant"
                                      THEN Head(wire[r]).text ELSE messages[i].text
    BY <1>5, AnsweredMessages
  <2>2. prompt' = [prompt EXCEPT ![r] = <<>>] /\ stage[r] = "running"
    BY <1>5 DEF CompleteRun, Dismissed, Handles
  <2>3. \A i \in 1 .. Len(messages) : messages[i].run = r => messages[i].text = <<>>
    BY <2>2 DEF Rows
  <2>4. ASSUME NEW q \in Asked, prompt'[q] # <<>> PROVE \E n \in Nat, k \in Nat : Window(q, n, k)'
    <3>1. q # r /\ prompt'[q] = prompt[q]
      BY <1>1, <2>2, <2>4
    <3>2. PICK n \in Nat, k \in Nat : Window(q, n, k)
      BY <2>4, <3>1 DEF Windows
    <3>3. \A i \in 1 .. n : k + i \in 1 .. Len(messages)
      BY <1>1, <3>2 DEF Window
    <3>4. ASSUME NEW i \in 1 .. n
          PROVE  /\ prompt'[q][n + 1 - i].run = messages'[k + i].run
                 /\ prompt'[q][n + 1 - i].role = messages'[k + i].role
                 /\ prompt'[q][n + 1 - i].text \in {<<>>, messages'[k + i].text}
                 /\ prompt'[q][n + 1 - i].run = q => prompt'[q][n + 1 - i].text = <<>>
      <4>1. /\ prompt[q][n + 1 - i].run = messages[k + i].run
            /\ prompt[q][n + 1 - i].role = messages[k + i].role
            /\ prompt[q][n + 1 - i].text \in {<<>>, messages[k + i].text}
            /\ prompt[q][n + 1 - i].run = q => prompt[q][n + 1 - i].text = <<>>
        BY <3>2 DEF Window
      <4>2. prompt[q][n + 1 - i].text \in {<<>>, messages'[k + i].text}
        BY <2>1, <2>3, <3>3, <4>1
      <4> QED
        BY <2>1, <3>1, <3>3, <4>1, <4>2
    <3>5. \A i \in 1 .. Len(messages') :
            messages'[i].run = q /\ messages'[i].role = "user" => i + 1 <= k + n
      BY <2>1, <3>2 DEF Window
    <3>6. Window(q, n, k)'
      BY <2>1, <3>1, <3>2, <3>4, <3>5 DEF Window
    <3> QED
      BY <3>6
  <2> QED
    BY <2>4 DEF Windows
<1>6. ASSUME NEW r \in Asked, FailRun(r) \/ LoseWorker(r) PROVE Windows'
  <2>1. prompt' = [prompt EXCEPT ![r] = <<>>] /\ messages' = messages
    BY <1>6 DEF FailRun, LoseWorker, Dismissed
  <2> QED
    BY <1>1, <1>2, <2>1 DEF Windows
<1>7. ASSUME NEW r \in Asked, FetchHistory(r) PROVE Windows'
  <2>1. messages' = messages /\ \A q \in Asked : q # r => prompt'[q] = prompt[q]
    BY <1>1, <1>7 DEF FetchHistory
  <2>2. \E n \in Nat, k \in Nat : Window(r, n, k)'
    BY <1>7, FetchedWindow
  <2> QED
    BY <1>2, <2>1, <2>2 DEF Windows
<1>8. CASE \/ UNCHANGED conversationVars
           \/ \E r \in Asked : ClaimRun(r) \/ AppendRuntimeEvent(r) \/ CancelRun(r)
                               \/ SayStarted(r) \/ SayDelta(r) \/ SayEnd(r)
  BY <1>3, <1>8 DEF ClaimRun, AppendRuntimeEvent, CancelRun, SayStarted, SayDelta, SayEnd,
     speakerVars, conversationVars
<1> QED
  BY <1>4, <1>5, <1>6, <1>7, <1>8 DEF ConversationNext

ReadInv == ConversationTypeOK /\ Tried /\ Working /\ Rows /\ Windows

LEMMA ReadAlways == ConversationSpec => []ReadInv
<1>1. ConversationInit => ReadInv
  <2> SUFFICES ASSUME ConversationInit PROVE ReadInv
    OBVIOUS
  <2>1. ConversationTypeOK
    BY TypesInitially
  <2>2. Tried /\ Working /\ Windows
    BY DEF ConversationInit, Tried, Working, Windows
  <2>3. Rows
    BY DEF ConversationInit, Rows
  <2> QED
    BY <2>1, <2>2, <2>3 DEF ReadInv
<1>2. ReadInv /\ [ConversationNext]_conversationVars => ReadInv'
  BY TypesKept, TriedKept, WorkingKept, RowsKept, WindowsKept DEF ReadInv
<1> QED
  BY <1>1, <1>2, PTL DEF ConversationSpec

LEMMA WindowSeen ==
  ASSUME ReadInv
  PROVE  PromptIsAWindow
<1> SUFFICES ASSUME NEW r \in Asked, prompt[r] # <<>>
    PROVE  LET seen == Reverse(Front(prompt[r]))
               own  == CHOOSE i \in DOMAIN messages : messages[i].run = r /\ messages[i].role = "user"
           IN  /\ Last(prompt[r]) = [run |-> r, role |-> "user", text |-> Question]
               /\ \E k \in 0 .. Len(messages) - Len(seen) :
                    /\ own + 1 <= k + Len(seen)
                    /\ k = 0 \/ Len(seen) = History
                    /\ \A i \in DOMAIN seen :
                         /\ seen[i].run = messages[k + i].run /\ seen[i].role = messages[k + i].role
                         /\ seen[i].text \in {<<>>, messages[k + i].text}
                         /\ seen[i].run = r => seen[i].text = <<>>
  BY DEF PromptIsAWindow
<1> DEFINE front == Front(prompt[r])
           seen  == Reverse(front)
           own   == CHOOSE i \in DOMAIN messages : messages[i].run = r /\ messages[i].role = "user"
<1>1. /\ DOMAIN messages = 1 .. Len(messages) /\ Len(messages) \in Nat
      /\ prompt[r] \in Seq(MessageSet) /\ ConversationTypeOK
  BY Types DEF ReadInv
<1>2. PICK n \in Nat, k \in Nat : Window(r, n, k)
  BY DEF ReadInv, Windows
<1>3. Len(prompt[r]) = n + 1 /\ n \in Nat
  BY <1>2 DEF Window
<1>4. Last(prompt[r]) = [run |-> r, role |-> "user", text |-> Question]
  BY <1>2, <1>3 DEF Window, Last
<1>5. front \in Seq(MessageSet) /\ Len(front) = n /\ \A i \in 1 .. n : front[i] = prompt[r][i]
  <2>1. \A i \in 1 .. n : prompt[r][i] \in MessageSet
    BY <1>1, <1>3
  <2>2. front = SubSeq(prompt[r], 1, n)
    BY <1>3 DEF Front
  <2>3. n \in Int /\ 1 \in Int
    BY <1>3
  <2> HIDE DEF front
  <2>4. /\ SubSeq(prompt[r], 1, n) \in Seq(MessageSet)
        /\ Len(SubSeq(prompt[r], 1, n)) = IF 1 <= n THEN n - 1 + 1 ELSE 0
        /\ \A i \in 1 .. n - 1 + 1 : SubSeq(prompt[r], 1, n)[i] = prompt[r][1 + i - 1]
    BY <2>1, <2>3, SubSeqProperties
  <2> QED
    BY <1>3, <2>2, <2>4
<1> HIDE DEF front
<1>6. seen = [i \in 1 .. n |-> front[(n - i) + 1]]
  BY <1>5 DEF Reverse
<1>7. Len(seen) = n /\ DOMAIN seen = 1 .. n
  BY <1>3, <1>6
<1>8. ASSUME NEW i \in 1 .. n PROVE seen[i] = prompt[r][n + 1 - i]
  <2>1. (n - i) + 1 \in 1 .. n /\ (n - i) + 1 = n + 1 - i
    BY <1>3
  <2>2. seen[i] = front[(n - i) + 1]
    BY <1>6
  <2> HIDE DEF seen
  <2> QED
    BY <1>5, <2>1, <2>2
<1> HIDE DEF seen
<1>9. stage[r] # "none"
  BY DEF ReadInv, Working
<1>10. own \in 1 .. Len(messages) /\ messages[own].run = r /\ messages[own].role = "user"
  <2>1. PICK i \in 1 .. Len(messages) - 1 : messages[i].run = r /\ messages[i].role = "user"
    BY <1>9 DEF ReadInv, Rows
  <2>2. i \in DOMAIN messages
    BY <1>1
  <2> QED
    BY <1>1, <2>1, <2>2
<1> HIDE DEF own
<1>11. own + 1 <= k + n /\ k \in 0 .. Len(messages) - n /\ (k = 0 \/ n = History)
  BY <1>1, <1>2, <1>10 DEF Window
<1>12. \A i \in 1 .. n :
         /\ seen[i].run = messages[k + i].run /\ seen[i].role = messages[k + i].role
         /\ seen[i].text \in {<<>>, messages[k + i].text}
         /\ seen[i].run = r => seen[i].text = <<>>
  BY <1>2, <1>8 DEF Window
<1> QED
  BY <1>4, <1>7, <1>11, <1>12 DEF seen, own, front

\* A worker's prompt is a window of the conversation without a gap, whatever the
\* size of the history and whatever the other runs write (PromptIsAWindow).
THEOREM PromptsAreWindows == ConversationSpec => []PromptIsAWindow
<1>1. ReadInv => PromptIsAWindow
  BY WindowSeen
<1> QED
  BY <1>1, ReadAlways, PTL

(***************************************************************************)
(* What a client hears                                                     *)
(***************************************************************************)
\* What is heard after the n-th event, from what was heard before it.
HeardNext(h, sent, begun, delta, n) ==
  IF n = 0 \/ sent[n].type = begun THEN <<>>
  ELSE IF sent[n].type = delta THEN h[n - 1] \o sent[n].text
  ELSE h[n - 1]

Hearing(h, sent, begun, delta) ==
  h = [n \in 0 .. Len(sent) |-> HeardNext(h, sent, begun, delta, n)]

LEMMA HearingExists ==
  ASSUME NEW sent, Len(sent) \in Nat, NEW begun, NEW delta
  PROVE  \E h : Hearing(h, sent, begun, delta)
<1> DEFINE Upto(h, n) == \A i \in 0 .. n : h[i] = HeardNext(h, sent, begun, delta, i)
           bad == {n \in 0 .. Len(sent) : ~(\E h : Upto(h, n))}
<1>1. ASSUME bad # {} PROVE FALSE
  <2>1. PICK n \in bad : \A m \in bad : n <= m
    <3>1. bad \subseteq Nat
      OBVIOUS
    <3> HIDE DEF bad
    <3> QED
      BY <1>1, <3>1, LeastOf
  <2>2. n \in 0 .. Len(sent) /\ ~(\E h : Upto(h, n))
    BY <2>1
  <2>3. CASE n = 0
    <3>1. Upto([i \in {0} |-> <<>>], 0)
      BY DEF HeardNext
    <3> HIDE DEF Upto
    <3> QED
      BY <2>2, <2>3, <3>1
  <2>4. CASE n # 0
    <3>1. n - 1 \in 0 .. Len(sent) /\ ~(n <= n - 1) /\ n \in Nat
      BY <2>2, <2>4
    <3>2. PICK h : Upto(h, n - 1)
      BY <2>1, <3>1
    <3> DEFINE g == [i \in 0 .. n |-> IF i = n THEN HeardNext(h, sent, begun, delta, n) ELSE h[i]]
    <3>3. \A i \in 0 .. n : g[i] = IF i = n THEN HeardNext(h, sent, begun, delta, n) ELSE h[i]
      OBVIOUS
    <3> HIDE DEF g
    <3>4. g[n - 1] = h[n - 1]
      BY <3>1, <3>3
    <3>5. ASSUME NEW i \in 0 .. n PROVE g[i] = HeardNext(g, sent, begun, delta, i)
      <4>1. CASE i = n
        BY <3>3, <3>4, <4>1 DEF HeardNext
      <4>2. CASE i # n
        <5>1. i \in 0 .. n - 1
          BY <3>1, <4>2
        <5>2. g[i] = h[i] /\ (i # 0 => g[i - 1] = h[i - 1])
          BY <3>1, <3>3, <4>2, <5>1
        <5>3. h[i] = HeardNext(h, sent, begun, delta, i)
          BY <3>2, <5>1
        <5> QED
          BY <5>2, <5>3 DEF HeardNext
      <4> QED
        BY <4>1, <4>2
    <3>6. Upto(g, n)
      BY <3>5
    <3> HIDE DEF Upto
    <3> QED
      BY <2>2, <3>6
  <2> QED
    BY <2>3, <2>4
<1>2. Len(sent) \in 0 .. Len(sent)
  OBVIOUS
<1>3. PICK h : Upto(h, Len(sent))
  BY <1>1, <1>2
<1> DEFINE g == [n \in 0 .. Len(sent) |-> h[n]]
<1>4. ASSUME NEW n \in 0 .. Len(sent) PROVE g[n] = HeardNext(g, sent, begun, delta, n)
  <2>1. g[n] = h[n] /\ (n # 0 => g[n - 1] = h[n - 1])
    OBVIOUS
  <2>2. h[n] = HeardNext(h, sent, begun, delta, n)
    BY <1>3
  <2> HIDE DEF g
  <2> QED
    BY <2>1, <2>2 DEF HeardNext
<1>5. g = [n \in 0 .. Len(sent) |-> g[n]]
  OBVIOUS
<1>6. Hearing(g, sent, begun, delta)
  <2> HIDE DEF g
  <2> QED
    BY <1>4, <1>5 DEF Hearing
<1> QED
  BY <1>6

LEMMA HearingStep ==
  ASSUME NEW sent, Len(sent) \in Nat, NEW begun, NEW delta, NEW h, Hearing(h, sent, begun, delta),
         NEW n \in 0 .. Len(sent)
  PROVE  h[n] = HeardNext(h, sent, begun, delta, n)
BY DEF Hearing

\* Of events that mean the same, the same is heard.
LEMMA HearingAgrees ==
  ASSUME NEW s1, Len(s1) \in Nat, NEW b1, NEW d1, NEW h1, Hearing(h1, s1, b1, d1),
         NEW s2, Len(s2) \in Nat, NEW b2, NEW d2, NEW h2, Hearing(h2, s2, b2, d2),
         NEW n \in Nat, n <= Len(s1), n <= Len(s2),
         \A i \in 1 .. n : /\ s1[i].type = b1 <=> s2[i].type = b2
                           /\ s1[i].type = d1 <=> s2[i].type = d2
                           /\ s1[i].type = d1 => s1[i].text = s2[i].text
  PROVE  h1[n] = h2[n]
<1> DEFINE bad == {m \in 0 .. n : h1[m] # h2[m]}
<1>1. ASSUME bad # {} PROVE FALSE
  <2>1. PICK m \in bad : \A k \in bad : m <= k
    <3>1. bad \subseteq Nat
      OBVIOUS
    <3> HIDE DEF bad
    <3> QED
      BY <1>1, <3>1, LeastOf
  <2>2. m \in 0 .. n /\ h1[m] # h2[m] /\ m \in 0 .. Len(s1) /\ m \in 0 .. Len(s2)
    BY <2>1
  <2>3. h1[m] = HeardNext(h1, s1, b1, d1, m) /\ h2[m] = HeardNext(h2, s2, b2, d2, m)
    BY <2>2, HearingStep
  <2>4. CASE m = 0
    BY <2>2, <2>3, <2>4 DEF HeardNext
  <2>5. CASE m # 0
    <3>1. m \in 1 .. n /\ m - 1 \in 0 .. n /\ ~(m <= m - 1)
      BY <2>2, <2>5
    <3>2. h1[m - 1] = h2[m - 1]
      BY <2>1, <3>1
    <3> QED
      BY <2>2, <2>3, <2>5, <3>1, <3>2 DEF HeardNext
  <2> QED
    BY <2>4, <2>5
<1> QED
  BY <1>1

LEMMA HeardIs ==
  ASSUME NEW sent, Len(sent) \in Nat, NEW begun, NEW delta
  PROVE  \E h : Hearing(h, sent, begun, delta) /\ Heard(sent, begun, delta) = h[Len(sent)]
<1> DEFINE H(h) == h = [n \in 0 .. Len(sent) |->
                     IF n = 0 \/ sent[n].type = begun THEN <<>>
                     ELSE IF sent[n].type = delta THEN h[n - 1] \o sent[n].text
                     ELSE h[n - 1]]
<1>1. \A h : H(h) <=> Hearing(h, sent, begun, delta)
  BY DEF Hearing, HeardNext
<1>2. \E h : H(h)
  <2> HIDE DEF H
  <2> QED
    BY <1>1, HearingExists
<1>3. PICK h : h = (CHOOSE g : H(g)) /\ H(h)
  <2> HIDE DEF H
  <2> QED
    BY <1>2
<1>4. Heard(sent, begun, delta) = h[Len(sent)]
  BY <1>3 DEF Heard
<1> QED
  BY <1>1, <1>3, <1>4

LEMMA HeardAgrees ==
  ASSUME NEW s1, NEW b1, NEW d1, NEW s2, NEW b2, NEW d2, Len(s1) \in Nat, Len(s2) = Len(s1),
         \A i \in 1 .. Len(s1) : /\ s1[i].type = b1 <=> s2[i].type = b2
                                 /\ s1[i].type = d1 <=> s2[i].type = d2
                                 /\ s1[i].type = d1 => s1[i].text = s2[i].text
  PROVE  Heard(s1, b1, d1) = Heard(s2, b2, d2)
<1>1. PICK h1 : Hearing(h1, s1, b1, d1) /\ Heard(s1, b1, d1) = h1[Len(s1)]
  BY HeardIs
<1>2. Len(s2) \in Nat
  OBVIOUS
<1>3. PICK h2 : Hearing(h2, s2, b2, d2) /\ Heard(s2, b2, d2) = h2[Len(s2)]
  BY <1>2, HeardIs
<1>4. h1[Len(s1)] = h2[Len(s1)]
  BY <1>1, <1>2, <1>3, HearingAgrees
<1> QED
  BY <1>1, <1>3, <1>4

LEMMA HeardEmpty ==
  ASSUME NEW begun, NEW delta
  PROVE  Heard(<<>>, begun, delta) = <<>>
<1>1. Len(<<>>) = 0 /\ Len(<<>>) \in Nat
  OBVIOUS
<1>2. PICK h : Hearing(h, <<>>, begun, delta) /\ Heard(<<>>, begun, delta) = h[0]
  BY <1>1, HeardIs
<1>3. h[0] = HeardNext(h, <<>>, begun, delta, 0)
  BY <1>1, <1>2, HearingStep
<1> QED
  BY <1>2, <1>3 DEF HeardNext

LEMMA HeardAppend ==
  ASSUME NEW S, NEW sent \in Seq(S), NEW e \in S, NEW begun, NEW delta
  PROVE  Heard(Append(sent, e), begun, delta) =
           IF e.type = begun THEN <<>>
           ELSE IF e.type = delta THEN Heard(sent, begun, delta) \o e.text
           ELSE Heard(sent, begun, delta)
<1> DEFINE more == Append(sent, e)
           n == Len(sent)
<1>1. n \in Nat /\ Len(more) = n + 1 /\ more[n + 1] = e /\ \A i \in 1 .. n : more[i] = sent[i]
  BY AppendProperties
<1> HIDE DEF more, n
<1>2. Len(sent) = n /\ Len(sent) \in Nat /\ Len(more) \in Nat
  BY <1>1 DEF n
<1>3. PICK h : Hearing(h, sent, begun, delta) /\ Heard(sent, begun, delta) = h[n]
  BY <1>2, HeardIs
<1>4. PICK g : Hearing(g, more, begun, delta) /\ Heard(more, begun, delta) = g[n + 1]
  BY <1>1, <1>2, HeardIs
<1>5. g[n] = h[n]
  <2>1. n \in Nat /\ n <= Len(more) /\ n <= Len(sent)
    BY <1>1, <1>2
  <2>2. \A i \in 1 .. n : /\ more[i].type = begun <=> sent[i].type = begun
                          /\ more[i].type = delta <=> sent[i].type = delta
                          /\ more[i].type = delta => more[i].text = sent[i].text
    BY <1>1
  <2> QED
    BY <1>2, <1>3, <1>4, <2>1, <2>2, HearingAgrees
<1>6. g[n + 1] = HeardNext(g, more, begun, delta, n + 1)
  <2>1. n + 1 \in 0 .. Len(more)
    BY <1>1
  <2> QED
    BY <1>2, <1>4, <2>1, HearingStep
<1>7. n + 1 # 0 /\ (n + 1) - 1 = n
  BY <1>1
<1> QED
  BY <1>1, <1>3, <1>4, <1>5, <1>6, <1>7 DEF HeardNext, more

\* What is heard is a text.
LEMMA HeardTyped ==
  ASSUME NEW sent \in Seq(StoredSet), NEW begun, NEW delta
  PROVE  Heard(sent, begun, delta) \in Text
<1>1. Len(sent) \in Nat /\ \A i \in 1 .. Len(sent) : sent[i].text \in Text
  <2>1. \A i \in 1 .. Len(sent) : sent[i] \in StoredSet
    OBVIOUS
  <2>2. \A e \in StoredSet : e.text \in Text
    BY DEF StoredSet
  <2> QED
    BY <2>1, <2>2
<1>2. PICK h : Hearing(h, sent, begun, delta) /\ Heard(sent, begun, delta) = h[Len(sent)]
  BY <1>1, HeardIs
<1> DEFINE bad == {n \in 0 .. Len(sent) : h[n] \notin Text}
<1>3. ASSUME bad # {} PROVE FALSE
  <2>1. PICK n \in bad : \A m \in bad : n <= m
    <3>1. bad \subseteq Nat
      OBVIOUS
    <3> HIDE DEF bad
    <3> QED
      BY <1>3, <3>1, LeastOf
  <2>2. n \in 0 .. Len(sent) /\ h[n] = HeardNext(h, sent, begun, delta, n)
    BY <1>1, <1>2, <2>1, HearingStep
  <2>3. CASE n = 0
    BY <2>1, <2>2, <2>3, EmptyText DEF HeardNext
  <2>4. CASE n # 0
    <3>1. n \in 1 .. Len(sent) /\ n - 1 \in 0 .. Len(sent) /\ ~(n <= n - 1)
      BY <2>2, <2>4
    <3>2. h[n - 1] \in Text /\ sent[n].text \in Text
      BY <1>1, <2>1, <3>1
    <3>3. h[n - 1] \o sent[n].text \in Text
      BY <3>2, ConcatProperties DEF Text
    <3> QED
      BY <2>1, <2>2, <3>2, <3>3, EmptyText DEF HeardNext
  <2> QED
    BY <2>3, <2>4
<1>4. Len(sent) \in 0 .. Len(sent)
  BY <1>1
<1> QED
  BY <1>2, <1>3, <1>4

(***************************************************************************)
(* The answer that is heard is the answer that is stored                   *)
(***************************************************************************)
\* What the events of a run tell, in the spelling of the rows.
HeardOf(sent) == Heard(sent, "agent.run.started", "message.delta")

\* What the two services make of an event: neither adds nor hides an attempt, a
\* delta or an end.
LEMMA MappedEvents ==
  ASSUME NEW e \in StoredSet
  PROVE  /\ MapChatEvent(e).type = "run_started" <=> e.type = "agent.run.started"
         /\ MapChatEvent(e).type = "token_delta" <=> e.type = "message.delta"
         /\ MapChatEvent(e).type = "message_completed" <=> e.type = "message.completed"
         /\ e.type \in {"message.delta", "message.completed"} => MapChatEvent(e).text = e.text
         /\ MapEvent(e).type = "AGENT_RUN_STARTED" <=> e.type = "agent.run.started"
         /\ MapEvent(e).type = "MESSAGE_DELTA" <=> e.type = "message.delta"
         /\ MapEvent(e).type = "MESSAGE_COMPLETED" <=> e.type = "message.completed"
         /\ MapEvent(e).text = e.text
<1>1. e.type \in EventTypes
  BY DEF StoredSet
<1>2. /\ e.type = "message.delta" => MapChatEvent(e) = Event("token_delta", e.text)
      /\ e.type = "message.completed" => MapChatEvent(e) = Event("message_completed", e.text)
      /\ e.type = "agent.run.started" => MapChatEvent(e) = Event("run_started", <<>>)
      /\ e.type = "agent.run.completed" => MapChatEvent(e) = Event("run_completed", <<>>)
      /\ e.type = "agent.run.failed" => MapChatEvent(e) = Event("run_failed", <<>>)
      /\ e.type = "agent.run.cancelled" => MapChatEvent(e) = Event("run_cancelled", <<>>)
  BY Zenon DEF MapChatEvent
<1>3. /\ e.type = "message.started" => MapChatEvent(e) = Event(MapEventType["message.started"], e.text)
      /\ e.type = "agent.run.queued" => MapChatEvent(e) = Event(MapEventType["agent.run.queued"], e.text)
  BY Zenon DEF MapChatEvent
<1>4. /\ e.type = "message.started" => MapChatEvent(e) = Event("MESSAGE_STARTED", e.text)
      /\ e.type = "agent.run.queued" => MapChatEvent(e) = Event("AGENT_RUN_QUEUED", e.text)
  BY <1>3, Spelling
<1>5. \A type, text : Event(type, text).type = type /\ Event(type, text).text = text
  BY DEF Event
<1>6. MapEvent(e).type = MapEventType[e.type] /\ MapEvent(e).text = e.text
  BY <1>5 DEF MapEvent
<1> QED
  BY <1>1, <1>2, <1>4, <1>5, <1>6, Spelling DEF EventTypes

\* Whoever listens hears the same.
LEMMA HeardByAll ==
  ASSUME NEW sent \in Seq(StoredSet)
  PROVE  LET chat     == [i \in DOMAIN sent |-> MapChatEvent(sent[i])]
             followed == [i \in DOMAIN sent |-> MapEvent(sent[i])]
             told     == {sent[i].text : i \in {k \in 1 .. Len(sent) : sent[k].type = "message.completed"}}
         IN  /\ Heard(chat, "run_started", "token_delta") = HeardOf(sent)
             /\ Heard(followed, "AGENT_RUN_STARTED", "MESSAGE_DELTA") = HeardOf(sent)
             /\ Told(chat, "message_completed") = told
             /\ Told(followed, "MESSAGE_COMPLETED") = told
<1> DEFINE chat     == [i \in DOMAIN sent |-> MapChatEvent(sent[i])]
           followed == [i \in DOMAIN sent |-> MapEvent(sent[i])]
           n == Len(sent)
<1>1. n \in Nat /\ DOMAIN sent = 1 .. n /\ \A i \in 1 .. n : sent[i] \in StoredSet
  OBVIOUS
<1>2. /\ DOMAIN chat = 1 .. n /\ Len(chat) = n /\ \A i \in 1 .. n : chat[i] = MapChatEvent(sent[i])
      /\ DOMAIN followed = 1 .. n /\ Len(followed) = n /\ \A i \in 1 .. n : followed[i] = MapEvent(sent[i])
  <2> HIDE DEF n
  <2> QED
    BY <1>1
<1> HIDE DEF chat, followed
<1>3. \A i \in 1 .. n :
         /\ chat[i].type = "run_started" <=> sent[i].type = "agent.run.started"
         /\ chat[i].type = "token_delta" <=> sent[i].type = "message.delta"
         /\ chat[i].type = "message_completed" <=> sent[i].type = "message.completed"
         /\ sent[i].type \in {"message.delta", "message.completed"} => chat[i].text = sent[i].text
         /\ followed[i].type = "AGENT_RUN_STARTED" <=> sent[i].type = "agent.run.started"
         /\ followed[i].type = "MESSAGE_DELTA" <=> sent[i].type = "message.delta"
         /\ followed[i].type = "MESSAGE_COMPLETED" <=> sent[i].type = "message.completed"
         /\ followed[i].text = sent[i].text
  BY <1>1, <1>2, MappedEvents
<1>4. Heard(chat, "run_started", "token_delta") = HeardOf(sent)
  BY <1>1, <1>2, <1>3, HeardAgrees DEF HeardOf
<1>5. Heard(followed, "AGENT_RUN_STARTED", "MESSAGE_DELTA") = HeardOf(sent)
  BY <1>1, <1>2, <1>3, HeardAgrees DEF HeardOf
<1>6. Told(chat, "message_completed") =
        {sent[i].text : i \in {k \in 1 .. n : sent[k].type = "message.completed"}}
  BY <1>2, <1>3 DEF Told
<1>7. Told(followed, "MESSAGE_COMPLETED") =
        {sent[i].text : i \in {k \in 1 .. n : sent[k].type = "message.completed"}}
  BY <1>2, <1>3 DEF Told
<1> QED
  BY <1>4, <1>5, <1>6, <1>7 DEF chat, followed, n

Begun(r) == IF wire[r] # <<>> /\ wire[r][1].type = "MESSAGE_STARTED" THEN 1 ELSE 0
EndSent(r) == IF speaker[r] = "sent" THEN 1 ELSE 0

\* What a run at work has answered, it has said: its clients have heard the first
\* part of it, and the updates on their way hold the rest and, last, its end.
Underway(r) ==
  stage[r] = "running" =>
    /\ \A i \in 1 .. Len(content[r]) : content[r][i] = try[r]
    /\ \A i \in 1 .. Len(HeardOf(events[r])) : HeardOf(events[r])[i] = try[r]
    /\ \A j \in 1 .. Len(wire[r]) :
         /\ wire[r][j].type = "MESSAGE_STARTED" => j = 1
         /\ wire[r][j].type \in {"run_completed", "run_failed"} <=> speaker[r] = "sent" /\ j = Len(wire[r])
         /\ wire[r][j].type = "MESSAGE_DELTA" => wire[r][j].text = <<try[r]>>
         /\ wire[r][j].type = "run_completed" => wire[r][j].text = content[r]
    /\ speaker[r] = "sent" => wire[r] # <<>>
    /\ Len(content[r]) + Begun(r) + EndSent(r) = Len(HeardOf(events[r])) + Len(wire[r])

\* What clients are told of a run, and what is stored, when it has completed.
Answered(r) ==
  /\ stage[r] # "completed" =>
       \A i \in 1 .. Len(events[r]) : events[r][i].type # "message.completed"
  /\ stage[r] = "completed" =>
       /\ \E i \in 1 .. Len(events[r]) : events[r][i].type = "message.completed"
       /\ \A i \in 1 .. Len(events[r]) :
            events[r][i].type = "message.completed" => events[r][i].text = HeardOf(events[r])
       /\ \A i \in 1 .. Len(messages) :
            messages[i].run = r /\ messages[i].role = "assistant" =>
              messages[i].text = HeardOf(events[r])

AnswerInv == \A r \in Asked : Underway(r) /\ Answered(r)

\* An event more.
LEMMA MoreHeard ==
  ASSUME NEW sent \in Seq(StoredSet), NEW type \in EventTypes, NEW text \in Text
  PROVE  LET more == Append(sent, Event(type, text))
         IN  /\ more \in Seq(StoredSet) /\ Len(more) = Len(sent) + 1
             /\ more[Len(sent) + 1].type = type /\ more[Len(sent) + 1].text = text
             /\ \A i \in 1 .. Len(sent) : more[i] = sent[i]
             /\ type = "agent.run.started" => HeardOf(more) = <<>>
             /\ type = "message.delta" => HeardOf(more) = HeardOf(sent) \o text
             /\ type \notin {"agent.run.started", "message.delta"} => HeardOf(more) = HeardOf(sent)
<1> DEFINE e == Event(type, text)
           more == Append(sent, e)
<1>1. e \in StoredSet /\ e.type = type /\ e.text = text
  BY EventTyped
<1> HIDE DEF e
<1>2. /\ more \in Seq(StoredSet) /\ Len(more) = Len(sent) + 1 /\ more[Len(sent) + 1] = e
      /\ \A i \in 1 .. Len(sent) : more[i] = sent[i]
  BY <1>1, AppendProperties
<1>3. HeardOf(more) = IF e.type = "agent.run.started" THEN <<>>
                      ELSE IF e.type = "message.delta" THEN HeardOf(sent) \o e.text
                      ELSE HeardOf(sent)
  BY <1>1, HeardAppend DEF HeardOf
<1> HIDE DEF more
<1>4. /\ type = "agent.run.started" => HeardOf(more) = <<>>
      /\ type = "message.delta" => HeardOf(more) = HeardOf(sent) \o text
      /\ type \notin {"agent.run.started", "message.delta"} => HeardOf(more) = HeardOf(sent)
  BY <1>1, <1>3
<1> QED
  BY <1>1, <1>2, <1>4 DEF more, e

Step(r) ==
  \/ EnqueueUserMessage(r) \/ ClaimRun(r) \/ AppendRuntimeEvent(r)
  \/ CompleteRun(r) \/ FailRun(r) \/ CancelRun(r) \/ LoseWorker(r)
  \/ FetchHistory(r) \/ SayStarted(r) \/ SayDelta(r) \/ SayEnd(r)

\* The rows of a run are as they were.
SameRows(q) ==
  \A i \in 1 .. Len(messages') : messages'[i].run = q =>
    /\ i \in 1 .. Len(messages) /\ messages[i].run = q
    /\ messages'[i].role = messages[i].role /\ messages'[i].text = messages[i].text

\* A step of one run leaves the others alone.
LEMMA OthersSame ==
  ASSUME ConversationTypeOK, NEW r \in Asked, Step(r), NEW q \in Asked, q # r
  PROVE  /\ stage'[q] = stage[q] /\ try'[q] = try[q] /\ speaker'[q] = speaker[q]
         /\ content'[q] = content[q] /\ wire'[q] = wire[q] /\ events'[q] = events[q]
         /\ SameRows(q)
<1>1. /\ stage \in [Asked -> StageSet] /\ try \in [Asked -> 0 .. MaxTries]
      /\ speaker \in [Asked -> SpeakerSet] /\ content \in [Asked -> Text]
      /\ wire \in [Asked -> Seq(SentSet)] /\ events \in [Asked -> Seq(StoredSet)]
      /\ Len(messages) \in Nat
  BY Types
<1> DEFINE Same == /\ stage'[q] = stage[q] /\ try'[q] = try[q] /\ speaker'[q] = speaker[q]
                   /\ content'[q] = content[q] /\ wire'[q] = wire[q] /\ events'[q] = events[q]
<1>2. messages' = messages => SameRows(q)
  BY DEF SameRows
<1>3. CASE EnqueueUserMessage(r)
  <2>1. Same
    BY <1>1, <1>3 DEF EnqueueUserMessage, Appends, speakerVars
  <2>2. SameRows(q)
    <3>1. /\ Len(messages') = Len(messages) + 2
          /\ \A i \in 1 .. Len(messages) : messages'[i] = messages[i]
          /\ messages'[Len(messages) + 1].run = r /\ messages'[Len(messages) + 2].run = r
      <4>1. /\ Len(messages') = Len(messages) + 2
            /\ \A i \in 1 .. Len(messages) : messages'[i] = messages[i]
            /\ messages'[Len(messages) + 1] = [run |-> r, role |-> "user", text |-> <<>>]
            /\ messages'[Len(messages) + 2] = [run |-> r, role |-> "assistant", text |-> <<>>]
        BY <1>3, AskedMessages
      <4> QED
        BY <4>1
    <3>2. \A i \in 1 .. Len(messages') :
            i \in 1 .. Len(messages) \/ i = Len(messages) + 1 \/ i = Len(messages) + 2
      BY <1>1, <3>1
    <3> QED
      BY <3>1, <3>2 DEF SameRows
  <2> QED
    BY <2>1, <2>2
<1>4. CASE CompleteRun(r)
  <2>1. Same
    BY <1>1, <1>4 DEF CompleteRun, Dismissed
  <2>2. SameRows(q)
    BY <1>4, AnsweredMessages DEF SameRows
  <2> QED
    BY <2>1, <2>2
<1>5. CASE FailRun(r) \/ LoseWorker(r)
  BY <1>1, <1>2, <1>5 DEF FailRun, LoseWorker, Dismissed, Appends
<1>6. CASE ClaimRun(r) \/ AppendRuntimeEvent(r) \/ CancelRun(r)
  BY <1>1, <1>2, <1>6 DEF ClaimRun, AppendRuntimeEvent, CancelRun, Appends, speakerVars
<1>7. CASE FetchHistory(r) \/ SayStarted(r) \/ SayDelta(r) \/ SayEnd(r)
  BY <1>1, <1>2, <1>7 DEF FetchHistory, SayStarted, SayDelta, SayEnd, Says, Steps
<1> QED
  BY <1>3, <1>4, <1>5, <1>6, <1>7 DEF Step

LEMMA SameAnswer ==
  ASSUME NEW q \in Asked, Underway(q), Answered(q), SameRows(q),
         stage'[q] = stage[q], try'[q] = try[q], speaker'[q] = speaker[q],
         content'[q] = content[q], wire'[q] = wire[q], events'[q] = events[q]
  PROVE  Underway(q)' /\ Answered(q)'
<1>1. Begun(q)' = Begun(q) /\ EndSent(q)' = EndSent(q)
  BY DEF Begun, EndSent
<1>2. Underway(q)'
  BY <1>1 DEF Underway
<1>3. Answered(q)'
  BY DEF Answered, SameRows
<1> QED
  BY <1>2, <1>3

\* A run that has not completed, and does not, is told nothing of an end.
LEMMA NotAnswered ==
  ASSUME ConversationTypeOK, NEW r \in Asked, NEW type \in EventTypes, NEW text \in Text,
         Answered(r), Appends(r, type, text),
         type # "message.completed", stage[r] # "completed", stage'[r] # "completed"
  PROVE  Answered(r)'
<1>1. events \in [Asked -> Seq(StoredSet)] /\ Len(events[r]) \in Nat
  <2>1. events \in [Asked -> Seq(StoredSet)]
    BY Types
  <2> QED
    BY <2>1
<1>2. events'[r] = Append(events[r], Event(type, text))
  BY <1>1 DEF Appends
<1>3. /\ Len(events'[r]) = Len(events[r]) + 1 /\ events'[r][Len(events[r]) + 1].type = type
      /\ \A i \in 1 .. Len(events[r]) : events'[r][i] = events[r][i]
  BY <1>1, <1>2, MoreHeard
<1>4. ASSUME NEW i \in 1 .. Len(events'[r]) PROVE events'[r][i].type # "message.completed"
  <2>1. i \in 1 .. Len(events[r]) \/ i = Len(events[r]) + 1
    BY <1>1, <1>3
  <2> QED
    BY <1>3, <2>1 DEF Answered
<1> QED
  BY <1>4 DEF Answered

\* CompleteRun finds the end of the answer alone on the wire: all of the answer has
\* been heard.
LEMMA AllHeard ==
  ASSUME ConversationTypeOK, Working, NEW r \in Asked, Underway(r), Handles(r, "run_completed")
  PROVE  Head(wire[r]).text = HeardOf(events[r])
<1>1. /\ wire[r] \in Seq(SentSet) /\ wire[r] # <<>> /\ Head(wire[r]) = wire[r][1]
      /\ Head(wire[r]).type = "run_completed" /\ stage[r] = "running"
  BY HeadTyped
<1>2. content[r] \in Text /\ HeardOf(events[r]) \in Text
  <2>1. content \in [Asked -> Text] /\ events \in [Asked -> Seq(StoredSet)]
    BY Types
  <2> QED
    BY <2>1, HeardTyped DEF HeardOf
<1>3. Len(wire[r]) \in Nat /\ 1 \in 1 .. Len(wire[r])
  BY <1>1
<1>4. speaker[r] = "sent" /\ Len(wire[r]) = 1 /\ wire[r][1].text = content[r]
  BY <1>1, <1>3 DEF Underway
<1>5. Begun(r) = 0 /\ EndSent(r) = 1
  BY <1>1, <1>4 DEF Begun, EndSent
<1>6. Len(content[r]) \in Nat /\ Len(HeardOf(events[r])) \in Nat
  BY <1>2 DEF Text
<1>7. Len(content[r]) = Len(HeardOf(events[r]))
  BY <1>1, <1>4, <1>5, <1>6 DEF Underway
<1>8. \A i \in 1 .. Len(content[r]) : content[r][i] = HeardOf(events[r])[i]
  BY <1>1, <1>7 DEF Underway
<1>9. content[r] = HeardOf(events[r])
  BY <1>2, <1>7, <1>8, SeqEqual DEF Text
<1> QED
  BY <1>1, <1>4, <1>9

LEMMA AnsweredKept ==
  ASSUME ConversationTypeOK, Working, Rows, NEW r \in Asked, Underway(r), Answered(r), Step(r)
  PROVE  Answered(r)'
<1>1. /\ stage \in [Asked -> StageSet] /\ events \in [Asked -> Seq(StoredSet)]
      /\ Len(messages) \in Nat /\ Len(events[r]) \in Nat /\ events[r] \in Seq(StoredSet)
  <2>1. stage \in [Asked -> StageSet] /\ events \in [Asked -> Seq(StoredSet)] /\ Len(messages) \in Nat
    BY Types
  <2> QED
    BY <2>1
<1>2. CASE EnqueueUserMessage(r)
  <2>1. stage[r] # "completed" /\ stage'[r] # "completed" /\ Appends(r, "agent.run.queued", <<>>)
    BY <1>1, <1>2 DEF EnqueueUserMessage
  <2> QED
    BY <2>1, EmptyText, NotAnswered DEF EventTypes
<1>3. CASE ClaimRun(r)
  <2>1. stage[r] # "completed" /\ stage'[r] # "completed" /\ Appends(r, "agent.run.started", <<>>)
    BY <1>1, <1>3 DEF ClaimRun
  <2> QED
    BY <2>1, EmptyText, NotAnswered DEF EventTypes
<1>4. CASE AppendRuntimeEvent(r)
  <2>1. PICK type \in {"MESSAGE_STARTED", "MESSAGE_DELTA"} : Handles(r, type)
    BY <1>4 DEF AppendRuntimeEvent
  <2>2. Head(wire[r]).text \in Text /\ Head(wire[r]).type = type /\ stage[r] = "running"
    BY <2>1, HeadTyped
  <2>3. RuntimeEventType(type) \in EventTypes \ {"message.completed"}
    BY <2>1, SpeltBack DEF EventTypes
  <2>4. Appends(r, RuntimeEventType(type), Head(wire[r]).text) /\ stage' = stage
    BY <1>4, <2>2 DEF AppendRuntimeEvent
  <2> QED
    BY <2>2, <2>3, <2>4, NotAnswered
<1>5. CASE CompleteRun(r)
  <2> DEFINE said == Head(wire[r]).text
             sent == Append(events[r], Event("message.completed", said))
             n == Len(events[r])
  <2>1. Handles(r, "run_completed") /\ said \in Text
    BY <1>5, HeadTyped DEF CompleteRun
  <2>2. said = HeardOf(events[r])
    BY <2>1, AllHeard
  <2>3. stage[r] = "running" /\ stage'[r] = "completed"
    BY <1>1, <1>5 DEF CompleteRun, Handles
  <2> HIDE DEF said
  <2>4. /\ sent \in Seq(StoredSet) /\ Len(sent) = n + 1
        /\ sent[n + 1].type = "message.completed" /\ sent[n + 1].text = said
        /\ \A i \in 1 .. n : sent[i] = events[r][i]
        /\ HeardOf(sent) = HeardOf(events[r])
    BY <1>1, <2>1, MoreHeard DEF EventTypes
  <2>5. events'[r] = Append(sent, Event("agent.run.completed", <<>>))
    <3>1. events'[r] = events[r] \o
            <<Event("message.completed", said), Event("agent.run.completed", <<>>)>>
      BY <1>1, <1>5 DEF CompleteRun, said
    <3> QED
      BY <1>1, <2>1, <3>1, EventTyped, EmptyText DEF EventTypes
  <2> HIDE DEF sent
  <2>6. /\ Len(events'[r]) = Len(sent) + 1 /\ events'[r][Len(sent) + 1].type = "agent.run.completed"
        /\ \A i \in 1 .. Len(sent) : events'[r][i] = sent[i]
        /\ HeardOf(events'[r]) = HeardOf(sent)
    BY <2>4, <2>5, MoreHeard, EmptyText DEF EventTypes
  <2>7. /\ Len(events'[r]) = n + 2 /\ events'[r][n + 2].type = "agent.run.completed"
        /\ events'[r][n + 1].type = "message.completed" /\ events'[r][n + 1].text = said
        /\ \A i \in 1 .. n : events'[r][i] = events[r][i]
        /\ HeardOf(events'[r]) = said
    BY <1>1, <2>2, <2>4, <2>6
  <2>8. \E i \in 1 .. Len(events'[r]) : events'[r][i].type = "message.completed"
    <3>1. n + 1 \in 1 .. Len(events'[r])
      BY <1>1, <2>7
    <3> QED
      BY <2>7, <3>1
  <2>9. ASSUME NEW i \in 1 .. Len(events'[r]), events'[r][i].type = "message.completed"
        PROVE  events'[r][i].text = said
    <3>1. i \in 1 .. n \/ i = n + 1 \/ i = n + 2
      BY <1>1, <2>7
    <3>2. i \notin 1 .. n
      BY <2>3, <2>7, <2>9 DEF Answered
    <3> QED
      BY <2>7, <2>9, <3>1, <3>2
  <2>10. \A i \in 1 .. Len(messages') :
           messages'[i].run = r /\ messages'[i].role = "assistant" => messages'[i].text = said
    BY <1>5, AnsweredMessages DEF said
  <2> QED
    BY <2>3, <2>7, <2>8, <2>9, <2>10 DEF Answered
<1>6. CASE FailRun(r)
  <2>1. stage[r] # "completed" /\ stage'[r] # "completed" /\ Appends(r, "agent.run.failed", <<>>)
    BY <1>1, <1>6 DEF FailRun, Handles
  <2> QED
    BY <2>1, EmptyText, NotAnswered DEF EventTypes
<1>7. CASE CancelRun(r)
  <2>1. stage[r] # "completed" /\ stage'[r] # "completed" /\ Appends(r, "agent.run.cancelled", <<>>)
    BY <1>1, <1>7 DEF CancelRun
  <2> QED
    BY <2>1, EmptyText, NotAnswered DEF EventTypes
<1>8. CASE LoseWorker(r) \/ FetchHistory(r) \/ SayStarted(r) \/ SayDelta(r) \/ SayEnd(r)
  <2>1. speaker[r] # "idle"
    BY <1>8 DEF LoseWorker, FetchHistory, SayStarted, SayDelta, SayEnd, Steps
  <2>2. events' = events /\ stage[r] # "completed" /\ stage'[r] # "completed"
    BY <1>1, <1>8, <2>1
       DEF LoseWorker, FetchHistory, SayStarted, SayDelta, SayEnd, Working
  <2> QED
    BY <2>2 DEF Answered
<1> QED
  BY <1>2, <1>3, <1>4, <1>5, <1>6, <1>7, <1>8 DEF Step

\* One more update on the wire.
LEMMA SaysMore ==
  ASSUME ConversationTypeOK, NEW r \in Asked, NEW type \in SentTypes, NEW text \in Text, Says(r, type, text)
  PROVE  /\ Len(wire[r]) \in Nat /\ Len(wire'[r]) = Len(wire[r]) + 1
         /\ wire'[r][Len(wire[r]) + 1].type = type /\ wire'[r][Len(wire[r]) + 1].text = text
         /\ \A j \in 1 .. Len(wire[r]) : wire'[r][j] = wire[r][j]
         /\ \A j \in 1 .. Len(wire'[r]) : j \in 1 .. Len(wire[r]) \/ j = Len(wire[r]) + 1
         /\ wire'[r] # <<>>
         /\ wire[r] # <<>> => wire'[r][1] = wire[r][1]
<1>1. wire \in [Asked -> Seq(SentSet)] /\ wire[r] \in Seq(SentSet) /\ Len(wire[r]) \in Nat
  <2>1. wire \in [Asked -> Seq(SentSet)]
    BY Types
  <2> QED
    BY <2>1
<1>2. wire'[r] = Append(wire[r], Event(type, text))
  BY <1>1 DEF Says
<1>3. Event(type, text) \in SentSet /\ Event(type, text).type = type /\ Event(type, text).text = text
  BY EventTyped
<1>4. /\ Len(wire'[r]) = Len(wire[r]) + 1 /\ wire'[r][Len(wire[r]) + 1] = Event(type, text)
      /\ \A j \in 1 .. Len(wire[r]) : wire'[r][j] = wire[r][j]
      /\ wire'[r] # <<>>
  BY <1>1, <1>2, <1>3, AppendProperties
<1>5. wire[r] # <<>> => 1 \in 1 .. Len(wire[r])
  BY <1>1
<1>6. \A j \in 1 .. Len(wire'[r]) : j \in 1 .. Len(wire[r]) \/ j = Len(wire[r]) + 1
  BY <1>1, <1>4
<1> QED
  BY <1>1, <1>3, <1>4, <1>5, <1>6

\* The rules of the wire, of the j-th update on it.
OnWire(r, j) ==
  /\ wire[r][j].type = "MESSAGE_STARTED" => j = 1
  /\ wire[r][j].type \in {"run_completed", "run_failed"} <=> speaker[r] = "sent" /\ j = Len(wire[r])
  /\ wire[r][j].type = "MESSAGE_DELTA" => wire[r][j].text = <<try[r]>>
  /\ wire[r][j].type = "run_completed" => wire[r][j].text = content[r]

LEMMA UnderwayKept ==
  ASSUME ConversationTypeOK, Tried, Working, NEW r \in Asked, Underway(r), Step(r)
  PROVE  Underway(r)'
<1> SUFFICES ASSUME stage'[r] = "running" PROVE Underway(r)'
  BY DEF Underway
<1>1. /\ stage \in [Asked -> StageSet] /\ try \in [Asked -> 0 .. MaxTries]
      /\ speaker \in [Asked -> SpeakerSet] /\ content \in [Asked -> Text]
      /\ wire \in [Asked -> Seq(SentSet)] /\ events \in [Asked -> Seq(StoredSet)]
  BY Types
<1>2. /\ content[r] \in Text /\ wire[r] \in Seq(SentSet) /\ events[r] \in Seq(StoredSet)
      /\ HeardOf(events[r]) \in Text
      /\ Len(content[r]) \in Nat /\ Len(wire[r]) \in Nat /\ Len(HeardOf(events[r])) \in Nat
  <2>1. content[r] \in Text /\ wire[r] \in Seq(SentSet) /\ events[r] \in Seq(StoredSet)
    BY <1>1
  <2>2. HeardOf(events[r]) \in Text
    BY <2>1, HeardTyped DEF HeardOf
  <2> QED
    BY <2>1, <2>2 DEF Text
<1>3. ASSUME stage[r] = "running"
      PROVE  /\ \A i \in 1 .. Len(content[r]) : content[r][i] = try[r]
             /\ \A i \in 1 .. Len(HeardOf(events[r])) : HeardOf(events[r])[i] = try[r]
             /\ \A j \in 1 .. Len(wire[r]) : OnWire(r, j)
             /\ speaker[r] = "sent" => wire[r] # <<>>
             /\ Len(content[r]) + Begun(r) + EndSent(r) = Len(HeardOf(events[r])) + Len(wire[r])
  BY <1>3 DEF Underway, OnWire
<1>0. PICK b \in Nat, e \in Nat, l \in Nat, c \in Nat, w \in Nat :
        /\ b = Begun(r) /\ e = EndSent(r) /\ l = Len(HeardOf(events[r]))
        /\ c = Len(content[r]) /\ w = Len(wire[r])
  BY <1>2 DEF Begun, EndSent
<1>00. stage[r] = "running" => c + b + e = l + w
  BY <1>0, <1>3
<1>4. ASSUME \A i \in 1 .. Len(content'[r]) : content'[r][i] = try'[r],
             \A i \in 1 .. Len(HeardOf(events'[r])) : HeardOf(events'[r])[i] = try'[r],
             \A j \in 1 .. Len(wire'[r]) : OnWire(r, j)',
             speaker'[r] = "sent" => wire'[r] # <<>>,
             Len(content'[r]) + Begun(r)' + EndSent(r)' = Len(HeardOf(events'[r])) + Len(wire'[r])
      PROVE  Underway(r)'
  BY <1>4 DEF Underway, OnWire
<1>5. CASE ClaimRun(r)
  <2>1. /\ events'[r] = Append(events[r], Event("agent.run.started", <<>>))
        /\ wire' = wire /\ content' = content /\ speaker[r] = "idle" /\ speaker'[r] = "fetch"
    BY <1>1, <1>5 DEF ClaimRun, Appends
  <2>2. HeardOf(events'[r]) = <<>>
    BY <1>2, <2>1, MoreHeard, EmptyText DEF EventTypes
  <2>3. wire'[r] = <<>> /\ content'[r] = <<>>
    BY <2>1 DEF Working
  <2>4. Begun(r)' = 0 /\ EndSent(r)' = 0
    BY <2>1, <2>3 DEF Begun, EndSent
  <2>5. Len(<<>>) = 0
    OBVIOUS
  <2>6. Len(content'[r]) = 0 /\ Len(wire'[r]) = 0 /\ Len(HeardOf(events'[r])) = 0
    BY <2>2, <2>3, <2>5
  <2>7. \A i \in 1 .. 0 : FALSE
    OBVIOUS
  <2> QED
    BY <1>4, <2>1, <2>4, <2>6, <2>7
<1>6. CASE AppendRuntimeEvent(r)
  <2>1. PICK type \in {"MESSAGE_STARTED", "MESSAGE_DELTA"} : Handles(r, type)
    BY <1>6 DEF AppendRuntimeEvent
  <2>2. /\ wire[r] # <<>> /\ Head(wire[r]) = wire[r][1] /\ wire[r][1].type = type /\ stage[r] = "running"
        /\ wire[r][1].text \in Text
    BY <2>1, HeadTyped
  <2>3. /\ events'[r] = Append(events[r], Event(RuntimeEventType(type), wire[r][1].text))
        /\ wire'[r] = Tail(wire[r]) /\ content' = content /\ speaker' = speaker /\ try' = try
    BY <1>1, <1>6, <2>2 DEF AppendRuntimeEvent, Appends, speakerVars
  <2>4. /\ Len(wire'[r]) = Len(wire[r]) - 1
        /\ \A j \in 1 .. Len(wire'[r]) : wire'[r][j] = wire[r][j + 1]
    BY <1>2, <2>2, <2>3, HeadTailProperties
  <2>5. \A j \in 1 .. Len(wire'[r]) : j + 1 \in 1 .. Len(wire[r]) /\ j + 1 # 1
    BY <1>2, <2>4
  <2>6. 1 \in 1 .. Len(wire[r]) /\ OnWire(r, 1)
    BY <1>2, <1>3, <2>2
  <2>7. ASSUME NEW j \in 1 .. Len(wire'[r])
        PROVE  wire'[r][j].type # "MESSAGE_STARTED" /\ OnWire(r, j)'
    <3>1. wire'[r][j] = wire[r][j + 1] /\ OnWire(r, j + 1) /\ j + 1 # 1
      BY <1>3, <2>2, <2>4, <2>5
    <3>2. j + 1 = Len(wire[r]) <=> j = Len(wire'[r])
      BY <1>2, <2>4
    <3> QED
      BY <2>3, <3>1, <3>2 DEF OnWire
  <2>8. Begun(r)' = 0 /\ EndSent(r)' = EndSent(r)
    <3>1. ASSUME wire'[r] # <<>> PROVE wire'[r][1].type # "MESSAGE_STARTED"
      <4>1. wire'[r] \in Seq(SentSet)
        BY <1>2, <2>2, <2>3, HeadTailProperties
      <4>2. 1 \in 1 .. Len(wire'[r])
        BY <3>1, <4>1
      <4> QED
        BY <2>7, <4>2
    <3> QED
      BY <2>3, <3>1 DEF Begun, EndSent
  <2>9. speaker'[r] = "sent" => wire'[r] # <<>>
    <3>1. speaker[r] = "sent" => Len(wire[r]) # 1
      BY <2>1, <2>2, <2>6 DEF OnWire
    <3>2. wire'[r] = <<>> => Len(wire'[r]) = 0
      OBVIOUS
    <3> QED
      BY <1>2, <2>3, <2>4, <3>1, <3>2
  <2>12. Len(wire'[r]) = Len(wire[r]) - 1
    BY <2>4
  <2>10. CASE type = "MESSAGE_STARTED"
    <3>1. HeardOf(events'[r]) = HeardOf(events[r])
      BY <1>2, <2>2, <2>3, <2>10, SpeltBack, MoreHeard DEF EventTypes
    <3>2. Begun(r) = 1
      BY <2>2, <2>10 DEF Begun
    <3>3. Len(content'[r]) + Begun(r)' + EndSent(r)' = Len(HeardOf(events'[r])) + Len(wire'[r])
      <4>1. c + b + e = l + w /\ b = 1
        BY <1>0, <1>00, <2>2, <3>2
      <4>2. c + 0 + e = l + (w - 1)
        BY <4>1
      <4> QED
        BY <1>0, <2>3, <2>8, <2>12, <3>1, <4>2
    <3> QED
      BY <1>3, <1>4, <2>2, <2>3, <2>7, <2>9, <3>1, <3>3
  <2>11. CASE type = "MESSAGE_DELTA"
    <3>1. HeardOf(events'[r]) = HeardOf(events[r]) \o wire[r][1].text
      <4>1. events'[r] = Append(events[r], Event("message.delta", wire[r][1].text))
        BY <2>3, <2>11, SpeltBack
      <4>2. "message.delta" \in EventTypes
        BY DEF EventTypes
      <4>3. \A sent \in Seq(StoredSet), text \in Text :
              HeardOf(Append(sent, Event("message.delta", text))) = HeardOf(sent) \o text
        BY <4>2, MoreHeard
      <4> QED
        BY <1>2, <2>2, <4>1, <4>3
    <3>2. Begun(r) = 0
      BY <2>2, <2>11 DEF Begun
    <3>3. wire[r][1].text = <<try[r]>>
      BY <2>2, <2>6, <2>11 DEF OnWire
    <3> DEFINE heard == HeardOf(events[r])
               more  == HeardOf(events'[r])
    <3>4. Len(more) = Len(heard) + 1 /\ \A i \in 1 .. Len(more) :
            more[i] = IF i <= Len(heard) THEN heard[i] ELSE try[r]
      <4>1. heard \in Seq(Piece) /\ <<try[r]>> \in Seq(Piece) /\ more = heard \o <<try[r]>>
        BY <1>2, <2>2, <3>1, <3>3 DEF Text
      <4>2. Len(<<try[r]>>) = 1 /\ <<try[r]>>[1] = try[r]
        OBVIOUS
      <4> HIDE DEF heard, more
      <4>3. /\ Len(more) = Len(heard) + Len(<<try[r]>>)
            /\ \A i \in 1 .. Len(heard) + Len(<<try[r]>>) :
                 more[i] = IF i <= Len(heard) THEN heard[i] ELSE <<try[r]>>[i - Len(heard)]
        BY <4>1, ConcatProperties
      <4>4. Len(heard) \in Nat
        BY <4>1
      <4> QED
        BY <4>2, <4>3, <4>4
    <3>5. \A i \in 1 .. Len(more) : more[i] = try[r]
      BY <1>2, <1>3, <2>2, <3>4
    <3> HIDE DEF heard, more
    <3>7. Len(more) = Len(heard) + 1
      BY <3>4
    <3>6. Len(content'[r]) + Begun(r)' + EndSent(r)' = Len(more) + Len(wire'[r])
      <4>1. c + b + e = l + w /\ b = 0
        BY <1>0, <1>00, <2>2, <3>2
      <4>2. Len(more) = l + 1
        BY <1>0, <3>7 DEF heard
      <4>3. c + 0 + e = (l + 1) + (w - 1)
        BY <4>1
      <4> QED
        BY <1>0, <2>3, <2>8, <2>12, <4>2, <4>3
    <3> QED
      BY <1>3, <1>4, <2>2, <2>3, <2>7, <2>9, <3>5, <3>6 DEF more
  <2> QED
    BY <2>10, <2>11
<1>7. CASE \/ EnqueueUserMessage(r) \/ CompleteRun(r) \/ FailRun(r) \/ CancelRun(r) \/ LoseWorker(r)
  BY <1>1, <1>7 DEF EnqueueUserMessage, CompleteRun, FailRun, CancelRun, LoseWorker
<1>8. CASE FetchHistory(r)
  <2>1. /\ stage[r] = "running" /\ content' = content /\ wire' = wire /\ events' = events /\ try' = try
        /\ speaker[r] = "fetch" /\ speaker'[r] = "start"
    BY <1>1, <1>8 DEF FetchHistory, Steps
  <2>2. Begun(r)' = Begun(r) /\ EndSent(r)' = EndSent(r)
    BY <2>1 DEF Begun, EndSent
  <2>3. \A j \in 1 .. Len(wire'[r]) : OnWire(r, j)'
    BY <1>3, <2>1 DEF OnWire
  <2> QED
    BY <1>3, <1>4, <2>1, <2>2, <2>3
<1>9. CASE SayStarted(r)
  <2>1. /\ stage[r] = "running" /\ content' = content /\ events' = events /\ try' = try
        /\ speaker[r] = "start" /\ speaker'[r] = "talk" /\ Says(r, "MESSAGE_STARTED", <<>>)
    BY <1>1, <1>9 DEF SayStarted, Steps
  <2>2. wire[r] = <<>> /\ Len(wire[r]) = 0
    BY <2>1 DEF Working
  <2>3. Len(wire'[r]) = 1 /\ wire'[r][1].type = "MESSAGE_STARTED" /\ wire'[r] # <<>>
    <3>1. "MESSAGE_STARTED" \in SentTypes
      BY DEF SentTypes
    <3> QED
      <4>1. /\ Len(wire'[r]) = Len(wire[r]) + 1 /\ wire'[r] # <<>>
            /\ wire'[r][Len(wire[r]) + 1].type = "MESSAGE_STARTED"
        BY <2>1, <3>1, SaysMore, EmptyText
      <4> QED
        BY <2>2, <4>1
  <2>4. Begun(r)' = 1 /\ Begun(r) = 0 /\ EndSent(r)' = 0 /\ EndSent(r) = 0
    BY <2>1, <2>2, <2>3 DEF Begun, EndSent
  <2>5. \A j \in 1 .. Len(wire'[r]) : OnWire(r, j)'
    BY <2>1, <2>3 DEF OnWire
  <2>6. Len(content'[r]) + Begun(r)' + EndSent(r)' = Len(HeardOf(events'[r])) + Len(wire'[r])
    BY <1>2, <1>3, <2>1, <2>2, <2>3, <2>4
  <2> QED
    BY <1>3, <1>4, <2>1, <2>3, <2>5, <2>6
<1>10. CASE SayDelta(r)
  <2>1. /\ stage[r] = "running" /\ events' = events /\ try' = try
        /\ content'[r] = Append(content[r], try[r])
        /\ speaker[r] = "talk" /\ speaker'[r] = "talk" /\ Says(r, "MESSAGE_DELTA", <<try[r]>>)
    BY <1>1, <1>10 DEF SayDelta, Steps
  <2>2. try[r] \in Piece /\ <<try[r]>> \in Text
    <3>1. try[r] \in 0 .. MaxTries /\ try[r] # 0 /\ MaxTries \in Nat
      BY <1>1, <2>1, ConversationAssumption DEF Tried
    <3> QED
      BY <3>1 DEF Piece, Text
  <2>3. /\ Len(wire'[r]) = Len(wire[r]) + 1 /\ wire'[r] # <<>>
        /\ wire'[r][Len(wire[r]) + 1].type = "MESSAGE_DELTA"
        /\ wire'[r][Len(wire[r]) + 1].text = <<try[r]>>
        /\ \A j \in 1 .. Len(wire[r]) : wire'[r][j] = wire[r][j]
        /\ \A j \in 1 .. Len(wire'[r]) : j \in 1 .. Len(wire[r]) \/ j = Len(wire[r]) + 1
        /\ wire[r] # <<>> => wire'[r][1] = wire[r][1]
    <3>1. "MESSAGE_DELTA" \in SentTypes
      BY DEF SentTypes
    <3> QED
      BY <2>1, <2>2, <3>1, SaysMore
  <2>4. EndSent(r)' = 0 /\ EndSent(r) = 0
    BY <2>1 DEF EndSent
  <2>5. Begun(r)' = Begun(r)
    <3>1. CASE wire[r] = <<>>
      <4>1. Len(wire[r]) + 1 = 1
        BY <3>1
      <4> QED
        BY <2>3, <3>1, <4>1 DEF Begun
    <3>2. CASE wire[r] # <<>>
      BY <2>3, <3>2 DEF Begun
    <3> QED
      BY <3>1, <3>2
  <2>6. ASSUME NEW j \in 1 .. Len(wire'[r]) PROVE OnWire(r, j)'
    <3>1. CASE j \in 1 .. Len(wire[r])
      <4>1. OnWire(r, j) /\ wire'[r][j] = wire[r][j]
        BY <1>3, <2>1, <2>3, <3>1
      <4>2. wire[r][j].type \notin {"run_completed", "run_failed"}
        BY <2>1, <4>1 DEF OnWire
      <4> QED
        BY <2>1, <4>1, <4>2 DEF OnWire
    <3>2. CASE j = Len(wire[r]) + 1
      BY <2>1, <2>3, <3>2 DEF OnWire
    <3> QED
      BY <2>3, <3>1, <3>2
  <2>7. Len(content'[r]) = Len(content[r]) + 1 /\ \A i \in 1 .. Len(content'[r]) : content'[r][i] = try[r]
    <3>1. /\ Len(content'[r]) = Len(content[r]) + 1 /\ content'[r][Len(content[r]) + 1] = try[r]
          /\ \A i \in 1 .. Len(content[r]) : content'[r][i] = content[r][i]
      BY <1>2, <2>1, <2>2, AppendProperties DEF Text
    <3>2. \A i \in 1 .. Len(content'[r]) : i \in 1 .. Len(content[r]) \/ i = Len(content[r]) + 1
      BY <1>2, <3>1
    <3> QED
      BY <1>3, <2>1, <3>1, <3>2
  <2>8. Len(content'[r]) + Begun(r)' + EndSent(r)' = Len(HeardOf(events'[r])) + Len(wire'[r])
    <3>1. c + b + e = l + w /\ e = 0
      BY <1>0, <1>00, <2>1, <2>4
    <3>2. Len(content'[r]) = c + 1 /\ Len(wire'[r]) = w + 1
      BY <1>0, <2>3, <2>7
    <3>3. (c + 1) + b + 0 = l + (w + 1)
      BY <3>1
    <3> QED
      BY <1>0, <2>1, <2>4, <2>5, <3>2, <3>3
  <2> QED
    BY <1>3, <1>4, <2>1, <2>3, <2>6, <2>7, <2>8
<1>11. CASE SayEnd(r)
  <2>1. /\ stage[r] = "running" /\ events' = events /\ try' = try /\ content' = content
        /\ speaker[r] = "talk" /\ speaker'[r] = "sent"
    BY <1>1, <1>11 DEF SayEnd, Steps
  <2>2. PICK type \in {"run_completed", "run_failed"}, text \in Text :
          Says(r, type, text) /\ (type = "run_completed" => text = content[r])
    BY <1>2, <1>11, EmptyText DEF SayEnd
  <2>3. /\ Len(wire'[r]) = Len(wire[r]) + 1 /\ wire'[r] # <<>>
        /\ wire'[r][Len(wire[r]) + 1].type = type /\ wire'[r][Len(wire[r]) + 1].text = text
        /\ \A j \in 1 .. Len(wire[r]) : wire'[r][j] = wire[r][j]
        /\ \A j \in 1 .. Len(wire'[r]) : j \in 1 .. Len(wire[r]) \/ j = Len(wire[r]) + 1
        /\ wire[r] # <<>> => wire'[r][1] = wire[r][1]
    <3>1. type \in SentTypes
      BY DEF SentTypes
    <3> QED
      BY <2>2, <3>1, SaysMore
  <2>4. EndSent(r)' = 1 /\ EndSent(r) = 0
    BY <2>1 DEF EndSent
  <2>5. Begun(r)' = Begun(r)
    <3>1. CASE wire[r] = <<>>
      <4>1. Len(wire[r]) + 1 = 1
        BY <3>1
      <4> QED
        BY <2>3, <3>1, <4>1 DEF Begun
    <3>2. CASE wire[r] # <<>>
      BY <2>3, <3>2 DEF Begun
    <3> QED
      BY <3>1, <3>2
  <2>6. ASSUME NEW j \in 1 .. Len(wire'[r]) PROVE OnWire(r, j)'
    <3>1. CASE j \in 1 .. Len(wire[r])
      <4>1. OnWire(r, j) /\ wire'[r][j] = wire[r][j]
        BY <1>3, <2>1, <2>3, <3>1
      <4>2. wire[r][j].type \notin {"run_completed", "run_failed"}
        BY <2>1, <4>1 DEF OnWire
      <4>3. j # Len(wire'[r])
        BY <1>2, <2>3, <3>1
      <4> QED
        BY <2>1, <4>1, <4>2, <4>3 DEF OnWire
    <3>2. CASE j = Len(wire[r]) + 1
      BY <2>1, <2>2, <2>3, <3>2 DEF OnWire
    <3> QED
      BY <2>3, <3>1, <3>2
  <2>7. Len(content'[r]) + Begun(r)' + EndSent(r)' = Len(HeardOf(events'[r])) + Len(wire'[r])
    <3>1. c + b + e = l + w /\ e = 0
      BY <1>0, <1>00, <2>1, <2>4
    <3>2. Len(wire'[r]) = w + 1
      BY <1>0, <2>3
    <3>3. c + b + 1 = l + (w + 1)
      BY <3>1
    <3> QED
      BY <1>0, <2>1, <2>4, <2>5, <3>2, <3>3
  <2> QED
    BY <1>3, <1>4, <2>1, <2>3, <2>6, <2>7
<1> QED
  BY <1>5, <1>6, <1>7, <1>8, <1>9, <1>10, <1>11 DEF Step

LEMMA AnswerKept ==
  ASSUME ReadInv, AnswerInv, [ConversationNext]_conversationVars
  PROVE  AnswerInv'
<1>1. CASE UNCHANGED conversationVars
  <2>1. \A q \in Asked : /\ Underway(q) /\ Answered(q) /\ SameRows(q)
                         /\ stage'[q] = stage[q] /\ try'[q] = try[q] /\ speaker'[q] = speaker[q]
                         /\ content'[q] = content[q] /\ wire'[q] = wire[q] /\ events'[q] = events[q]
    BY <1>1 DEF conversationVars, speakerVars, AnswerInv, SameRows
  <2> QED
    BY <2>1, SameAnswer DEF AnswerInv
<1>2. CASE \E r \in Asked : Step(r)
  <2>1. PICK r \in Asked : Step(r)
    BY <1>2
  <2>2. Underway(r)' /\ Answered(r)'
    BY <2>1, UnderwayKept, AnsweredKept DEF AnswerInv, ReadInv
  <2>3. ASSUME NEW q \in Asked, q # r PROVE Underway(q)' /\ Answered(q)'
    <3>1. /\ SameRows(q)
          /\ stage'[q] = stage[q] /\ try'[q] = try[q] /\ speaker'[q] = speaker[q]
          /\ content'[q] = content[q] /\ wire'[q] = wire[q] /\ events'[q] = events[q]
      BY <2>1, <2>3, OthersSame DEF ReadInv
    <3> QED
      BY <3>1, SameAnswer DEF AnswerInv
  <2> QED
    BY <2>2, <2>3 DEF AnswerInv
<1> QED
  BY <1>1, <1>2 DEF ConversationNext, Step

LEMMA AnswerHeard ==
  ASSUME ReadInv, AnswerInv
  PROVE  AnswerIsWhatWasHeard
<1> SUFFICES ASSUME NEW r \in Asked
    PROVE  LET stored   == {messages[i].text : i \in {k \in DOMAIN messages : messages[k].run = r /\ messages[k].role = "assistant"}}
               chat     == [i \in DOMAIN events[r] |-> MapChatEvent(events[r][i])]
               followed == [i \in DOMAIN events[r] |-> MapEvent(events[r][i])]
           IN  /\ Heard(chat, "run_started", "token_delta") = Heard(followed, "AGENT_RUN_STARTED", "MESSAGE_DELTA")
               /\ Told(chat, "message_completed") = Told(followed, "MESSAGE_COMPLETED")
               /\ IF stage[r] = "completed"
                    THEN /\ stored = {Heard(chat, "run_started", "token_delta")}
                         /\ Told(chat, "message_completed") = stored
                    ELSE stored \subseteq {<<>>} /\ Told(chat, "message_completed") = {}
  BY DEF AnswerIsWhatWasHeard
<1> DEFINE stored   == {messages[i].text : i \in {k \in DOMAIN messages : messages[k].run = r /\ messages[k].role = "assistant"}}
           chat     == [i \in DOMAIN events[r] |-> MapChatEvent(events[r][i])]
           followed == [i \in DOMAIN events[r] |-> MapEvent(events[r][i])]
           told     == {events[r][i].text : i \in {k \in 1 .. Len(events[r]) : events[r][k].type = "message.completed"}}
<1>1. /\ DOMAIN messages = 1 .. Len(messages) /\ Len(messages) \in Nat
      /\ events \in [Asked -> Seq(StoredSet)]
  BY Types DEF ReadInv
<1>2. events[r] \in Seq(StoredSet)
  BY <1>1
<1>3. /\ Heard(chat, "run_started", "token_delta") = HeardOf(events[r])
      /\ Heard(followed, "AGENT_RUN_STARTED", "MESSAGE_DELTA") = HeardOf(events[r])
      /\ Told(chat, "message_completed") = told
      /\ Told(followed, "MESSAGE_COMPLETED") = told
  BY <1>2, HeardByAll
<1> HIDE DEF chat, followed
<1>4. Answered(r) /\ Rows
  BY DEF AnswerInv, ReadInv
<1>5. ASSUME stage[r] = "completed" PROVE told = {HeardOf(events[r])} /\ stored = {HeardOf(events[r])}
  <2>1. told = {HeardOf(events[r])}
    BY <1>4, <1>5 DEF Answered
  <2>2. PICK j \in 1 .. Len(messages) - 1 :
          messages[j + 1].run = r /\ messages[j + 1].role = "assistant"
    BY <1>4, <1>5 DEF Rows
  <2>3. j + 1 \in 1 .. Len(messages)
    BY <1>1
  <2>4. stored = {HeardOf(events[r])}
    BY <1>1, <1>4, <1>5, <2>2, <2>3 DEF Answered
  <2> QED
    BY <2>1, <2>4
<1>6. ASSUME stage[r] # "completed" PROVE told = {} /\ stored \subseteq {<<>>}
  BY <1>1, <1>4, <1>6 DEF Answered, Rows
<1> QED
  BY <1>3, <1>5, <1>6 DEF chat, followed, stored

LEMMA AnswerAlways == ConversationSpec => []AnswerInv
<1>1. ConversationInit => AnswerInv
  <2> SUFFICES ASSUME ConversationInit PROVE AnswerInv
    OBVIOUS
  <2>1. ASSUME NEW r \in Asked PROVE Underway(r) /\ Answered(r)
    <3>1. stage[r] = "none" /\ events[r] = <<>>
      BY DEF ConversationInit
    <3>2. \A i \in 1 .. Len(<<>>) : FALSE
      OBVIOUS
    <3> QED
      BY <3>1, <3>2 DEF Underway, Answered
  <2> QED
    BY <2>1 DEF AnswerInv
<1>2. AnswerInv /\ ReadInv /\ [ConversationNext]_conversationVars => AnswerInv'
  BY AnswerKept
<1> QED
  BY <1>1, <1>2, ReadAlways, PTL DEF ConversationSpec

\* The stored answer of a completed run is what was heard of its last attempt and
\* what was told at its end, by either stream, for any number of runs, attempts and
\* pieces (AnswerIsWhatWasHeard).
THEOREM AnswersAreHeard == ConversationSpec => []AnswerIsWhatWasHeard
<1>1. ReadInv /\ AnswerInv => AnswerIsWhatWasHeard
  BY AnswerHeard
<1> QED
  BY <1>1, ReadAlways, AnswerAlways, PTL
=============================================================================
