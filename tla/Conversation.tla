---------------------------- MODULE Conversation ----------------------------
(***************************************************************************)
(* The messages of one chat session, and how they become the request that  *)
(* a run puts to its model: the sessions service and the message rows      *)
(* (orchestrator-go), and the worker that fetches the history, streams the *)
(* answer and reports its end (agent-runtime-go).  Several runs of the     *)
(* session may be at work, each on a worker of its own; a worker that is   *)
(* lost takes what it has not delivered with it, and its run starts again. *)
(* Who holds a run is the subject of Dispatch.                             *)
(***************************************************************************)
EXTENDS Naturals, Sequences, FiniteSets, SequencesExt

CONSTANTS
  Asked,       \* the runs of the session, one for each message of the user
  History,     \* messages that a worker fetches, 50 in the code
  MaxPieces,   \* bound on the pieces of an answer
  MaxTries     \* bound on the attempts of a run

ASSUME ConversationAssumption ==
  History \in Nat \ {0} /\ MaxPieces \in Nat /\ MaxTries \in Nat

VARIABLES
  messages,   \* the message rows in the order of their sequence
  stage,      \* agent_runs.status
  try,        \* how often the run has been claimed
  speaker,    \* where the agent that works on it is
  prompt,     \* the messages it puts to the model
  content,    \* what the model has answered so far
  wire,       \* updates sent to the orchestrator, not handled yet
  events      \* the events of each run that concern it and its messages

speakerVars      == <<speaker, prompt, content>>
conversationVars == <<messages, stage, try, speakerVars, wire, events>>

Roles      == {"user", "assistant"}
Piece      == 1 .. MaxTries
Text       == Seq(Piece)
Question   == <<>>
MessageSet == [run : Asked, role : Roles, text : Text]
StageSet   == {"none", "queued", "running", "completed", "failed", "cancelled"}
SpeakerSet == {"idle", "fetch", "start", "talk", "sent"}
SentTypes  == {"MESSAGE_STARTED", "MESSAGE_DELTA", "run_completed", "run_failed"}

\* The types of events that are stored here, as the rows spell them and as the
\* messages do.
EventTypes ==
  {"message.started", "message.delta", "message.completed", "agent.run.queued",
   "agent.run.started", "agent.run.completed", "agent.run.failed", "agent.run.cancelled"}

MapEventType ==
  [type \in EventTypes |->
     CASE type = "message.started"     -> "MESSAGE_STARTED"
       [] type = "message.delta"       -> "MESSAGE_DELTA"
       [] type = "message.completed"   -> "MESSAGE_COMPLETED"
       [] type = "agent.run.queued"    -> "AGENT_RUN_QUEUED"
       [] type = "agent.run.started"   -> "AGENT_RUN_STARTED"
       [] type = "agent.run.completed" -> "AGENT_RUN_COMPLETED"
       [] type = "agent.run.failed"    -> "AGENT_RUN_FAILED"
       [] type = "agent.run.cancelled" -> "AGENT_RUN_CANCELLED"]

EventNames == Range(MapEventType)

\* The spelling of the rows, from that of the messages.
RuntimeEventType(name) == CHOOSE type \in EventTypes : MapEventType[type] = name

ConversationInit ==
  /\ messages = <<>>
  /\ stage = [r \in Asked |-> "none"]
  /\ try = [r \in Asked |-> 0]
  /\ speaker = [r \in Asked |-> "idle"]
  /\ prompt = [r \in Asked |-> <<>>]
  /\ content = [r \in Asked |-> <<>>]
  /\ wire = [r \in Asked |-> <<>>]
  /\ events = [r \in Asked |-> <<>>]

Event(type, text)      == [type |-> type, text |-> text]

\* What the SendMessage stream of a run makes of an event: its own kinds of some,
\* the stored event of the others.
MapChatEvent(event) ==
  CASE event.type = "message.delta"       -> Event("token_delta", event.text)
    [] event.type = "message.completed"   -> Event("message_completed", event.text)
    [] event.type = "agent.run.started"   -> Event("run_started", <<>>)
    [] event.type = "agent.run.completed" -> Event("run_completed", <<>>)
    [] event.type = "agent.run.failed"    -> Event("run_failed", <<>>)
    [] event.type = "agent.run.cancelled" -> Event("run_cancelled", <<>>)
    [] OTHER                              -> Event(MapEventType[event.type], event.text)

\* What ListEvents and SubscribeSessionEvents make of it.
MapEvent(event) == Event(MapEventType[event.type], event.text)

Appends(r, type, text) == events' = [events EXCEPT ![r] = Append(@, Event(type, text))]

(***************************************************************************)
(* The orchestrator                                                        *)
(***************************************************************************)
\* EnqueueUserMessage: the question, and the message its answer will be.
EnqueueUserMessage(r) ==
  /\ stage[r] = "none"
  /\ stage' = [stage EXCEPT ![r] = "queued"]
  /\ messages' = messages \o
       <<[run |-> r, role |-> "user", text |-> Question],
         [run |-> r, role |-> "assistant", text |-> <<>>]>>
  /\ Appends(r, "agent.run.queued", <<>>)
  /\ UNCHANGED <<try, speakerVars, wire>>

\* ClaimNextJob, and the assignment to a worker.
ClaimRun(r) ==
  /\ stage[r] = "queued" /\ speaker[r] = "idle" /\ try[r] < MaxTries
  /\ stage' = [stage EXCEPT ![r] = "running"]
  /\ try' = [try EXCEPT ![r] = @ + 1]
  /\ speaker' = [speaker EXCEPT ![r] = "fetch"]
  /\ Appends(r, "agent.run.started", <<>>)
  /\ UNCHANGED <<messages, prompt, content, wire>>

\* Mutant: the rows are ordered the other way round before they are limited.
FirstMessages(limit) ==
  SubSeq(messages, 1, IF Len(messages) > limit THEN limit ELSE Len(messages))

\* The last messages of the session, oldest first.
ListMessages(limit) ==
  SubSeq(messages, IF Len(messages) > limit THEN Len(messages) - limit + 1 ELSE 1, Len(messages))

Handles(r, type) == stage[r] = "running" /\ wire[r] # <<>> /\ Head(wire[r]).type = type

\* Mutant: a delta is written to the message as it arrives.
AppendToMessage(r) ==
  /\ \/ Handles(r, "MESSAGE_STARTED") /\ UNCHANGED messages
     \/ /\ Handles(r, "MESSAGE_DELTA")
        /\ messages' = [i \in DOMAIN messages |->
             IF messages[i].run = r /\ messages[i].role = "assistant"
               THEN [messages[i] EXCEPT !.text = @ \o Head(wire[r]).text] ELSE messages[i]]
  /\ Appends(r, RuntimeEventType(Head(wire[r]).type), Head(wire[r]).text)
  /\ wire' = [wire EXCEPT ![r] = Tail(@)]
  /\ UNCHANGED <<stage, try, speakerVars>>

\* AppendRuntimeEvent, of an event that normalizeRuntimeEvent lets through.
AppendRuntimeEvent(r) ==
  /\ Handles(r, "MESSAGE_STARTED") \/ Handles(r, "MESSAGE_DELTA")
  /\ Appends(r, RuntimeEventType(Head(wire[r]).type), Head(wire[r]).text)
  /\ wire' = [wire EXCEPT ![r] = Tail(@)]
  /\ UNCHANGED <<messages, stage, try, speakerVars>>

\* The agent's work on the run is over, and what it sent last is handled or lost.
Dismissed(r) ==
  /\ speaker' = [speaker EXCEPT ![r] = "idle"]
  /\ wire' = [wire EXCEPT ![r] = <<>>]
  /\ prompt' = [prompt EXCEPT ![r] = <<>>]
  /\ content' = [content EXCEPT ![r] = <<>>]
  /\ UNCHANGED try

\* CompleteRunWithEvent: the run, its message and two events, all or none.
CompleteRun(r) ==
  /\ Handles(r, "run_completed") /\ Head(wire[r]).text # <<>>
  /\ stage' = [stage EXCEPT ![r] = "completed"]
  /\ messages' = [i \in DOMAIN messages |->
       IF messages[i].run = r /\ messages[i].role = "assistant"
         THEN [messages[i] EXCEPT !.text = Head(wire[r]).text] ELSE messages[i]]
  /\ events' = [events EXCEPT ![r] = @ \o
       <<Event("message.completed", Head(wire[r]).text), Event("agent.run.completed", <<>>)>>]
  /\ Dismissed(r)

FailRun(r) ==
  /\ Handles(r, "run_failed")
  /\ stage' = [stage EXCEPT ![r] = "failed"]
  /\ Appends(r, "agent.run.failed", <<>>)
  /\ Dismissed(r)
  /\ UNCHANGED messages

\* CancelRun, whatever the worker is about to say of it.
CancelRun(r) ==
  /\ stage[r] \in {"queued", "running"}
  /\ stage' = [stage EXCEPT ![r] = "cancelled"]
  /\ Appends(r, "agent.run.cancelled", <<>>)
  /\ UNCHANGED <<messages, try, speakerVars, wire>>

\* The worker's stream ends, of itself, or because an update was refused: one of a
\* run that is not running, or a completion without content.  A running run waits
\* for the next worker.
LoseWorker(r) ==
  /\ speaker[r] # "idle"
  /\ stage' = [stage EXCEPT ![r] = IF @ = "running" THEN "queued" ELSE @]
  /\ Dismissed(r)
  /\ UNCHANGED <<messages, events>>

(***************************************************************************)
(* The worker                                                              *)
(***************************************************************************)
Steps(r, from, to) == speaker[r] = from /\ speaker' = [speaker EXCEPT ![r] = to]

Says(r, type, text) == wire' = [wire EXCEPT ![r] = Append(@, Event(type, text))]

\* chatRole: no other role is passed to the model.
ChatRole(message) == message.role \in {"system", "user", "assistant"}

\* FetchMessages goes through what it gets from the last message back.
FetchMessages(got) ==
  LET Nth(n)  == got[Len(got) + 1 - n]
      out[n \in 0 .. Len(got)] ==
        IF n = 0 THEN <<>>
        ELSE IF ChatRole(Nth(n)) THEN Append(out[n - 1], Nth(n)) ELSE out[n - 1]
  IN  out[Len(got)]

\* Execute adds the question.
FetchHistory(r) ==
  /\ Steps(r, "fetch", "start")
  /\ prompt' = [prompt EXCEPT ![r] =
       Append(FetchMessages(ListMessages(History)), [run |-> r, role |-> "user", text |-> Question])]
  /\ UNCHANGED <<messages, stage, try, content, wire, events>>

SayStarted(r) ==
  /\ Steps(r, "start", "talk") /\ Says(r, "MESSAGE_STARTED", <<>>)
  /\ UNCHANGED <<messages, stage, try, prompt, content, events>>

\* A delta of the model.
SayDelta(r) ==
  /\ Steps(r, "talk", "talk") /\ Len(content[r]) < MaxPieces
  /\ content' = [content EXCEPT ![r] = Append(@, try[r])]
  /\ Says(r, "MESSAGE_DELTA", <<try[r]>>)
  /\ UNCHANGED <<messages, stage, try, prompt, events>>

SayEnd(r) ==
  /\ Steps(r, "talk", "sent")
  /\ Says(r, "run_completed", content[r]) \/ Says(r, "run_failed", <<>>)
  /\ UNCHANGED <<messages, stage, try, prompt, content, events>>

ConversationNext ==
  \E r \in Asked :
    \/ EnqueueUserMessage(r) \/ ClaimRun(r) \/ AppendRuntimeEvent(r)
    \/ CompleteRun(r) \/ FailRun(r) \/ CancelRun(r) \/ LoseWorker(r)
    \/ FetchHistory(r) \/ SayStarted(r) \/ SayDelta(r) \/ SayEnd(r)

ConversationSpec == ConversationInit /\ [][ConversationNext]_conversationVars

(***************************************************************************)
(* Properties                                                              *)
(***************************************************************************)
ConversationTypeOK ==
  /\ messages \in Seq(MessageSet)
  /\ stage \in [Asked -> StageSet]
  /\ try \in [Asked -> 0 .. MaxTries]
  /\ speaker \in [Asked -> SpeakerSet]
  /\ prompt \in [Asked -> Seq(MessageSet)]
  /\ content \in [Asked -> Text]
  /\ wire \in [Asked -> Seq([type : SentTypes, text : Text])]
  /\ events \in [Asked -> Seq([type : EventTypes, text : Text])]

\* What a client has put together since the last attempt began, from what it is
\* sent, and the texts it was told were complete.
Heard(sent, begun, delta) ==
  LET heard[n \in 0 .. Len(sent)] ==
        IF n = 0 \/ sent[n].type = begun THEN <<>>
        ELSE IF sent[n].type = delta THEN heard[n - 1] \o sent[n].text
        ELSE heard[n - 1]
  IN  heard[Len(sent)]
Told(sent, completed) == {sent[i].text : i \in {k \in DOMAIN sent : sent[k].type = completed}}

\* However many attempts it took, and whatever was lost with their workers, the
\* stored answer of a completed run is what was heard of its last attempt and what
\* was told at its end, by the stream of the run and by a follower of the session
\* alike; a run that did not complete has left nothing in its message, though
\* clients may have heard some of it.
AnswerIsWhatWasHeard ==
  \A r \in Asked :
    LET stored   == {messages[i].text : i \in {k \in DOMAIN messages : messages[k].run = r /\ messages[k].role = "assistant"}}
        chat     == [i \in DOMAIN events[r] |-> MapChatEvent(events[r][i])]
        followed == [i \in DOMAIN events[r] |-> MapEvent(events[r][i])]
    IN  /\ Heard(chat, "run_started", "token_delta") = Heard(followed, "AGENT_RUN_STARTED", "MESSAGE_DELTA")
        /\ Told(chat, "message_completed") = Told(followed, "MESSAGE_COMPLETED")
        /\ IF stage[r] = "completed"
             THEN /\ stored = {Heard(chat, "run_started", "token_delta")}
                  /\ Told(chat, "message_completed") = stored
             ELSE stored \subseteq {<<>>} /\ Told(chat, "message_completed") = {}

\* A worker's prompt is a window of the conversation without a gap, newest message
\* first, then the question; it reaches past the question and its empty answer, and
\* back to the first message unless it is full; and an answer in it is the one that is
\* stored, or is empty: a run never reads half of what another is writing.
PromptIsAWindow ==
  \A r \in Asked :
    prompt[r] # <<>> =>
      LET seen == Reverse(Front(prompt[r]))
          own  == CHOOSE i \in DOMAIN messages : messages[i].run = r /\ messages[i].role = "user"
      IN  /\ Last(prompt[r]) = [run |-> r, role |-> "user", text |-> Question]
          /\ \E k \in 0 .. Len(messages) - Len(seen) :
               /\ own + 1 <= k + Len(seen)
               /\ k = 0 \/ Len(seen) = History
               /\ \A i \in DOMAIN seen :
                    /\ seen[i].run = messages[k + i].run /\ seen[i].role = messages[k + i].role
                    /\ seen[i].text \in {<<>>, messages[k + i].text}
                    /\ seen[i].run = r => seen[i].text = <<>>
=============================================================================
