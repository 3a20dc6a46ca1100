# Verification of ProjectTuring

TLA+ models of the backend of ProjectTuring, with the TLC runs that check them
and the TLAPS proofs about them. Paths below are relative to the repository;
`RT` is `turing-backend/orchestrator-go/internal/service/runtime/service.go`,
`repository/`, `service/` and `db/` are under `turing-backend/orchestrator-go/internal/`,
`agent-runtime-go/` and `mcp-files/` under `turing-backend/`.

Check a model with `tlc -workers 2 -config Dispatch_tool.cfg MCDispatch`: a
`Dispatch_*.cfg` goes with `MCDispatch`, an `EventStream_*.cfg` with `EventStream`,
`MCStreams.cfg` and `MCProcesses.cfg` with the modules of their names. Check a proof
with `tlapm Dispatch_proofs.tla`.

## 1. The system

A user's chat message becomes a *run*. The orchestrator stores it in SQLite with a
*job*, hands the job to a *worker process* over a bidirectional gRPC stream, lets
the worker stream events and ask for tool calls, asks the user to approve the
dangerous ones, and streams everything back to the chat client. Events are also
kept in a log per session that any client can list, replay and follow.

### Components, their state and operations

| Component | State | Operations | How it interacts |
|---|---|---|---|
| Run, job and approval rows (`repository/runs.go`, `jobs.go`, `approvals.go`) | `agent_runs.status`, `jobs.status/lease_owner/attempt`, `approvals.status`, the `agent.run.*` events | enqueue, claim, requeue, complete, fail, cancel; create, approve, deny, expire, consume an approval | called by every service; one database connection, so one transaction at a time |
| Runtime service (`service/runtime`) | `Server.workers` by id; per worker its assignments, a buffered command channel, `closed`; a lock each | `ConnectWorker` (a handler and a reader goroutine per stream), `DispatchPending`, `CancelRun`, `NotifyApprovalUpdated` | streams to the worker processes; called by chat and approval handlers |
| Chat service (`service/chat`) | per call: its run, `lastSent` | `SendMessage` enqueues, dispatches, polls the log, cancels when the client goes away | repository, bus, runtime service |
| Approval service (`service/approvals`) | – | approve, deny, get (lazily expires), consume | repository, bus, runtime service; the worker polls it, the file server consumes |
| Worker process (`agent-runtime-go`) | active runs, each a goroutine with a context; decision channels | receive commands, run the agent, stream updates, post beacons, poll approvals | runtime service, approval service, MCP servers, model server |
| Event log, bus and subscriptions (`repository/events.go`, `service/events`) | `events` rows with a sequence per session; subscriptions with a bounded channel | append, publish, `ListEvents`, `SubscribeSessionEvents` | written by all services; read by clients and by `SendMessage` |
| Tool call rows (`repository/toolcalls.go`), tool policy (`service/tools`) | `tool_calls` | insert before, update after; a table of policies | runtime service |
| Approval token and file tools (`mcp-files`) | the workspace directory; the approval of each write | verify the token, consume the approval, read, create, update, search | worker process, approval service |
| System tools (`mcp-system`) | – | time and host information | worker process |
| Sessions and message history | `sessions`, `messages` | create, list, archive; the window of history the agent gets | chat and runtime services |
| Safe JSON (`safejson`, in both processes) | – | normalise, convert to and from a Struct, encode, decode, truncate | beacons, events, hashes, MCP requests |
| Database, migrations and wiring (`db`, `app`, `cmd/server`) | the applied versions; per process its listeners, servers and handlers | open, migrate, listen, serve, stop, close | carries every service |
| Audit log, authentication, configuration | – | stateless, or rows nothing reads | everything |
| Model providers, MCP client | – | one HTTP request each | worker process |
| Flutter client | the chat screen | consumes the chat and event streams | orchestrator |

### What is hard in it

* *Interleaving.* Four kinds of goroutine call `DispatchPending` at once (a
  stream's handler, its reader, `SendMessage`, the approval handlers), each with
  its own snapshot of the workers; teardown of a stream is five separate steps;
  approval, cancellation and completion of the same run race, each in a
  transaction of its own that reads only some of the rows.
* *Windows between check and use.* A run's status is read, then acted on in later
  transactions (`RT:546`); a claimed run exists only in a goroutine's local
  variable until it reaches the worker's channel (`RT:253`); events are published
  after the transaction that appended them, under no lock.
* *Failure.* Worker streams break, clients hang up, calls time out after five
  seconds, the orchestrator is restarted and forgets everything that is not a row,
  errors of a requeue are dropped (`RT:200`), an update the orchestrator rejects
  ends the stream of every run of that worker.
* *Two of everything.* The arguments of a call go to the orchestrator as a protobuf
  Struct and to the file server as JSON, and both ends hash them; the policies of the
  tools are a table in one process and a list in another; a text is cut by two
  different loops. A file has no lock, is truncated before it is written and is
  read in parts.
* *Limits.* The command channel holds as many commands as the worker has slots, a
  subscription 128 events, a replay 500.
* *Liveness.* Slots must come back, queued runs must be served, and chat streams
  must end.

What makes each component correct, in a line: the *rows* of a run agree and a run
that has ended stays as it is; a run is in *at most one worker's hands*, no worker
has more than it asked for, nobody drops a run, slots come back; a *chat stream*
sees its run's events and its end; a *subscriber* gets events in order and loses
none but at the limits of channel and replay or when they are published out of
order; an *approval* is consumed at most once, and only for
the call it was given for; a *file* is only changed by an approved call, and the
*row of a call* says what happened to it; the *agent* is given the right window of
history, and the *answer* kept is the one heard; a *worker process* ends every job
it is given, says so once, and stops what it is told to stop; what the user
*consented* to is what the file server checks; a *migration* takes effect once, and
the database outlives everybody who uses it.

## 2. The modules

| Module | Models | Used by |
|---|---|---|
| `Repository` | the rows and the transactions that change them | `Dispatch` |
| `Dispatch` | runtime service, chat and approval handlers and worker processes around the repository | `MCDispatch`, proofs |
| `RunLifecycle` | abstract: what the orchestrator promises about one run and who holds it | `Dispatch` (refinement) |
| `MCDispatch` | which connection has which worker id, for TLC | runs |
| `Dispatch_proofs`, `DispatchLifecycle_proofs` | theorems about `Dispatch`; the refinement | – |
| `EventStream` | log, bus, subscriptions, chat polling, listing | runs, proofs |
| `EventStream_proofs` | theorems about `EventStream` | – |
| `ToolCalls` | one tool call after another: agent, reader, user, file server | `MCProcesses`, proofs |
| `ToolCalls_proofs` | theorems about `ToolCalls` | – |
| `WorkerProcess` | the Recv loop, the goroutines of jobs and of model answers | `MCProcesses`, proofs |
| `RunReports` | abstract: what a worker process promises about each job | `WorkerProcess` (refinement) |
| `Orchestrator` | the process: migrations, listeners, serving, stopping | `MCProcesses`, proofs |
| `Conversation` | the messages of a session, the window of history, the answer through its attempts | `MCStreams` |
| `Text` | cutting texts at a number of bytes | `FileTools` |
| `FileTools` | the file server's tools on one path | `MCStreams` |
| `Arguments` | the conversions of a call's arguments on their two ways | `Consent` |
| `Consent` | the tool tables of both ends and the token | `MCStreams` |
| `Conversation_proofs` | theorems about `Conversation` | `MCStreams_proofs` |
| `FileTools_proofs` | theorems about `Text` and `FileTools` | `MCStreams_proofs` |
| `MCStreams`, `MCProcesses` | three independent parts each, for TLC to check in one run | runs, proofs |
| `Processes_proofs` | theorems about `WorkerProcess`, its refinement among them, `Orchestrator` and `MCProcesses` | – |
| `MCStreams_proofs` | theorems about `Arguments`, `Consent` and `MCStreams` | – |

The definitions marked "Mutant" in a comment are small, plausible bugs of the
definition that follows them. Nothing uses them: each shows, put in that
definition's place, that a property is able to fail.

### Repository

`db/connection.go` opens SQLite with one connection, so each repository method, a
transaction, is one atomic operator. Its guard is the `WHERE` of its `UPDATE`s; if
it is false the method returns an error and nothing changes. Payloads, messages and
timestamps are left out. `log` keeps a run's `agent.run.*` events only. The order
of pending jobs is left open: it is by `created_at`, a timestamp with trailing
zeros dropped, then by a random id. `MarkRunRunning`, `CompleteRun`, `FailRun` and
`CancelRun` are called by tests only and are left out.

### Dispatch

State: `workers` is `Server.workers`; a *connection* is one worker object and
`conn` is where its handler is (accepting = registered and in its first
`DispatchPending`; serving; dying = leaving the loop; removed = out of the map;
closed); `assign`, `cmds` are the worker's fields; `limbo` is the slice
`requeueAssignments` is working on; `reader` is the reader goroutine's program
counter; `up` the updates in flight; `proc` what the process does with each run;
`chat`, `decider`, `disp` the program counters of the `SendMessage` handler, of the
approval handler and of each goroutine's `DispatchPending`.

| Actions | Code |
|---|---|
| `Connect`, `HandlerLeaves`, `SendFails`, `RequeueLimbo`, `Deregister`, `Close`, `HandlerReturns` | `ConnectWorker` (`RT:68-202`, `334-348`): registration, the loop, teardown step by step |
| `DispatchStart` … `DispatchError` | `DispatchPending`, `snapshotWorkers`, `dispatchToWorker` (`RT:204-262`) |
| `Take`, `ReaderRejects`, `ReaderNotes`, `ReaderAsks`, `ReaderAnswers`, `ReaderEnds`, `ReaderReleases`, … | the reader goroutine and `applyUpdate` (`RT:107-142`, `308-639`) |
| `SendMessage`, `ChatEnds`, `CancelRun`, `ChatHangsUp`, `ChatCancels`, `ChatTells` | `service/chat/service.go:34-168`, `223-238`, `RT:264-306` |
| `Decide`, `DeciderNotifies` | `service/approvals/service.go:77-154`, `RT:698-719` |
| `SendCommand`, `Proc…` | `agent-runtime-go/internal/worker`, `tools/runner.go`, `agent/general_assistant.go`, `orchestrator/client.go` |
| `ClientDrop`, `Restart`, hang-ups, empty answers | faults, at most `MaxFaults`, of the kinds in `Faults` |

Abstractions. Looking up a run's worker and sending it a command are one step, as
are the release of a refused run's slot and the notification. The worker process
ends with its stream: it exits when `Run` returns
(`cmd/runtime/main.go`). What the process has started elsewhere goes on without it:
a request to the file server is `ToolCalls`'s subject. Database errors are not modelled, nor a
`SendMessage` stream that fails without its client being gone. Payloads of tool
calls, and the `tool_calls` rows, are left out; the two tools the agent can ask for
are the safe one and the one that needs an approval. `message.*` and `tool.*`
events are one kind of update, "event".

### EventStream

One session. An event is its sequence, the position in `log`; its entry says whose
run it is and whether it is terminal. `pending` holds what a goroutine has
committed and not yet published. `SubscribeSessionEvents` is in program order:
`Subscribe` (first replay read), `SendReplayed`, `Register` (bus subscription),
`CatchUp` (second replay read), `SendReplayed`, `GoLive`, `Receive`; it can break
anywhere (`Disconnect`, losing what was in flight) and the client can come back
after the last event it has seen (`Resubscribe`). A `SendMessage` handler reads a
page (`ChatReads`) and sends it event by event (`ChatSends`). What its bus
subscription delivers is only a wake-up and its 50 ms ticker is another, so the
subscription is left out. `ListEvents` is two statements in no transaction.
After a run has ended no runtime event, completion, failure or cancellation of it
is accepted, but approval and tool events still are; the model allows these.

### ToolCalls

A closer look at what `Dispatch` shows as one exchange: a call of `files.create`,
the one tool that needs an approval and that the agent can ask for. Four parties
take part. The *goroutine* of the call (`pc`, `outcome`) posts the BEFORE beacon,
waits for the decision, polls the approval, calls the file server, posts the AFTER
beacon and reports the run's end. The *reader* of its stream (`reader`, fed by
`up`) handles each beacon in the separate transactions the code uses: the run's
status is read, the row is inserted, the approval is created, the decision is sent.
The *user* approves in two steps with the clock between them (`decider`, `old`),
denies or cancels. The *file server* (`request`, `file`, `wrote`) consumes the
approval, looks for the file and writes it, in a goroutine that nobody cancels.

| Actions | Code |
|---|---|
| `Begin`, `Poll…`, `CallAnswered`, `CallLost`, `Interrupted` | `tools/runner.go:36-133`, `orchestrator/client.go:71-110`, `mcp/client.go:49-106`, `worker.go:142-201` |
| `Reads…`, `RecordToolCallBefore`, `CreateApproval`, `DecisionDelivered`, `RecordToolCallAfter`, `AfterAnswered`, `ReaderRejects` | `RT:107-142`, `546-696`, `repository/toolcalls.go`, `service/approvals:45-75` |
| `ApproveReads`, `ApproveCommits`, `ExpireApproval`, `DenyApproval`, `CancelRun` | `service/approvals:77-154`, `repository/approvals.go:83-186` |
| `ConsumeApproval`, `ValidateFails`, `Stat`, `WriteFile`, `WriteFails` | `mcp-files/internal/approval/jwt.go`, `tools/files.go:171-191`, `repository/approvals.go:188-212` |
| `WorkerDrops`, `Requeue` | the stream or the process is lost, `repository/jobs.go:189-210` |

A call is an attempt to execute its run, with a fresh id. An attempt after a
disconnection runs in another process while the request of the first may still be
at the file server. The file server tells only whether the file exists, so one path
is enough. Hashes, claims and signatures are abstracted: the agent presents its own
call's token, and `ValidateFails` stands for every reason to refuse it, the
token's own 60 seconds among them. Only the order of events is left of time: an
approval gets `old` at some moment, when it can be expired and its poll can time
out. `Dispatch` has the slots, channels and teardown that `ToolCalls` leaves out.

A consequence that `CreatedOncePerRun` allows: a run whose file was created, and
whose worker was lost before its end was reported, is executed again, finds the
file and fails.

### WorkerProcess and RunReports

`Dispatch` shows a worker process as the orchestrator sees it; this is its inside,
for one stream. `loop` is where `Run` is: it receives, or is at a job it has found
in the table, waits for that job's goroutine, or acknowledges. `active`, `stopping`
and `cancelled` are the table `Worker.active` with each entry's `stop` flag and
context; `waiter` the channel `Worker.decisions` has for a job. `task` is the
program counter of a job's goroutine, `model` that of the goroutine that reads the
model's answer over an unbuffered channel.

| Actions | Code |
|---|---|
| `StartRun`, `DeliverDecision`, `ActiveRun`, `StopJob`, `StoppedJob`, `AckCancel` | `agent-runtime-go/internal/worker/worker.go:44-140`, `217-290` |
| `FetchMessages`, `EmitStarted`, `StreamChat`, `TakeEvent`, `EmitDelta`, `AnswerEnds`, `EmitCompleted`, `EmitFailed`, `Leave`, `Remove` | `agent/general_assistant.go`, `worker.go` |
| `OllamaReads`, `OpenAIReads`, `SendGivenUp` | `llm/ollama.go`, `llm/openai_compatible.go`, `llm/provider.go` |
| `PostBefore` … `GiveUpWaiting` | `tools/runner.go`, `worker.go:142-201` |
| `AssignJob`, `RevokeJob`, `ReceiveUpdate`, `StreamBreaks` | the other end of the stream, as `Dispatch` has it |

`RunReports` is what the orchestrator may rely on: a job that was assigned ends
once, a cancelled one is acknowledged once, and nothing follows. `said` records what
the updates have told. The two meet in `ImplementsReports`, checked and proved.

### Conversation

The message rows of one session, `FetchHistory` (`ListMessages`, reversed, then the
question once more), and the answer: its pieces are events, its text becomes the
assistant's message when the run completes. Several runs of the session are at work
at once, each on its worker; a lost worker takes its undelivered updates with it and
the next attempt answers anew. `events` keeps the stored types, and `MapChatEvent`
and `MapEvent` the two ways in which a client is told. A piece of text is the number
of the attempt that said it, which is all that tells one answer from another.

### FileTools and Text

Requests to the file server at one path, each a goroutine
(`mcp-files/internal/tools/files.go`): it looks (`StatSize`, `FreePath`,
`OpenGuard`), reads what is there (`os.ReadFile`, called by `Read`, `Search` and
`Update`), or opens the file, which truncates it, and writes.

| Actions | Code |
|---|---|
| `StatSize`, `FreePath`, `OpenGuard` | `os.Stat` (`files.go:80`, `:150`, `:181`) and the opening for `files.go:204` |
| `ReadPart`, and `AtEnd` in `Read`, `Search`, `SameHash` | one `read` of `os.ReadFile` (`:87`, `:155`, `:204`), and the one that finds the end |
| `OpenFile`, `WriteText` | `os.WriteFile` (`:187`, `:212`): truncation, and the one write |

`os.ReadFile` is several system calls, so a read is any number of parts, each from
where the last one ended, of a file that may be another by then: `bytes` is what a
request has read so far. It can therefore return the beginning of one text with the
tail of the next although no two writes have crossed. One system call is one step.
A write may fail half way and leave the beginning of its text. `limit` goes from -1
to `MaxReadBytes`, since `readLimit` makes 0 of a fraction and may make a negative
number of one that no `int` holds, with which `content[:limit]` panics.

A text is a sequence of bytes with characters of one or two of them. `met` records
whom a write came upon between look and end. The properties say what is left without
that (a guarded write replaced what it looked at, a read is the beginning of one
text), and what is left in any case: whole characters within the limit, each byte
from its place in some text. `Text` has the cutting loops of `files.go` and
`safejson.go` as recursive functions, checked against the definition of the longest
valid prefix; snippets, which are cut anywhere, are only promised to hold their match.

### Arguments and Consent

Pure operators. `ToStruct` and `MarshalCanonical` are the way of a call's arguments
to the orchestrator, `RequestArgs` and `CanonicalJSON` the way to the file server.
Values keep their Go kind; numbers are integers with a sign, and keep what the
conversions do to them: a double holds those up to `Exact`, and above only the even
ones, rounded half to even. A `float32` has digits of its own in JSON, which mean the
double that the Struct has or a neighbour of it; a `json.Number` -0 is an integer, and
so 0, on the way to the orchestrator and a double, and so -0, at the file server; a
`json.Number` that is not JSON (`+5`) reaches the orchestrator only; a nil list or map
is an empty one on the one way and null on the other. `Ambiguous` lists these, and
`BothWaysAgree` says that the two hashes are the same exactly if there is none of
them. The arguments this worker sends today are texts (`agent/general_assistant.go`),
so none of this bites: it is what `map[string]any` lets in. `Consent` has the policy table, the list of guarded tools, and the token's
claims. The signature is an assumption: nobody signs without the key.

### Orchestrator

`main` is where a process is in `run()`: migrating (`CountRows` outside a
transaction, `CommitMigration` inside one), listening on two ports, serving,
stopping. Processes may be killed at any moment and a second one may be started on
the same database. `server` is each gRPC server's state: draining
(`GracefulStop`), forced (`Stop` after the grace period), down. A handler is a user
of the database that returns by itself, or, a stream, when its context is cancelled.

### MCStreams and MCProcesses

Each puts three modules that share no state into one run: `part` chooses one of them
at the start and the others stay as they begin. A behaviour is a behaviour of one
module, so what holds of the sum holds of each. The fairness of the three is
conjoined: in a part that was not chosen nothing that is fair is enabled.

### RunLifecycle

The abstract specification: a run's status and the one session that holds it.
`Dispatch` maps `holder` to the connection that is assigned the run, is requeuing
it or is being given it, and `ImplementsLifecycle` says that every step of the
goroutines is a step of the lifecycle or a stutter: checked for twenty of them,
proved for any number.

## 3. The runs

| Run | Checks | Shows |
|---|---|---|
| `tool` | `TypeOK`, `RunJobAgree`, `TerminalEventOnce`, `StartedPerAttempt`, `CapacityRespected` | two runs, one slot, one approval, one disturbance: rows, attempts and log tell one story, and concurrent dispatchers do not overfill the worker |
| `sessions` | `OneHolder`, `OneSessionPerId`, `NeverDropped` | two sessions of one worker id and two disturbances: teardown of the old and registration of the new never share the run or the id, and nobody drops it while it runs |
| `restart` | `LeaseNamesHolder`, `ImplementsLifecycle`, `FinishedForever` | two workers with different ids, through a disconnection, hang-up or restart: the lifecycle is implemented, an ended run never changes |
| `slotsfreed` | `SlotsFreed`, `RunningEnds` | liveness: slots come back, a running run in somebody's hands stops running |
| `queue` | `QueuedServed` | liveness: a queued run is claimed while a worker stays |
| `processes` | `TypeOK`, `RowsTellTheTruth`, `WrittenByConsent`, `WaitingIsAsked`, `CreatedOncePerRun`, `CallsEnd` | two attempts to create one file, with lost answers, timeouts, disconnection, cancellation |
| | `TableIsTrue`, `ImplementsReports`, `WorkEnds` | a worker process: loop and goroutines agree on who is active, what is reported is what `RunReports` promises, and nobody waits for ever |
| | `ProcessTypeOK`, `MigratedOnceInOrder`, `DatabaseOutlivesHandlers`, `StopEnds` | two orchestrators on one database: migrations under kills, the end of a process under streams nobody ends |
| `events_streams` | `TypeOK`, `InOrder`, `LostOnlyAtLimits`, `ChatComplete`, `ChatEndStreamed` | two goroutines publish in any order, small channel and replays, reconnections: order is kept, an event is lost only at a full channel, overtaken by a later one or beyond a full second replay, chat streams have exactly their run's events and end |
| `streams_parts` | `PageComplete` | a page goes with the `latest_sequence` returned with it, though the log grows between the two statements |
| | `PartTypeOK`, `AnswerIsWhatWasHeard`, `PromptIsAWindow` | two questions of a session, two attempts each: the answer kept is the one heard last, a prompt is a gapless window |
| | `UncrossedWritesAreTrue`, `ReadsAreWhole` | two requests at one file: texts are lost only by writes that cross; a read of parts of two texts still has whole characters, each byte in its place |
| | `TextsCutWhole`, `ArgumentsSurvive` | texts cut, arguments hashed on both ways and tokens checked over bounded inputs: the hashes agree exactly if nothing is ambiguous |
| `refused`, `lost`, `denial`, `events_gap` | `FailedStreamEnds`, `UnfinishedIsHeld`, `StreamsStay`, `GapNeverSilent` | the findings below |

### Bounds

* One run is enough for what relates a run to its own rows, log and holder; two
  are used where runs compete (slots, dispatchers, the log of one session). The
  same for connections: two sessions of one id, or two ids.
* `MaxFaults`, the number of injected faults: one, or two where a second fault must
  hit the recovery from the first (`sessions`, `slotsfreed`). Each fault can happen
  at any moment.
* `NoteWindow` bounds the updates in flight on a stream after a run has streamed one
  more piece, or the beacon of a safe tool (`Len(up[c]) < NoteWindow` in
  `ProcStreams`). 1 lets a piece be sent when nothing else is in flight: beacons and
  the end of the run follow it, and it meets a cancellation, a teardown or another
  run's updates. `tool` has 0, with which nothing of that kind is sent at all: its two
  runs have only the updates that change rows, which is what its properties are about,
  and with pieces it takes more than five minutes. All other runs have 1.
* `MaxConcurrent` is 1, which makes slots and channel scarcest; the proofs have no
  such bound.
* `MCProcesses.cfg` gives `ToolCalls` one run and two attempts. Two attempts are what the
  hazards need (an orphaned request and its successor); the calls of different runs
  share nothing but the file, which may or may not exist. A third attempt or a
  second run takes more than five minutes, and the proofs cover any number.
* `Buffer`, `ReplayLimit` and `MaxSeq` stand for 128, 500 and the length of the
  log. `events_streams` makes them small so that channel, replays and pages overflow
  and two goroutines publish in another order than they committed: each of the three
  ways in which `LostOnlyAtLimits` lets an event be lost happens there, and it fails
  if any of them is taken out. `streams_parts` makes them larger than the log.
* `MCProcesses.cfg` gives `WorkerProcess` a tool job and a model job, a stream that
  takes one update at a time (`Window = 1`, the scarcest: every sender waits for the
  others and for the orchestrator), and one piece of text; a second piece repeats
  the steps of the first. Two processes, two migrations and a handler of each kind
  (a stream of either server, and a plain call) are enough for a kill between two
  migrations, a race for one and each way of stopping; the proofs have no bound.
* `MCStreams.cfg` lets `Conversation` have two questions, two attempts and a window of
  three of the four messages, so that the window both cuts off and overlaps what
  another run writes. `FileTools` has two requests, and three texts shorter than,
  as long as and longer than `MaxReadBytes = 3`, two of which mix to a text of whole
  characters; a third request adds only more crossings. Texts are cut up to six
  bytes; `Exact = 4`, `MaxInt = 5`, `Largest = 7` put a rounding down, a rounding up,
  an int64 that no double holds and numbers beyond int64 of either sign into reach,
  and arguments are nested two deep.
* The log of `EventStream`, the attempts of `Conversation`, the requests of `FileTools` and the faults of `Dispatch` are finite, and every run
  may have ended, so the systems really may stop: deadlock is not checked.

### Fairness

Weak fairness of each goroutine's next step (the Go scheduler runs a goroutine that
can run), of the worker process's next step, and of `SendMessage`'s polling, which
has a ticker. The model server and the MCP servers are assumed to answer: the
configured model and tool timeouts are not applied to the requests anywhere. An answer
of the model has finitely many pieces, and a run makes one tool call, which is strong
fairness of a run's end (`ProcFinishes`): a piece in flight disables nothing for ever. A
worker's command channel drains while its stream is open. Nothing is assumed of
users (who may never decide), of faults, of workers connecting, or of a restart.
In `ToolCalls`, besides, the file server serves its requests and a minute passes;
a decision, a worker for a requeued run and an answer that gets lost are never
promised. `WorkerProcess` asks for less than that: while some goroutine of the process
can go on, one does (`WF` of all their steps together); the model, the MCP servers
and the orchestrator answer, and no answer is endless. `Orchestrator` asks for the
next step of a process only while it stops, with handlers that return when their
work or their context is over. `QueuedServed` is checked for runs without approvals, with clients that stay and
on one connection. It is not true beyond that: a requeued run, after its worker's
teardown, waits for the next message, completion or connection before any other
worker is offered it. `RunningEnds` says that a running run which somebody holds
ends, is queued again or waits for the user; a run approved after its worker was
lost runs for ever in nobody's hands, which is finding 2.

## 4. Findings

Each is the only property of a run that TLC violates.

1. `refused`: denying an approval, or letting it expire, fails the run without an
   `agent.run.failed` event (`repository/approvals.go:116-186`), so the `SendMessage`
   stream of that run never ends, where the migration design says that a failed
   run's stream ends.
2. `lost`: when a worker's stream ends while its run waits for an approval, the
   requeue requires the status `running` and is rolled back, its error is dropped,
   and the run belongs to nobody afterwards; the design says unfinished work is
   requeued.
3. `denial`: a denied or expired approval fails the run and takes it from its worker
   at once; the worker's report of the denied call is then rejected as one of an
   inactive or unassigned run, which ends the stream of every run of that worker.
   The design says that denial and expiration are normal run outcomes.
4. `events_gap`: a subscriber further behind than two replays gets live events
   after a gap it is not told of; the design says it is told to refetch.

Seen on the way, with no run of its own: `TURING_JOB_MAX_ATTEMPTS=3`
(`.env.example`) is read into `JobMaxAttempts` and used nowhere, so an answer the
orchestrator rejects, such as an empty one, requeues the run without a limit;
no property says that attempts end, and `StartedPerAttempt` only that they are
counted as they are logged. And, each visible in an action of the model it concerns:

* A cancelled run still reports its failure (`EmitFailed` after `GiveUpWaiting`),
  which the orchestrator rejects, ending the stream of all the worker's runs; in
  `WorkerProcess` this is `ReceiveUpdate` of a revoked job. The goroutine that reads
  the model's answer may outlive the acknowledgement of the cancellation.
* A model's answer that breaks off without a `done` is completed as it is
  (`AnswerEnds`).
* The history reaches the model newest message first, the question twice, and its
  own empty answer among them (`FetchHistory`).
* An update without `expectedHash` creates a missing file (`Guarded`), and crossing
  creations of one path both succeed (`OpenFile`); a search's snippet may begin or
  end in the middle of a character (`FirstSnippet`).
* A read may return parts of two texts after a single update, and a negative limit
  makes it panic (`ReadPart`, `Read`).
* Arguments with a `float32`, a minus zero or a nil list or map could be approved and
  then refused by the file server (`Ambiguous`); the worker sends none today.
* Arguments that cannot be made a Struct reach the orchestrator as none at all, and
  the call is denied as one without arguments (`HandleToolBefore`).
* `system.info`, `files.read`, `files.list` and `files.search` are served by the MCP
  servers and unknown to the orchestrator's table, so that they are always denied
  (`GetPolicy`).
* A second orchestrator on the same database migrates it before it finds its port
  taken (`CommitMigration` before `Listen`).
* `sessions.updated_at` is never updated, and `mapEventType` exists twice, the same.

## 5. The proofs

All theorems hold for every value of the constants that satisfies the named
assumptions of the modules (`NoneIsNotARun`, `DispatchAssumption`,
`EventAssumption`, `ToolCallsAssumption`, `WorkerAssumption`,
`OrchestratorAssumption`, `ConversationAssumption`, `TextAssumption`,
`FileAssumption`, `CallAssumption`, `ArgumentsAssumption`, `ConsentAssumption`), which TLC evaluates in
the runs. Every invariant and the safety part of every action property and
refinement that a passing run checks has its theorem.

* `Dispatch_proofs!TypeCorrect`: `Spec => []TypeOK`, action by action; the
  sequences and records of channels and reader states are the work.
* `Dispatch_proofs`, on holders: `RowsAgree` (`RunJobAgree`), `HeldOnce` (`OneHolder`)
  and `EndedForGood` (`FinishedForever`). None of the first two is inductive alone.
  `RunJobAgree` could be broken by `CreateApproval`, which does not look at the
  job: a run that is queued must have no reader asking for an approval. So the
  invariant `HoldersInv` says who can: a reader that works on a run has it in its
  connection's assignments (`ReaderHolds`), an assigned run is active or has ended
  (`HeldIsActive`), so its holder is the only one who can requeue it, and it is in
  one place only (`OneOwner`). That in turn needs `CommandsAssigned` (what is in a
  command channel is assigned to that worker, or ended), `DeliversToOpen` (a run is
  delivered to a worker that has not been closed, because the lock is held) and
  `RefusedEnded` (a handler that releases a refused run's slot does so after the
  run has ended). `EndedForGood` follows from `TypeOK` and the guards of the
  transactions, action by action.
* `Dispatch_proofs`, on runs: `RowStep` says all that a transaction can do to a row, which
  rests on `HoldersInv`: `CreateApproval` only meets active runs. From it follow
  `EndsInv` (a refused approval is that of a failed run), hence `OneTerminalEvent`
  (`TerminalEventOnce`), and `AttemptsInv`, hence `AttemptsCounted`
  (`StartedPerAttempt`). `NoClaimPasses` says that every step but a claim passes runs
  on within a connection or lets go of them; so a lease and a load can only go wrong
  at a claim, where the lock is held: `LeaseIsTrue` (`LeaseNamesHolder`) and
  `WithinCapacity` (`CapacityRespected`, with one delivery to a worker at a time).
  `OneSession` (`OneSessionPerId`) is inductive with the types.
* `DispatchLifecycle_proofs`: `FollowsLifecycle` (`ImplementsLifecycle`), the
  refinement. A step of the code could leave the lifecycle in two ways: a run that
  seems to be in two places, so that one of them lets go of it while the other
  still works, or an update that is handled when the run has moved on (a request
  for consent, or a completion, of a run that waits). Both are ruled out by the
  invariant `TurnsInv` (theorem `UpdatesInTurn`). `PlaceInv` has every run assigned,
  being requeued or being delivered at one connection at most, so that `HolderOf` is
  its one holder; `GoneInv` that a connection whose stream has ended delivers
  nothing more. `KnownInv`, `FreshInv` and `TurnInv` follow an update on its way
  (process, up-queue, reader): it is of a run that the connection has, a run just
  claimed has sent nothing yet, a completion is the last thing sent and consent is
  asked for once; `WaitInv` says that nothing under way asks again or completes
  while the run waits, `TellInv` and `CallsInv` that users and dispatching
  goroutines hold what they think. `LocalStep` lists what a step can do at an open
  connection, so that each part is preserved by one lemma; `StepsFollow` is the
  simulation, action by action. `RunsAreKept` (`NeverDropped`) follows for the runs
  without a restart of the orchestrator, which drops every connection at once.
* `EventStream_proofs`: `StreamInv` adds to `ChatComplete` and `PageComplete` that a
  subscriber has nothing beyond its position, that a chat's page lies in the log
  and that a run has no event before its queued one; `TypeCorrect`, `OrderKept`
  (`InOrder`), `ChatStreamsComplete`, `PagesComplete` follow. The central lemma is
  `LogGrowth`: appending leaves every reader's picture valid. `LossesExplained`
  (`LostOnlyAtLimits`) is about what a subscriber comes to miss: events that it has not
  been sent and that are not ahead of it, in a replay under way or to come, on its
  channel, or committed and not yet published. It is an action property, so the work
  is in the step: a commit puts the event among the pending ones (`CommitPends`,
  `CompletionPends`), a publication moves it to the channel or drops it, a step of
  the subscriber moves events between its places or sends them (`SubscriberPlaces`),
  and what leaves all of them leaves by one of the three losses (`LossExplained`).
  The invariant is that what is pending or on a channel is an event of the log
  (`SourceInv`), and that positions and the ends of replays lie in it too, but for one
  that a subscriber began with (`PlaceInv`), without which a place could be left for a number that is no event. Finding 4 is the
  third loss.
* `ToolCalls_proofs`: `RowsTrue` (`RowsTellTheTruth`), `ConsentGiven`
  (`WrittenByConsent`), `OneOpenQuestion` (`WaitingIsAsked`) and `CreatedOnce`
  (`CreatedOncePerRun`) follow from the invariant `CallsInv`. What has to be ruled
  out is a message that arrives late: a second BEFORE beacon would reset an approval
  that was already used, an orphaned attempt that reports after its successor has
  started would complete a row that is not its own. So `CallInv` says that the
  run's goroutine, the messages it has under way (one of the six sequences of
  `Ups`), and its reader are in step, that an approval exists once the BEFORE beacon
  was handled, and that outcome and row follow the user's decision; `OneAttempt`
  that a run has at most one live attempt, and none while it is queued;
  `OneQuestion` that it has at most one undecided approval; `EndInTurn`,
  `OneReport` and `CompletedReported` order what an attempt still has to say.

* `Processes_proofs`, on the worker: `WorkerTypeCorrect`, `TableTrue` (`TableIsTrue`) and `ReportsKept`
  (`ImplementsReports`) from the invariant `WorkerInv`. A second goroutine for a job, or a
  report after an acknowledgement, could come only from a command that arrives
  twice or late; so `CommandInv` says that of the assignment of a job and of its
  cancellation at most one each is under way, and none once it was heeded; `SaidInv`
  that what was said of a job fits where its goroutine is; `LoopInv` that a stopping
  job keeps the loop at it until its goroutine has gone. `WorkStep` stands for all
  steps of a goroutine but its last two, so that they are proved once.
* `Processes_proofs`, on the orchestrator: `MigrationsOnce` (`MigratedOnceInOrder`) needs that a
  process looks at version v only when those below are in the schema (`SchemaInv`);
  `DatabaseLast` (`DatabaseOutlivesHandlers`) that a server which is down has no
  handlers, and that a server is anything but new only in a process that serves or
  stops (`ServerInv`).

* `Conversation_proofs`: `PromptsAreWindows` (`PromptIsAWindow`) needs to know what
  the table may do while a prompt lies there: rows are only appended, in pairs, and a
  text only changes in the answer of a run that completes (`Rows`); so a prompt stays
  a window of the table whose texts are as they are now or were empty then
  (`Windows`), and no worker reads its own answer but as empty (`Working`).
  `AnswersAreHeard` (`AnswerIsWhatWasHeard`) relates three places an answer is in:
  what the agent has said, what is under way and what clients have heard. `Underway`
  says that all three are of one attempt and counts them: the pieces said, with the
  begin and the end, are those heard and those on the wire. So when the completion is
  handled nothing else is on the wire, and what is stored is what was heard
  (`Answered`). What a client hears is a loop over its events; `HeardAgrees` says that
  two streams that mean the same hear the same, which makes one proof of the two.
* `FileTools_proofs`: `CutsWhole` (`CutsAreWhole`) for texts of every size.
  `ValidCut` says where a valid text may be cut, before a byte that begins a
  character; `LoopStops` that a loop which goes back ends at the last place its
  condition allows; so the loop that validates what is left and the one that looks at
  a byte stop together (`SameCut`). `CutOut` says that a part of a valid text is whole
  but at its ends. `WritesTrue` (`UncrossedWritesAreTrue`) and `ReadsWhole`
  (`ReadsAreWhole`) follow from `GuardInv` (a request that nobody came upon has read
  the beginning of what is on the disk, and before it opens, what it looked at) and
  `DiskInv` (each byte on the disk is in its place in some text, and the file is the
  beginning of one text unless writes have crossed). `ReadOn` and `WriteOver` carry the
  places of bytes through a partial read and a partial write. A step only disturbs the
  others by writing, and every writer is noted by those it meets (`met`).
* `MCStreams_proofs`: `BothWays` (`BothWaysAgree`) and `TokenFits` (`ConsentFits`) for
  every range of doubles and integers. For a value that is not nested `LeafWay` says
  what becomes of it on either way and when that is the same, which is arithmetic on
  `Round` (`RoundIs`), and `StoredLeaf` what a stored payload is read as; both go
  through a list or a map (`Going1`, `Going2`), so that a whole has equal hashes
  exactly if all its leaves do. `HashIs` turns the equality of hashes into that of the
  values that are hashed, which is what a token is served by. `ArgumentsSurviveAlways`,
  `TextsCutCorrectly` and `PartTypeCorrect` put these theorems, and the types of the
  three parts, under the composed specification that the run checks.
  `Processes_proofs!ProcessTypeCorrect` is the types of the worker process and of the
  orchestrator under theirs; those of `ToolCalls` are proved for its own specification.

What a loop computes is proved by the least place at which it would go wrong (a
nonempty set of natural numbers has a least member), since the induction theorems
take an operator as a parameter and cannot be applied here. Values of arguments are
nested two deep, and a deeper nesting would need induction over data.

The proofs also corrected the models: `Round` and the decision in `Consent` had CASE
guards that overlapped, so that their value was TLC's choice of an arm; they are
exclusive, or an IF, now.

Only model-checked: liveness (`CallsEnd`, `WorkEnds`, `StopEnds` and the other
temporal properties under fairness), which is out of the prover's reach, as ENABLED
is.

## 6. What is not modelled, and what is left

Not modelled: generated protobuf code; reading of configuration and the
authentication interceptors (a comparison of tokens, no state); the audit log (rows
nothing reads to decide); creating, listing and archiving sessions (rows nothing
else depends on); the wire formats of the model servers and of MCP; what the system
tools answer; directories and the resolution of paths at the file server, which is a
failure that may happen (`Escapes`); the Flutter client, a screen that shows one
stream and whose event loop runs its handlers one at a time.

Two compositions stay informal. `WorkerProcess` takes the orchestrator's side of the
stream from `Dispatch` (a job is assigned once per stream, each beacon answered, the
stream ended at an update of a cancelled job), and `Dispatch` takes from
`WorkerProcess` what `RunReports` says. `ToolCalls` looks closer at one exchange of
`Dispatch`, and `FileTools` at what one of its requests does to a file; checked
together they are out of TLC's reach.

Left to do, most useful first: an abstract specification of a tool call (asked,
answered, written at most once) that `ToolCalls` implements; the archiving of
sessions; the Flutter client's state against the stream it consumes.
