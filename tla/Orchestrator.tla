---------------------------- MODULE Orchestrator ----------------------------
(***************************************************************************)
(* The orchestrator's process, from start to end (cmd/server, internal/app *)
(* and internal/db): it migrates the database, listens on two ports,       *)
(* serves, and on a signal or a broken listener stops both servers and     *)
(* closes the database.  A process may be killed at any moment, be started *)
(* again, and be started while another one runs on the same database.      *)
(* What a handler does is the subject of the other modules: here it is a   *)
(* user of the database, which the end of the process must not forget.     *)
(***************************************************************************)
EXTENDS Naturals, FiniteSets

CONSTANTS
  Processes,  \* processes that may run on the database
  NoProcess,  \* nobody listens on a port
  Last,       \* number of the last migration, 2 in the code
  Handlers,   \* calls and streams a process may serve at a time
  Streams,    \* those that end only when their context does
  Internal    \* those of the internal server

ASSUME OrchestratorAssumption ==
  /\ NoProcess \notin Processes
  /\ Last \in Nat
  /\ Streams \subseteq Handlers
  /\ Internal \subseteq Handlers

VARIABLES
  schema,   \* versions recorded in schema_migrations
  effects,  \* auxiliary: how often the statements of each have taken effect
  main,     \* where run() is
  version,  \* the migration it looks at
  open,     \* processes whose database is open
  ports,    \* who listens on each port
  server,   \* each process's gRPC servers
  running,  \* handlers that have not returned
  ended     \* those whose context is cancelled

schemaVars       == <<schema, effects>>
serverVars       == <<ports, server, running, ended>>
orchestratorVars == <<schemaVars, main, version, open, serverVars>>

Versions   == 1 .. Last
Servers    == {"public", "internal"}
MainSet    == {"off", "migrate", "apply", "public", "internal", "serve", "stop"}
ServerSet  == {"new", "serving", "draining", "forced", "down"}
HandlersOf(s) == IF s = "internal" THEN Handlers \cap Internal ELSE Handlers \ Internal

OrchestratorInit ==
  /\ schema = {}
  /\ effects = [v \in Versions |-> 0]
  /\ main = [p \in Processes |-> "off"]
  /\ version = [p \in Processes |-> 1]
  /\ open = {}
  /\ ports = [s \in Servers |-> NoProcess]
  /\ server = [p \in Processes |-> [s \in Servers |-> "new"]]
  /\ running = [p \in Processes |-> {}]
  /\ ended = [p \in Processes |-> {}]

Goto(p, from, to) == main[p] = from /\ main' = [main EXCEPT ![p] = to]

(***************************************************************************)
(* Migrations                                                              *)
(***************************************************************************)
\* config.Load and db.Open; a process that fails at them has changed nothing.
StartProcess(p) ==
  /\ Goto(p, "off", "migrate")
  /\ version' = [version EXCEPT ![p] = 1]
  /\ open' = open \union {p}
  /\ UNCHANGED <<schemaVars, serverVars>>

\* Mutant: one more is looked for than there are.
PastTheLast(p) ==
  /\ IF version[p] > Last + 1 THEN Goto(p, "migrate", "public") /\ UNCHANGED version
     ELSE IF version[p] \in schema
       THEN /\ main[p] = "migrate" /\ UNCHANGED main
            /\ version' = [version EXCEPT ![p] = @ + 1]
       ELSE Goto(p, "migrate", "apply") /\ UNCHANGED version
  /\ UNCHANGED <<schemaVars, open, serverVars>>

\* The count of the version's rows is read outside any transaction.
CountRows(p) ==
  /\ IF version[p] > Last THEN Goto(p, "migrate", "public") /\ UNCHANGED version
     ELSE IF version[p] \in schema
       THEN /\ main[p] = "migrate" /\ UNCHANGED main
            /\ version' = [version EXCEPT ![p] = @ + 1]
       ELSE Goto(p, "migrate", "apply") /\ UNCHANGED version
  /\ UNCHANGED <<schemaVars, open, serverVars>>

\* Mutant: the statements take effect before the version is inserted.
StatementsFirst(p) ==
  /\ version[p] \notin schema
  /\ effects' = [effects EXCEPT ![version[p]] = @ + 1]
  /\ \/ Goto(p, "apply", "migrate") /\ schema' = schema \union {version[p]}
     \/ Goto(p, "apply", "apply") /\ UNCHANGED schema
  /\ version' = [version EXCEPT ![p] = IF main'[p] = "migrate" THEN @ + 1 ELSE @]
  /\ UNCHANGED <<open, serverVars>>

\* The transaction: the statements and the version's row, both or neither.  It
\* fails if another process has committed the version.
CommitMigration(p) ==
  /\ version[p] \notin schema
  /\ Goto(p, "apply", "migrate")
  /\ schema' = schema \union {version[p]}
  /\ effects' = [effects EXCEPT ![version[p]] = @ + 1]
  /\ version' = [version EXCEPT ![p] = @ + 1]
  /\ UNCHANGED <<open, serverVars>>

\* app.New closes the database, and the process exits.
MigrationFails(p) ==
  /\ Goto(p, "migrate", "off") \/ Goto(p, "apply", "off")
  /\ open' = open \ {p}
  /\ UNCHANGED <<schemaVars, version, serverVars>>

(***************************************************************************)
(* Serving                                                                 *)
(***************************************************************************)
Frees(p)  == ports' = [s \in Servers |-> IF ports[s] = p THEN NoProcess ELSE ports[s]]
Drains(p) == server' = [server EXCEPT ![p] = [s \in Servers |-> "draining"]]

\* App.Stop, from the deferred call or at a signal or an error: GracefulStop of
\* both servers closes their listeners.
BeginStop(p) ==
  /\ Frees(p) /\ Drains(p)
  /\ UNCHANGED <<schemaVars, version, open, running, ended>>

\* net.Listen, for the public port and then for the internal one.
Listen(p, s) ==
  \/ /\ ports[s] = NoProcess
     /\ Goto(p, s, IF s = "public" THEN "internal" ELSE "serve")
     /\ ports' = [ports EXCEPT ![s] = p]
     /\ server' = IF s = "public" THEN server
                  ELSE [server EXCEPT ![p] = [t \in Servers |-> "serving"]]
     /\ UNCHANGED <<schemaVars, version, open, running, ended>>
  \/ Goto(p, s, "stop") /\ BeginStop(p)

HandlerBegins(p, s, h) ==
  /\ server[p][s] = "serving" /\ h \in HandlersOf(s) \ running[p]
  /\ running' = [running EXCEPT ![p] = @ \union {h}]
  /\ UNCHANGED <<schemaVars, main, version, open, ports, server, ended>>

PeerLeaves(p, h) ==
  /\ h \in running[p] \ ended[p]
  /\ ended' = [ended EXCEPT ![p] = @ \union {h}]
  /\ UNCHANGED <<schemaVars, main, version, open, ports, server, running>>

HandlerReturns(p, h) ==
  /\ h \in running[p]
  /\ h \in Streams => h \in ended[p]
  /\ running' = [running EXCEPT ![p] = @ \ {h}]
  /\ ended' = [ended EXCEPT ![p] = @ \ {h}]
  /\ UNCHANGED <<schemaVars, main, version, open, ports, server>>

\* A signal, or an error of Serve; there is room for an error of each server.
StopRequested(p) == Goto(p, "serve", "stop") /\ BeginStop(p)

(***************************************************************************)
(* Stopping                                                                *)
(***************************************************************************)
ServerGoes(p, s, from, to) ==
  server[p][s] \in from /\ server' = [server EXCEPT ![p][s] = to]

\* Mutant: only the graceful stop, however long it takes.
NeverForced(p, s) == FALSE

\* stopGRPCServer: after 5 seconds Stop cancels the contexts of the handlers.
GraceIsOver(p, s) ==
  /\ ServerGoes(p, s, {"draining"}, "forced")
  /\ ended' = [ended EXCEPT ![p] = @ \union (running[p] \cap HandlersOf(s))]
  /\ UNCHANGED <<schemaVars, main, version, open, ports, running>>

\* Mutant: Stop is not followed by a wait for the graceful stop, which alone
\* waits for the handlers.
StopIsEnough(p, s) ==
  /\ \/ ServerGoes(p, s, {"forced"}, "down")
     \/ ServerGoes(p, s, {"draining"}, "down") /\ running[p] \cap HandlersOf(s) = {}
  /\ UNCHANGED <<schemaVars, main, version, open, ports, running, ended>>

\* GracefulStop returns when the server's handlers have.
GracefulStopReturns(p, s) ==
  /\ ServerGoes(p, s, {"draining", "forced"}, "down")
  /\ running[p] \cap HandlersOf(s) = {}
  /\ UNCHANGED <<schemaVars, main, version, open, ports, running, ended>>

\* Both servers are down: the database is closed, and the process ends.
CloseDatabase(p) ==
  /\ \A s \in Servers : server[p][s] = "down"
  /\ Goto(p, "stop", "off")
  /\ open' = open \ {p}
  /\ server' = [server EXCEPT ![p] = [s \in Servers |-> "new"]]
  /\ UNCHANGED <<schemaVars, version, ports, running, ended>>

Killed(p) ==
  /\ main[p] # "off"
  /\ main' = [main EXCEPT ![p] = "off"]
  /\ open' = open \ {p}
  /\ Frees(p)
  /\ server' = [server EXCEPT ![p] = [s \in Servers |-> "new"]]
  /\ running' = [running EXCEPT ![p] = {}]
  /\ ended' = [ended EXCEPT ![p] = {}]
  /\ UNCHANGED <<schemaVars, version>>

StopStep(p) ==
  \/ \E s \in Servers : GraceIsOver(p, s) \/ GracefulStopReturns(p, s)
  \/ CloseDatabase(p)

OrchestratorNext ==
  \E p \in Processes :
    \/ StartProcess(p) \/ CountRows(p) \/ CommitMigration(p) \/ MigrationFails(p)
    \/ \E s \in Servers : Listen(p, s) \/ \E h \in Handlers : HandlerBegins(p, s, h)
    \/ \E h \in Handlers : PeerLeaves(p, h) \/ HandlerReturns(p, h)
    \/ StopRequested(p) \/ StopStep(p) \/ Killed(p)

(***************************************************************************)
(* While a process stops, its handlers, its timers or run() go on when one *)
(* of them can: a handler returns after its work, a stream's when its      *)
(* context is cancelled.  A client does not have to hang up, and nobody    *)
(* has to stop the process.                                                *)
(***************************************************************************)
OwedStep(p) ==
  /\ main[p] = "stop"
  /\ StopStep(p) \/ \E h \in Handlers : HandlerReturns(p, h)

OrchestratorFairness == \A p \in Processes : WF_orchestratorVars(OwedStep(p))

OrchestratorSpec ==
  OrchestratorInit /\ [][OrchestratorNext]_orchestratorVars /\ OrchestratorFairness

(***************************************************************************)
(* Properties                                                              *)
(***************************************************************************)
OrchestratorTypeOK ==
  /\ schema \subseteq Versions
  /\ effects \in [Versions -> Nat]
  /\ main \in [Processes -> MainSet]
  /\ version \in [Processes -> 1 .. Last + 1]
  /\ open \subseteq Processes
  /\ ports \in [Servers -> Processes \union {NoProcess}]
  /\ server \in [Processes -> [Servers -> ServerSet]]
  /\ running \in [Processes -> SUBSET Handlers]
  /\ ended \in [Processes -> SUBSET Handlers]

\* Whatever is killed and started beside it, a migration takes effect once, after
\* those before it, and exactly when its row says so; and no process listens
\* before all of them have.
MigratedOnceInOrder ==
  /\ \A v \in Versions : effects[v] = IF v \in schema THEN 1 ELSE 0
  /\ \A v \in schema : 1 .. v \subseteq schema
  /\ \A p \in Processes : main[p] \notin {"off", "migrate", "apply"} => schema = Versions

\* No handler runs on a closed database: App.Stop closes it when the handlers of
\* both servers have returned, those it had to cancel too.
DatabaseOutlivesHandlers == \A p \in Processes : running[p] # {} => p \in open

\* A process that is told to stop ends, whoever stays connected to it.
StopEnds == \A p \in Processes : (main[p] = "stop") ~> (main[p] = "off")
=============================================================================
