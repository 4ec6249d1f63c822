-------------------------------- MODULE Process --------------------------------
(***************************************************************************)
(* One container of the portal, src/main.rs: it reads its configuration,   *)
(* opens and migrates the database (db::connect), spawns the clean-up of   *)
(* expired sessions, serves, and on SIGTERM or Ctrl-C stops when the       *)
(* requests in flight have ended.  It may be killed at any time, a SIGTERM *)
(* before shutdown_signal is polled included, and is launched again,       *)
(* perhaps with another configuration, on the same database.               *)
(*                                                                         *)
(* axum::serve, the clean-up loop of tower-sessions and the migrator of    *)
(* sqlx (a migration is one transaction) are external.  axum::serve        *)
(* returns no error, so `serve HTTP' is never reported.                    *)
(***************************************************************************)
EXTENDS Configuration

CONSTANTS
  Requests,       \* the requests that peers send
  MinTokenBytes   \* MIN_ADMIN_TOKEN_BYTES

ASSUME BoundsAssumption == MinTokenBytes \in Nat /\ MaxI64 \in Nat

VARIABLES
  phase,     \* where main() is
  exit,      \* how the last process ended
  tables,    \* what the database has been migrated to
  cleanup,   \* cleanup_task
  expired,   \* an expired session is in the database
  request    \* request[r]: what has become of r

procVars == <<inputs, config, phase, exit, tables, cleanup, expired, request>>

Starting == {"config", "database", "ttl", "sessions", "clients", "bind"}
Serving  == {"serving", "draining"}
Phase    == {"down", "joining"} \cup Starting \cup Serving

TypeOK ==
  /\ inputs \in Inputs
  /\ config \in AppConfig \cup {Absent, Refused}
  /\ phase \in Phase
  /\ exit \in {"none", "ok", "failed", "killed"}
  /\ tables \subseteq {"users", "sessions"}
  /\ cleanup \in {"none", "running", "failed", "aborted"}
  /\ expired \in BOOLEAN
  /\ request \in [Requests -> {"new", "accepted", "answered", "left", "cut"}]

ProcInit ==
  /\ ConfigInit
  /\ phase = "down"
  /\ exit = "none"
  /\ tables = {}
  /\ cleanup = "none"
  /\ expired = FALSE
  /\ request = [r \in Requests |-> "new"]

Goto(p, q) == phase = p /\ phase' = q

\* The process ends: its tasks and the requests it still has end with it.
Exit(how) ==
  /\ phase' = "down"
  /\ exit' = how
  /\ cleanup' = "none"
  /\ request' = [r \in Requests |-> IF request[r] = "accepted" THEN "cut" ELSE request[r]]

-----------------------------------------------------------------------------
(* Faulty variants of the actions below, each a mistake that is easy to make *)
(* here.  No specification uses them: README.md lists which property each of *)
(* them breaks when it replaces the action it is named after.                *)

\* Without with_graceful_shutdown: the signal ends axum::serve at once.
DrainedAtOnce ==
  /\ Goto("draining", "joining")
  /\ cleanup' = IF cleanup = "running" THEN "aborted" ELSE cleanup
  /\ UNCHANGED <<inputs, config, exit, tables, expired, request>>

\* cleanup_task.abort() is forgotten.
DrainedUnaborted ==
  /\ Goto("draining", "joining")
  /\ \A r \in Requests : request[r] # "accepted"
  /\ UNCHANGED <<inputs, config, exit, tables, cleanup, expired, request>>

\* The result of the clean-up is ignored.
JoinIgnoring ==
  /\ phase = "joining"
  /\ cleanup \in {"failed", "aborted"}
  /\ Exit("ok")
  /\ UNCHANGED <<inputs, config, tables, expired>>

\* The session store is left to create its table on first use.
MigrateSessionsLater ==
  /\ Goto("sessions", "clients")
  /\ cleanup' = "running"
  /\ UNCHANGED <<inputs, config, exit, tables, expired, request>>

-----------------------------------------------------------------------------
(* Starting *)

\* A new process, with the inputs of that moment.
Launch ==
  /\ Goto("down", "config")
  /\ inputs' \in Inputs
  /\ config' = Absent
  /\ UNCHANGED <<exit, tables, cleanup, expired, request>>

\* AppConfig::load()?, and what the key is needed for: Crypto::new.
ReadConfig ==
  /\ phase = "config"
  /\ Load
  /\ IF Loads(inputs)
     THEN phase' = "database" /\ UNCHANGED <<exit, cleanup, request>>
     ELSE Exit("failed")
  /\ UNCHANGED <<tables, expired>>

\* One more step of main has succeeded, or it has failed and `?' ends main.
Start(p, q, made) ==
  \/ /\ Goto(p, q)
     /\ tables' = tables \cup made
     /\ UNCHANGED <<inputs, config, exit, cleanup, expired, request>>
  \/ /\ phase = p
     /\ Exit("failed")
     /\ UNCHANGED <<inputs, config, tables, expired>>

\* db::connect: the directory, the file, the pragma and the migrations.
Connect == Start("database", "ttl", {"users"})

\* i64::try_from(ttl_seconds): a TTL that does not fit is found only now.
CheckTtl ==
  /\ phase = "ttl"
  /\ IF config.ttl <= MaxI64
     THEN phase' = "sessions" /\ UNCHANGED <<exit, cleanup, request>>
     ELSE Exit("failed")
  /\ UNCHANGED <<inputs, config, tables, expired>>

\* session_store.migrate(), then the clean-up is spawned.
MigrateSessions ==
  \/ /\ Goto("sessions", "clients")
     /\ tables' = tables \cup {"sessions"}
     /\ cleanup' = "running"
     /\ UNCHANGED <<inputs, config, exit, expired, request>>
  \/ /\ phase = "sessions"
     /\ Exit("failed")
     /\ UNCHANGED <<inputs, config, tables, expired>>

\* The layer and AppState: AdminApiAuth::new refuses a short token; the clients
\* of GitHub, CPA and Keeper are built, or not.
BuildClients ==
  /\ phase = "clients"
  /\ \/ config.token >= MinTokenBytes /\ phase' = "bind"
        /\ UNCHANGED <<exit, cleanup, request>>
     \/ Exit("failed")
  /\ UNCHANGED <<inputs, config, tables, expired>>

\* TcpListener::bind; axum::serve is called and accepts.
Bind == Start("bind", "serving", {})

-----------------------------------------------------------------------------
(* Serving *)

Accept(r) ==
  /\ phase = "serving"
  /\ request[r] = "new"
  /\ request' = [request EXCEPT ![r] = "accepted"]
  /\ UNCHANGED <<inputs, config, phase, exit, tables, cleanup, expired>>

\* The handler has answered, or its peer has gone and its future is dropped.
Ends(r) ==
  /\ phase \in Serving
  /\ request[r] = "accepted"
  /\ \E e \in {"answered", "left"} : request' = [request EXCEPT ![r] = e]
  /\ UNCHANGED <<inputs, config, phase, exit, tables, cleanup, expired>>

\* A session in the database comes of age.
Expire ==
  /\ "sessions" \in tables
  /\ expired' = TRUE
  /\ UNCHANGED <<inputs, config, phase, exit, tables, cleanup, request>>

\* continuously_delete_expired: every minute, until its first error.
Sweep ==
  /\ cleanup = "running"
  /\ \/ expired' = FALSE /\ UNCHANGED cleanup
     \/ cleanup' = "failed" /\ UNCHANGED expired
  /\ UNCHANGED <<inputs, config, phase, exit, tables, request>>

\* shutdown_signal returns: no connection is accepted any more.
Signal ==
  /\ Goto("serving", "draining")
  /\ UNCHANGED <<inputs, config, exit, tables, cleanup, expired, request>>

\* axum::serve returns; cleanup_task.abort() ends the task if it still runs.
Drained ==
  /\ Goto("draining", "joining")
  /\ \A r \in Requests : request[r] # "accepted"
  /\ cleanup' = IF cleanup = "running" THEN "aborted" ELSE cleanup
  /\ UNCHANGED <<inputs, config, exit, tables, expired, request>>

\* cleanup_task.await: an error from before the abort is main's error.
Join ==
  /\ phase = "joining"
  /\ \/ cleanup = "failed" /\ Exit("failed")
     \/ cleanup = "aborted" /\ Exit("ok")
  /\ UNCHANGED <<inputs, config, tables, expired>>

\* SIGKILL, a panic of main, the machine: nothing more is done.
Kill ==
  /\ phase # "down"
  /\ Exit("killed")
  /\ UNCHANGED <<inputs, config, tables, expired>>

-----------------------------------------------------------------------------
Main ==
  \/ ReadConfig \/ Connect \/ CheckTtl \/ MigrateSessions \/ BuildClients \/ Bind
  \/ Drained \/ Join

ProcNext ==
  \/ Launch \/ Main \/ Sweep \/ Expire \/ Signal \/ Kill
  \/ \E r \in Requests : Accept(r) \/ Ends(r)

ProcSpec == ProcInit /\ [][ProcNext]_procVars

\* main is polled, and every request ends: it is answered
\* (CallsReturn, SnapshotEnds, LoginsEnd: if Keeper, GitHub, CPA and SQLite
\* answer) or its peer gives up.
ProcFairness ==
  /\ WF_procVars(Main)
  /\ \A r \in Requests : WF_procVars(Ends(r))

FairProcSpec == ProcSpec /\ ProcFairness

-----------------------------------------------------------------------------
(* Properties *)

\* Requests are accepted only over a database with all tables and under a
\* configuration whose every part has been looked at, whatever earlier
\* processes on the same database have left half done.
ReadyBeforeServing ==
  phase \in Serving =>
    /\ tables = {"users", "sessions"}
    /\ Loaded /\ config.ttl <= MaxI64 /\ config.token >= MinTokenBytes
    /\ cleanup # "none"

\* Whoever stops the portal with a signal cuts off nobody: a process that ends
\* by itself, well or not, has no accepted request left.
NobodyCutOff ==
  [][exit' # "killed" => \A r \in Requests : request'[r] = "cut" => request[r] = "cut"]_procVars

\* A clean-up that has failed, minutes or months before, is not lost in the
\* abort: the process that comes to its end reports it.
CleanupFailureReported ==
  [][cleanup = "failed" /\ phase' = "down" => exit' # "ok"]_procVars

\* After a signal the process comes to its end, however the clean-up stands.
ShutdownEnds == phase = "draining" ~> phase = "down"
=============================================================================
