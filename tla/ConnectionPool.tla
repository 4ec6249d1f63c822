---------------------------- MODULE ConnectionPool ----------------------------
(***************************************************************************)
(* Everybody waiting on everybody: the pool of connections that            *)
(* src/db/mod.rs opens, under the locks of SQLite.  A request that runs    *)
(* one statement borrows a connection for it; a callback of the OAuth      *)
(* login borrows one for the transaction of consume_oauth_state and waits  *)
(* for locks while it has it.  What the statements do to the rows is in    *)
(* OAuthStates.                                                            *)
(*                                                                         *)
(* The pool of sqlx is external: it serves its waiters in the order in     *)
(* which they came.                                                        *)
(***************************************************************************)
EXTENDS Naturals, SequencesExt

CONSTANTS
  Singles,         \* requests that run one statement
  Callbacks,       \* requests that run consume_oauth_state
  MaxConnections   \* max_connections

ASSUME PoolAssumption == MaxConnections \in Nat \ {0}

VARIABLES
  at,      \* at[r]: where request r is
  queue    \* who waits for a connection

poolVars == <<at, queue>>

Requests == Singles \cup Callbacks
Borrowing == {"statement", "select", "selected", "deleted"}

\* Connections that nobody has.
Free == MaxConnections - Cardinality({r \in Requests : at[r] \in Borrowing})

PoolInit == at = [r \in Requests |-> "new"] /\ queue = <<>>

Step(r, from, to) == at[r] = from /\ at' = [at EXCEPT ![r] = to]

\* Nobody but r holds a lock of SQLite.
Unlocked(r) == \A c \in Callbacks \ {r} : at[c] \notin {"selected", "deleted"}

\* pool.begin(), or a statement on the pool.
Acquire(r) == Step(r, "new", "waiting") /\ queue' = Append(queue, r)

Granted ==
  /\ queue # <<>> /\ Free > 0
  /\ Step(Head(queue), "waiting", IF Head(queue) \in Callbacks THEN "select" ELSE "statement")
  /\ queue' = Tail(queue)

RunSingle(r) == Step(r, "statement", "done") /\ Unlocked(r) /\ UNCHANGED queue

Select(c) == Step(c, "select", "selected") /\ UNCHANGED queue

\* Faulty variant (the DELETE runs on the pool instead of &mut *tx): it needs a
\* connection of its own while the transaction keeps its one.
DeleteOnPool(c) ==
  /\ Step(c, "selected", "deleted")
  /\ Free > 0
  /\ UNCHANGED queue

\* The DELETE takes the RESERVED lock; if that is taken it fails at once, the
\* transaction is rolled back, and its connection is free.
Delete(c) ==
  /\ Step(c, "selected", IF \E d \in Callbacks : at[d] = "deleted" THEN "done" ELSE "deleted")
  /\ UNCHANGED queue

Commit(c) == Step(c, "deleted", "done") /\ Unlocked(c) /\ UNCHANGED queue

\* acquire_timeout of the pool, busy_timeout of SQLite, or the peer is gone.
GivesUp(r) ==
  /\ at[r] \in Borrowing \cup {"waiting"}
  /\ at' = [at EXCEPT ![r] = "done"]
  /\ IF at[r] = "waiting"
     THEN \E i \in DOMAIN queue : queue[i] = r /\ queue' = RemoveAt(queue, i)
     ELSE UNCHANGED queue

AllDone == (\A r \in Requests : at[r] = "done") /\ UNCHANGED poolVars

\* What the pool and the database do by themselves.
Progress ==
  \/ Granted
  \/ \E r \in Singles : RunSingle(r)
  \/ \E c \in Callbacks : Select(c) \/ Delete(c) \/ Commit(c)

PoolNext ==
  \/ Progress
  \/ \E r \in Requests : Acquire(r) \/ GivesUp(r)
  \/ AllDone

\* Nobody has to give up.
PoolFairness == WF_poolVars(Progress)

PoolSpec == PoolInit /\ [][PoolNext]_poolVars /\ PoolFairness

-----------------------------------------------------------------------------
(* Properties *)

\* However many logins meet in a small pool, each request gets its connection
\* and its locks without any timeout: nobody waits for a connection while
\* holding one, and of two transactions that want to write one steps back.
EveryRequestEnds == \A r \in Requests : at[r] = "waiting" ~> at[r] = "done"
=============================================================================
