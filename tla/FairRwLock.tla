------------------------------ MODULE FairRwLock ------------------------------
(***************************************************************************)
(* tokio::sync::RwLock as src/clients/keeper/mod.rs uses it (auth_lock).   *)
(* The lock is a library, not code of this repository: what is modelled is *)
(* its documented contract, a reader/writer lock with ONE first-come queue *)
(* for readers and writers, so that a waiting writer is not overtaken by   *)
(* later readers.  A task holds at most one guard and waits for at most    *)
(* one; dropping a guard, or a future that waits for one, releases it.     *)
(***************************************************************************)
EXTENDS Naturals

CONSTANT Tasks      \* the tasks that share the lock

VARIABLES
  guard,   \* guard[t]: the guard that t holds
  want,    \* want[t]: the guard that t waits for
  ahead    \* ahead[t]: the tasks in the queue before t (only while t waits)

lockVars == <<guard, want, ahead>>

Mode == {"none", "read", "write"}

LockTypeOK ==
  /\ guard \in [Tasks -> Mode]
  /\ want \in [Tasks -> Mode]
  /\ ahead \in [Tasks -> SUBSET Tasks]

LockInit ==
  /\ guard = [t \in Tasks |-> "none"]
  /\ want = [t \in Tasks |-> "none"]
  /\ ahead = [t \in Tasks |-> {}]

\* The tasks other than t that wait for a guard.
Waiting(t) == {u \in Tasks \ {t} : want[u] # "none"}

(***************************************************************************)
(* The one way the lock changes: t leaves the queue and whatever it held,  *)
(* now holds g and, when m is a mode, waits for m at the end of the queue. *)
(***************************************************************************)
LockStep(t, g, m) ==
  /\ guard' = [guard EXCEPT ![t] = g]
  /\ want' = [want EXCEPT ![t] = m]
  /\ ahead' = [u \in Tasks |->
                 IF u # t THEN ahead[u] \ {t}
                 ELSE IF m = "none" THEN {} ELSE Waiting(t)]

\* read().await or write().await is first polled.
Request(t, m) == LockStep(t, "none", m)

\* The awaited guard is handed to t (t must be at the front, see below).
Acquire(t) == LockStep(t, want[t], "none")

\* The guard, or the waiting future, is dropped.
Release(t) == LockStep(t, "none", "none")

\* t is at the front of the queue and the guard it asks for is compatible.
MayRead(t) ==
  /\ want[t] = "read"
  /\ ahead[t] = {}
  /\ \A u \in Tasks : guard[u] # "write"

MayWrite(t) ==
  /\ want[t] = "write"
  /\ ahead[t] = {}
  /\ \A u \in Tasks : guard[u] = "none"

\* A writer is alone.
LockExclusion ==
  \A t, u \in Tasks : t # u /\ guard[t] = "write" => guard[u] = "none"
=============================================================================
