---------------------------- MODULE QuotaSnapshot ----------------------------
(***************************************************************************)
(* One request for the quota snapshot of the admin API (src/routes/        *)
(* admin.rs, src/services/quota.rs) on top of KeeperClient: three calls at *)
(* once in tokio::try_join!, then a fourth that depends on the third.      *)
(*                                                                         *)
(* The calls are the tasks of KeeperClient, so their locking, logins and   *)
(* retries are KeeperClient's own actions.  What the handler adds is when  *)
(* a call starts, when it is dropped (a sibling has failed, the peer is    *)
(* gone), and what it does with the answers.  An identity of Keeper is an  *)
(* auth file or something else (auth_type), enabled or disabled; Keeper's  *)
(* operator may switch it at any time, so the fourth call may ask for an   *)
(* identity that is no longer what the third answer said.                  *)
(***************************************************************************)
EXTENDS Naturals

CONSTANTS
  AuthFiles,        \* identities with auth_type = AUTH_TYPE_AUTH_FILE
  OtherIdentities   \* identities of another type

ASSUME TypesAssumption == AuthFiles \cap OtherIdentities = {}

VARIABLES
  guard, want, ahead,                     \* auth_lock
  pc, observed, cookie, wire,             \* the calls
  generation, jar, valid, attempts,       \* the client and Keeper's sessions
  phase,     \* where the handler is
  disabled,  \* Keeper: the identities that are disabled
  listed,    \* the identities in the third answer, each with its flag
  posted,    \* auth_indexes of the POST, or {}
  items      \* the quotas in the answer to the POST

Joined == {"version", "auto_refresh", "identities"}
Calls  == Joined \cup {"quota_cache"}

Client == INSTANCE KeeperClient WITH Tasks <- Calls, NoSession <- "none"

clientVars == <<guard, want, ahead, pc, observed, cookie, wire,
                generation, jar, valid, attempts>>
handlerVars == <<phase, listed, posted, items>>
vars == <<clientVars, handlerVars, disabled>>

Identities == AuthFiles \cup OtherIdentities
Broken == Client!Returned \ {"ok"}

TypeOK ==
  /\ Client!TypeOK
  /\ phase \in {"idle", "join", "quota", "dropping", "ok", "failed", "unauthorized"}
  /\ disabled \in SUBSET Identities
  /\ listed \in SUBSET [identity : Identities, disabled : BOOLEAN]
  /\ posted \in SUBSET AuthFiles
  /\ items \in SUBSET posted

Init ==
  /\ Client!Init
  /\ phase = "idle"
  /\ disabled \in SUBSET Identities
  /\ listed = {} /\ posted = {} /\ items = {}

\* What Keeper lists now.
Listing == {[identity |-> i, disabled |-> i \in disabled] : i \in Identities}

-----------------------------------------------------------------------------
(* Faulty variants of the definitions below, each a mistake that is easy to  *)
(* make here.  No specification uses them: README.md lists which property    *)
(* each of them breaks when it replaces the one it is named after.           *)

\* The filter for the disabled ones is missing.
AuthIndexesAll(list) ==
  {e.identity : e \in {d \in list : d.identity \in AuthFiles}}

\* The handler returns at the first error, the other calls run on
\* (tokio::spawn for each of them).
JoinFailsDetached ==
  /\ phase \in {"join", "quota"}
  /\ \E t \in Calls : pc[t] \in Broken
  /\ phase' = "failed"
  /\ UNCHANGED <<clientVars, listed, posted, items, disabled>>

\* The handler waits for the other calls to succeed before it looks at errors.
JoinFailsLate ==
  /\ phase \in {"join", "quota"}
  /\ \A t \in Joined : pc[t] = "ok"
  /\ \E t \in Calls : pc[t] \in Broken
  /\ phase' = "dropping"
  /\ UNCHANGED <<clientVars, listed, posted, items, disabled>>

-----------------------------------------------------------------------------
(* The handler *)

\* auth_indexes: the auth files that are not disabled.
AuthIndexes(list) ==
  {e.identity : e \in {d \in list : d.identity \in AuthFiles /\ ~d.disabled}}

\* AdminApiAuthenticated lets the request in, or answers 401.
Arrive ==
  /\ phase = "idle"
  /\ phase' \in {"join", "unauthorized"}
  /\ UNCHANGED <<clientVars, listed, posted, items, disabled>>

\* try_join! polls its calls; the fourth call is polled when they are done.
Begin(t) ==
  /\ phase = IF t \in Joined THEN "join" ELSE "quota"
  /\ Client!Start(t)
  /\ UNCHANGED <<handlerVars, disabled>>

\* A call or Keeper takes a step.  The third answer is what Keeper lists at the
\* moment it handles the request; of the POST it has what is in its cache.
Work(t) ==
  /\ phase \in {"join", "quota"}
  /\ Client!Progress(t)
  /\ IF t = "identities" /\ wire[t] = "request" /\ wire'[t] = "success"
     THEN listed' = Listing ELSE UNCHANGED listed
  /\ IF t = "quota_cache" /\ wire[t] = "request" /\ wire'[t] = "success"
     THEN items' \in SUBSET posted ELSE UNCHANGED items
  /\ UNCHANGED <<phase, posted, disabled>>

\* All three have answered: ask for the quotas, unless there is none to ask for.
JoinSucceeds ==
  /\ phase = "join"
  /\ \A t \in Joined : pc[t] = "ok"
  /\ posted' = AuthIndexes(listed)
  /\ phase' = IF posted' = {} THEN "ok" ELSE "quota"
  /\ UNCHANGED <<clientVars, listed, items, disabled>>

\* The fourth has answered: the snapshot is complete.
QuotaSucceeds ==
  /\ phase = "quota"
  /\ pc["quota_cache"] = "ok"
  /\ phase' = "ok"
  /\ UNCHANGED <<clientVars, listed, posted, items, disabled>>

\* A call has failed: the others are dropped, and the error is answered.
JoinFails ==
  /\ phase \in {"join", "quota"}
  /\ \E t \in Calls : pc[t] \in Broken
  /\ phase' = "dropping"
  /\ UNCHANGED <<clientVars, listed, posted, items, disabled>>

\* The peer is gone: the handler's future is dropped, with its calls.
Abandon ==
  /\ phase \in {"join", "quota"}
  /\ phase' = "dropping"
  /\ UNCHANGED <<clientVars, listed, posted, items, disabled>>

\* The calls that have not returned are dropped one after the other.
DropCall(t) ==
  /\ phase = "dropping"
  /\ Client!Cancel(t)
  /\ UNCHANGED <<handlerVars, disabled>>

Dropped ==
  /\ phase = "dropping"
  /\ \A t \in Calls : pc[t] \notin Client!Active
  /\ phase' = "failed"
  /\ UNCHANGED <<clientVars, listed, posted, items, disabled>>

\* The handler has returned: the only way for this part to stand still.
Ended == phase \in {"ok", "failed", "unauthorized"} /\ UNCHANGED vars

-----------------------------------------------------------------------------
(* Keeper *)

\* Keeper loses a session.
KeeperForgets(t) ==
  /\ Client!KeeperForgets(t)
  /\ UNCHANGED <<handlerVars, disabled>>

\* An identity is enabled or disabled while the request is on its way.
Switch(i) ==
  /\ phase \in {"join", "quota"}
  /\ disabled' = IF i \in disabled THEN disabled \ {i} ELSE disabled \cup {i}
  /\ UNCHANGED <<clientVars, handlerVars>>

-----------------------------------------------------------------------------
\* What moves the request on once it has been let in.
Step ==
  \/ \E t \in Calls : Begin(t) \/ DropCall(t)
  \/ JoinSucceeds \/ QuotaSucceeds \/ JoinFails \/ Dropped

Next ==
  \/ Arrive \/ Step \/ Abandon \/ Ended
  \/ \E t \in Calls : Work(t) \/ KeeperForgets(t)
  \/ \E i \in Identities : Switch(i)

Spec == Init /\ [][Next]_vars

\* Polls are not withheld and Keeper answers: the client sets no timeout.
Fairness == WF_vars(Step) /\ \A t \in Calls : WF_vars(Work(t))

FairSpec == Spec /\ Fairness

-----------------------------------------------------------------------------
(* Properties *)

\* When the handler has returned, whatever made it return, none of its calls is
\* in flight, queued for auth_lock or holding it: a failed snapshot never blocks
\* the next user of the shared client.
NothingLeftBehind ==
  phase \in {"ok", "failed"} =>
    \A t \in Calls : /\ pc[t] \notin Client!Active
                     /\ guard[t] = "none" /\ want[t] = "none"
                     /\ wire[t] = "none"

\* A snapshot is consistent in itself although identities are switched while it
\* is taken: every quota is of an auth file that the same snapshot lists as
\* enabled, and quotas were asked for exactly when there is such a file.
QuotasAreOfListed ==
  phase = "ok" =>
    /\ \A i \in items : i \in AuthFiles /\ [identity |-> i, disabled |-> FALSE] \in listed
    /\ pc["quota_cache"] = "ok"
         <=> \E i \in AuthFiles : [identity |-> i, disabled |-> FALSE] \in listed

\* Every snapshot ends, if Keeper answers: try_join! returns at the first error
\* and its calls never wait for one another through auth_lock.
SnapshotEnds ==
  phase \in {"join", "quota"} ~> phase \in {"ok", "failed"}
=============================================================================
