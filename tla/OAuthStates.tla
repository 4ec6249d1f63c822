----------------------------- MODULE OAuthStates -----------------------------
(***************************************************************************)
(* The OAuth states: github_start and the first half of github_callback    *)
(* (src/routes/auth.rs) with the statements they hand to SQLite            *)
(* (src/db/mod.rs, the oauth_states table).                                *)
(*                                                                         *)
(* A start s \in Starts is one request of /auth/github/start; the state    *)
(* and the PKCE verifier that it generates (32 random bytes each) are both *)
(* named s.  A callback c \in Callbacks is one request of the callback     *)
(* route; it presents a state that a start has sent to a browser, perhaps  *)
(* one that another callback presents too (a reload, a second tab).        *)
(*                                                                         *)
(* consume_oauth_state is a deferred transaction of three statements, and  *)
(* SQLite is external: the SELECT takes the SHARED lock, the DELETE takes  *)
(* the one RESERVED lock and fails at once if it is taken (a transaction   *)
(* that reads already does not wait), the COMMIT that removes a row needs  *)
(* every other SHARED lock gone.  A statement outside a transaction is     *)
(* atomic: it needs RESERVED free, and the SHARED locks gone if it changes *)
(* a row.  Whoever waits may time out.                                     *)
(***************************************************************************)
EXTENDS Integers

CONSTANTS
  Starts,     \* requests of /auth/github/start
  Callbacks,  \* requests of /auth/github/callback
  None,       \* no state
  TTL,        \* OAUTH_STATE_TTL_SECONDS
  MaxTime     \* bound on the clock

ASSUME TTLAssumption == TTL \in Nat \ {0}
ASSUME MaxTimeAssumption == MaxTime \in Nat
ASSUME NoneAssumption == None \notin Starts
ASSUME RequestsAssumption == Starts \cap Callbacks = {}

VARIABLES
  step,      \* step[r]: where request r is
  stamp,     \* stamp[r]: the clock as r read it for its next statement
  presents,  \* presents[c]: the state in the query of callback c
  verifier,  \* verifier[c]: what the SELECT of c has returned, or None
  rows,      \* oauth_states: the hashes that have a row
  expires,   \* expires[s]: expires_at of the row of s (kept after its end)
  now        \* the clock, in seconds

vars == <<step, stamp, presents, verifier, rows, expires, now>>

Requests == Starts \cup Callbacks

\* hash_secret: SHA-256 keeps states apart, and a row does not show its state.
Hash(s) == [sha256 |-> s]

StartStep == {"idle", "cleanup", "cleaned", "insert", "redirected", "failed"}

\* The locks of a callback follow from where it is.
Holding      == {"selected", "deleted"}
CallbackStep == {"idle", "select", "selected", "deleted",
                 "verified", "rejected", "failed"}

TypeOK ==
  /\ step \in [Requests -> StartStep \cup CallbackStep]
  /\ \A s \in Starts : step[s] \in StartStep
  /\ \A c \in Callbacks : step[c] \in CallbackStep
  /\ stamp \in [Requests -> 0..MaxTime]
  /\ presents \in [Callbacks -> Starts \cup {None}]
  /\ verifier \in [Callbacks -> Starts \cup {None}]
  /\ rows \in SUBSET {Hash(s) : s \in Starts}
  /\ expires \in [Starts -> 0..(MaxTime + TTL)]
  /\ now \in 0..MaxTime

Init ==
  /\ step = [r \in Requests |-> "idle"]
  /\ stamp = [r \in Requests |-> 0]
  /\ presents = [c \in Callbacks |-> None]
  /\ verifier = [c \in Callbacks |-> None]
  /\ rows = {}
  /\ expires = [s \in Starts |-> 0]
  /\ now = 0

Move(r, from, to) == step[r] = from /\ step' = [step EXCEPT ![r] = to]

ReadClock(r) == stamp' = [stamp EXCEPT ![r] = now]

\* RESERVED is taken.
Reserved == \E c \in Callbacks : step[c] = "deleted"

\* No callback other than r holds a lock of SQLite.
Unlocked(r) == \A c \in Callbacks \ {r} : step[c] \notin Holding

\* The rows with a hash in H are removed.
Remove(H) == rows' = rows \ H

Expired(time) == {Hash(s) : s \in {u \in Starts : expires[u] <= time}}

-----------------------------------------------------------------------------
(* Faulty variants of the actions below, each a mistake that is easy to make *)
(* here.  No specification uses them: README.md lists which property each of *)
(* them breaks when it replaces the action it is named after.                *)

\* The clean-up compares with the time at which a state is issued, not expires.
CleanupUnexpired(s) ==
  /\ Move(s, "cleanup", "cleaned")
  /\ Unlocked(s)
  /\ Remove({Hash(u) : u \in {v \in Starts : expires[v] - TTL <= stamp[s]}})
  /\ UNCHANGED <<stamp, presents, verifier, expires, now>>

\* The three statements are not one transaction: each runs alone.
CommitUnlocked(c) ==
  /\ Move(c, "deleted", IF verifier[c] = None THEN "rejected" ELSE "verified")
  /\ Remove({Hash(presents[c])})
  /\ UNCHANGED <<stamp, presents, verifier, expires, now>>

\* The transaction is dropped without a commit.
CommitForgotten(c) ==
  /\ Move(c, "deleted", IF verifier[c] = None THEN "rejected" ELSE "verified")
  /\ UNCHANGED <<stamp, presents, verifier, rows, expires, now>>

-----------------------------------------------------------------------------
(* github_start *)

\* delete_expired_oauth_states reads the clock and hands the DELETE over.
Start(s) ==
  /\ Move(s, "idle", "cleanup")
  /\ ReadClock(s)
  /\ UNCHANGED <<presents, verifier, rows, expires, now>>

\* DELETE ... WHERE expires_at <= stamp
DbCleans(s) ==
  /\ Move(s, "cleanup", "cleaned")
  /\ ~Reserved
  /\ rows \cap Expired(stamp[s]) # {} => Unlocked(s)
  /\ Remove(Expired(stamp[s]))
  /\ UNCHANGED <<stamp, presents, verifier, expires, now>>

\* build_oauth_start, then insert_oauth_state reads the clock.
BuildOAuthStart(s) ==
  /\ Move(s, "cleaned", "insert")
  /\ ReadClock(s)
  /\ UNCHANGED <<presents, verifier, rows, expires, now>>

\* The INSERT; the redirect carries the state to the browser.
DbInserts(s) ==
  /\ Move(s, "insert", "redirected")
  /\ Unlocked(s)
  /\ expires' = [expires EXCEPT ![s] = stamp[s] + TTL]
  /\ rows' = rows \cup {Hash(s)}
  /\ UNCHANGED <<stamp, presents, verifier, now>>

-----------------------------------------------------------------------------
(* github_callback, up to consume_oauth_state *)

\* A callback with a state that was sent to a browser: BEGIN, then the clock is
\* read for the SELECT.
Callback(c, s) ==
  /\ step[s] = "redirected"
  /\ Move(c, "idle", "select")
  /\ presents' = [presents EXCEPT ![c] = s]
  /\ ReadClock(c)
  /\ UNCHANGED <<verifier, rows, expires, now>>

\* SELECT ... WHERE state_hash = ? AND expires_at > stamp
DbSelects(c) ==
  /\ Move(c, "select", "selected")
  /\ verifier' = [verifier EXCEPT ![c] =
                    IF Hash(presents[c]) \in rows \ Expired(stamp[c])
                    THEN presents[c] ELSE None]
  /\ UNCHANGED <<stamp, presents, rows, expires, now>>

\* DELETE ... WHERE state_hash = ?, not visible to others before the COMMIT.
DbDeletes(c) ==
  /\ Move(c, "selected", "deleted")
  /\ ~Reserved
  /\ UNCHANGED <<stamp, presents, verifier, rows, expires, now>>

\* COMMIT; the callback goes on with the verifier, or answers "invalid or
\* expired OAuth state".
DbCommits(c) ==
  /\ Move(c, "deleted", IF verifier[c] = None THEN "rejected" ELSE "verified")
  /\ Hash(presents[c]) \in rows => Unlocked(c)
  /\ Remove({Hash(presents[c])})
  /\ UNCHANGED <<stamp, presents, verifier, expires, now>>

-----------------------------------------------------------------------------
\* A statement fails (database is locked, pool timeout, disk), or the future of
\* the request is dropped: the transaction is rolled back.  A callback dropped
\* while its COMMIT runs is one of these if the COMMIT has no effect; if it has,
\* it is DbCommits: nobody sees what becomes of the callback after that.
Fails(r) ==
  /\ step[r] \in {"cleanup", "cleaned", "insert", "select", "selected", "deleted"}
  /\ step' = [step EXCEPT ![r] = "failed"]
  /\ UNCHANGED <<stamp, presents, verifier, rows, expires, now>>

Tick ==
  /\ now < MaxTime
  /\ now' = now + 1
  /\ UNCHANGED <<step, stamp, presents, verifier, rows, expires>>

\* Every request has ended: the only way for this part to stand still.  A
\* callback needs a state that some start has sent.
AllEnded ==
  /\ \A s \in Starts : step[s] \in {"redirected", "failed"}
  /\ \A c \in Callbacks :
       \/ step[c] \in {"verified", "rejected", "failed"}
       \/ step[c] = "idle" /\ \A s \in Starts : step[s] = "failed"
  /\ UNCHANGED vars

Next ==
  \/ \E s \in Starts : Start(s) \/ DbCleans(s) \/ BuildOAuthStart(s) \/ DbInserts(s)
  \/ \E c \in Callbacks, s \in Starts : Callback(c, s)
  \/ \E c \in Callbacks : DbSelects(c) \/ DbDeletes(c) \/ DbCommits(c)
  \/ \E r \in Requests : Fails(r)
  \/ Tick
  \/ AllEnded

Spec == Init /\ [][Next]_vars

-----------------------------------------------------------------------------
(* Properties *)

Used(s) == \E c \in Callbacks : step[c] = "verified" /\ presents[c] = s

\* One state lets at most one callback through, also when two browsers, tabs or
\* reloads present it at the same time (SELECT, DELETE and COMMIT of
\* consume_oauth_state are one transaction).
StateUsedOnce ==
  \A c, d \in Callbacks :
    step[c] = "verified" /\ step[d] = "verified" /\ presents[c] = presents[d]
      => c = d

\* "invalid or expired OAuth state" is the truth: the state has expired or
\* another callback has used it.  No clean-up of another request, and no
\* callback that failed half way, takes a live state from its browser
\* (`expires_at <= now' and `expires_at > now' leave no gap).
LiveStateHonoured ==
  \A c \in Callbacks :
    step[c] = "rejected" => expires[presents[c]] <= now \/ Used(presents[c])

-----------------------------------------------------------------------------
(* The promise of OneTimeTokens *)

Tokens == INSTANCE OneTimeTokens WITH
  Tokens <- Starts,
  Holders <- Callbacks,
  status <- [s \in Starts |-> IF step[s] # "redirected" THEN "new"
                              ELSE IF Hash(s) \in rows THEN "live" ELSE "gone"],
  holds <- [c \in Callbacks |-> IF step[c] = "verified" THEN presents[c] ELSE None]

\* consume_oauth_state is atomic: it appears to happen at its COMMIT, and a
\* state that is gone never comes back.
ImplementsOneTimeTokens == Tokens!TokSpec
=============================================================================
