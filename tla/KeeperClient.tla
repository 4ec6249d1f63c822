----------------------------- MODULE KeeperClient -----------------------------
(***************************************************************************)
(* The shared client of CPA Usage Keeper, src/clients/keeper/mod.rs.       *)
(*                                                                         *)
(* All requests share one cookie jar, one RwLock (auth_lock) and one       *)
(* counter (auth_generation).  A call of get_json or post_json sends its   *)
(* request under a read guard; on 401 it drops the guard, takes the write  *)
(* guard, logs in unless somebody else has done so since (the generation   *)
(* it observed has moved), and sends its request once more.                *)
(*                                                                         *)
(* A task t \in Tasks is ONE such call.  A call logs in at most once, so   *)
(* the Keeper session that t obtains is named t: the jar holds a task or   *)
(* NoSession, and `valid' is the set of sessions that Keeper accepts.      *)
(* get_json and post_json have the same control; they differ in the        *)
(* request they build (send_get, send_post), which is data.                *)
(*                                                                         *)
(* Keeper itself is the environment: it answers 401 only to a cookie that  *)
(* it does not accept, may fail any request, may refuse any login, and may *)
(* forget any session at any time.  A call may be cancelled at every await *)
(* (the HTTP peer is gone, or a sibling in tokio::try_join! has failed).   *)
(***************************************************************************)
EXTENDS FairRwLock, Integers

CONSTANT NoSession   \* the jar of a client that has never logged in

ASSUME NoSessionAssumption == NoSession \notin Tasks

VARIABLES
  pc,          \* pc[t]: where call t is
  observed,    \* observed[t]: the generation t read before its first send
  cookie,      \* cookie[t]: the cookie in the request t sent last
  wire,        \* wire[t]: t's exchange with Keeper
  generation,  \* auth_generation
  jar,         \* the session cookie in the shared cookie jar
  valid,       \* Keeper: the sessions it accepts
  attempts     \* history: the calls that have sent a login request

callVars == <<pc, observed, cookie, wire>>
vars == <<guard, want, ahead, pc, observed, cookie, wire,
          generation, jar, valid, attempts>>

Session == Tasks \cup {NoSession}

\* Where a call stands, by the guard it holds or waits for.
Queued    == {"lockFirst", "lockWrite", "lockRetry"}
Reading   == {"first", "retry"}
Writing   == {"login", "loggedIn"}
Returned  == {"ok", "failed", "unauthorized", "loginFailed", "cancelled"}
Active    == Queued \cup Reading \cup Writing \cup {"rejected"}
Phase     == {"idle"} \cup Active \cup Returned

\* Nothing in flight; a request or a login that Keeper has not handled;
\* what Keeper answered.
Wire == {"none", "request", "login",
         "success", "error", "401", "204", "refused"}

TypeOK ==
  /\ LockTypeOK
  /\ pc \in [Tasks -> Phase]
  /\ observed \in [Tasks -> Nat]
  /\ cookie \in [Tasks -> Session]
  /\ wire \in [Tasks -> Wire]
  /\ generation \in Nat
  /\ jar \in Session
  /\ valid \in SUBSET Tasks
  /\ attempts \in SUBSET Tasks

Init ==
  /\ LockInit
  /\ pc = [t \in Tasks |-> "idle"]
  /\ observed = [t \in Tasks |-> 0]
  /\ cookie = [t \in Tasks |-> NoSession]
  /\ wire = [t \in Tasks |-> "none"]
  /\ generation = 0
  /\ jar = NoSession
  /\ valid = {}
  /\ attempts = {}

Goto(t, phase) == pc' = [pc EXCEPT ![t] = phase]
Transmit(t, w) == wire' = [wire EXCEPT ![t] = w]

\* send_get, send_post: the request leaves with the jar's current cookie.
Send(t) ==
  /\ cookie' = [cookie EXCEPT ![t] = jar]
  /\ Transmit(t, "request")

-----------------------------------------------------------------------------
(* Faulty variants of the actions below, each a mistake that is easy to make *)
(* here.  No specification uses them: README.md lists which property each of *)
(* them breaks when it replaces the action it is named after.                *)

\* The read guard lives in a block that ends before the answer is awaited.
FirstAttemptUnguarded(t) ==
  /\ pc[t] = "lockFirst"
  /\ MayRead(t)
  /\ Release(t)
  /\ observed' = [observed EXCEPT ![t] = generation]
  /\ Send(t)
  /\ Goto(t, "first")
  /\ UNCHANGED <<generation, jar, valid, attempts>>

\* auth_lock is a Mutex: requests exclude one another too.
FirstAttemptAlone(t) ==
  /\ pc[t] = "lockFirst"
  /\ MayRead(t)
  /\ \A u \in Tasks : guard[u] = "none"
  /\ Acquire(t)
  /\ observed' = [observed EXCEPT ![t] = generation]
  /\ Send(t)
  /\ Goto(t, "first")
  /\ UNCHANGED <<generation, jar, valid, attempts>>

\* A second 401 starts over instead of failing.
FinishLooping(t) ==
  /\ pc[t] \in Reading
  /\ \/ wire[t] = "success" /\ \E r \in {"ok", "failed"} : Goto(t, r)
     \/ wire[t] = "error" /\ Goto(t, "failed")
     \/ wire[t] = "401" /\ pc[t] = "retry" /\ Goto(t, "rejected")
  /\ Release(t)
  /\ Transmit(t, "none")
  /\ UNCHANGED <<observed, cookie, generation, jar, valid, attempts>>

\* The guard's holder does not compare the generation and skips the login.
AlreadyRefreshedUnchecked(t) ==
  /\ pc[t] = "lockWrite"
  /\ MayWrite(t)
  /\ Request(t, "read")
  /\ Goto(t, "lockRetry")
  /\ UNCHANGED <<observed, cookie, wire, generation, jar, valid, attempts>>

\* The guard's holder does not compare the generation and logs in again.
LoginUnchecked(t) ==
  /\ pc[t] = "lockWrite"
  /\ MayWrite(t)
  /\ Acquire(t)
  /\ Transmit(t, "login")
  /\ attempts' = attempts \cup {t}
  /\ Goto(t, "login")
  /\ UNCHANGED <<observed, cookie, generation, jar, valid>>

\* A login that succeeded is not counted.
LoginDoneUncounted(t) ==
  /\ pc[t] = "loggedIn"
  /\ Request(t, "read")
  /\ Goto(t, "lockRetry")
  /\ UNCHANGED <<observed, cookie, wire, generation, jar, valid, attempts>>

\* A login that failed is not counted (`?' before fetch_add).
LoginFailsUncounted(t) ==
  /\ pc[t] = "login"
  /\ wire[t] = "refused"
  /\ Release(t)
  /\ Transmit(t, "none")
  /\ Goto(t, "loginFailed")
  /\ UNCHANGED <<observed, cookie, generation, jar, valid, attempts>>

-----------------------------------------------------------------------------
(* The first attempt *)

\* get_json or post_json is called and waits for the read guard.
Start(t) ==
  /\ pc[t] = "idle"
  /\ Goto(t, "lockFirst")
  /\ Request(t, "read")
  /\ UNCHANGED <<observed, cookie, wire, generation, jar, valid, attempts>>

\* With the read guard: load the generation, then send.
FirstAttempt(t) ==
  /\ pc[t] = "lockFirst"
  /\ MayRead(t)
  /\ Acquire(t)
  /\ observed' = [observed EXCEPT ![t] = generation]
  /\ Send(t)
  /\ Goto(t, "first")
  /\ UNCHANGED <<generation, jar, valid, attempts>>

\* Status 401: the read guard is dropped and the body is drained.
Rejected(t) ==
  /\ pc[t] = "first"
  /\ wire[t] = "401"
  /\ Release(t)
  /\ Transmit(t, "none")
  /\ Goto(t, "rejected")
  /\ UNCHANGED <<observed, cookie, generation, jar, valid, attempts>>

\* The send error, or the guard is dropped and decode_json_response reads the
\* answer: a success may still carry a body that does not decode; on the second
\* attempt a 401 is a failure like another.  One step: the decoding touches
\* nothing that is shared, and what it waits for belongs to Keeper's answer.
Finish(t) ==
  /\ pc[t] \in Reading
  /\ \/ wire[t] = "success" /\ \E r \in {"ok", "failed"} : Goto(t, r)
     \/ wire[t] = "error" /\ Goto(t, "failed")
     \/ wire[t] = "401" /\ pc[t] = "retry" /\ Goto(t, "unauthorized")
  /\ Release(t)
  /\ Transmit(t, "none")
  /\ UNCHANGED <<observed, cookie, generation, jar, valid, attempts>>

-----------------------------------------------------------------------------
(* refresh_auth *)

\* The body is drained; refresh_auth waits for the write guard.
RefreshAuth(t) ==
  /\ pc[t] = "rejected"
  /\ Request(t, "write")
  /\ Goto(t, "lockWrite")
  /\ UNCHANGED <<observed, cookie, wire, generation, jar, valid, attempts>>

\* The generation has moved: drop the write guard, ask for the read guard.
AlreadyRefreshed(t) ==
  /\ pc[t] = "lockWrite"
  /\ MayWrite(t)
  /\ generation # observed[t]
  /\ Request(t, "read")
  /\ Goto(t, "lockRetry")
  /\ UNCHANGED <<observed, cookie, wire, generation, jar, valid, attempts>>

\* The generation is the observed one: send the login request.
Login(t) ==
  /\ pc[t] = "lockWrite"
  /\ MayWrite(t)
  /\ generation = observed[t]
  /\ Acquire(t)
  /\ Transmit(t, "login")
  /\ attempts' = attempts \cup {t}
  /\ Goto(t, "login")
  /\ UNCHANGED <<observed, cookie, generation, jar, valid>>

\* 204: the response headers have put the new session into the jar, and
\* login() still drains the body.
LoginAccepted(t) ==
  /\ pc[t] = "login"
  /\ wire[t] = "204"
  /\ jar' = t
  /\ Transmit(t, "none")
  /\ Goto(t, "loggedIn")
  /\ UNCHANGED <<guard, want, ahead, observed, cookie, generation, valid, attempts>>

\* login() returned Ok: count it, drop the write guard, ask for the read guard.
LoginDone(t) ==
  /\ pc[t] = "loggedIn"
  /\ generation' = generation + 1
  /\ Request(t, "read")
  /\ Goto(t, "lockRetry")
  /\ UNCHANGED <<observed, cookie, wire, jar, valid, attempts>>

\* login() returned Err: it is counted too, and the call returns the error.
LoginFails(t) ==
  /\ pc[t] = "login"
  /\ wire[t] = "refused"
  /\ generation' = generation + 1
  /\ Release(t)
  /\ Transmit(t, "none")
  /\ Goto(t, "loginFailed")
  /\ UNCHANGED <<observed, cookie, jar, valid, attempts>>

\* The second and last attempt, under a new read guard.
RetryAttempt(t) ==
  /\ pc[t] = "lockRetry"
  /\ MayRead(t)
  /\ Acquire(t)
  /\ Send(t)
  /\ Goto(t, "retry")
  /\ UNCHANGED <<observed, generation, jar, valid, attempts>>

\* The future of the call is dropped at one of its awaits: the guard goes, the
\* generation does not move.
Cancel(t) ==
  /\ pc[t] \in Active
  /\ Release(t)
  /\ Transmit(t, "none")
  /\ Goto(t, "cancelled")
  /\ UNCHANGED <<observed, cookie, generation, jar, valid, attempts>>

-----------------------------------------------------------------------------
(* Keeper *)

\* Keeper handles a request: no verdict but 401 or an error without a session.
KeeperAnswers(t) ==
  /\ wire[t] = "request"
  /\ \/ Transmit(t, "error")
     \/ cookie[t] \in valid /\ Transmit(t, "success")
     \/ cookie[t] \notin valid /\ Transmit(t, "401")
  /\ UNCHANGED <<guard, want, ahead, pc, observed, cookie,
                 generation, jar, valid, attempts>>

\* Keeper opens a session for the login of t, or it does not (wrong password,
\* too many attempts, connection lost).
KeeperLogsIn(t) ==
  /\ wire[t] = "login"
  /\ \/ Transmit(t, "204") /\ valid' = valid \cup {t}
     \/ Transmit(t, "refused") /\ UNCHANGED valid
  /\ UNCHANGED <<guard, want, ahead, pc, observed, cookie,
                 generation, jar, attempts>>

\* A session expires, or Keeper restarts.
KeeperForgets(s) ==
  /\ s \in valid
  /\ valid' = valid \ {s}
  /\ UNCHANGED <<guard, want, ahead, pc, observed, cookie, wire,
                 generation, jar, attempts>>

-----------------------------------------------------------------------------
\* What moves a call on once it has begun: its own polls ...
ClientSteps(t) ==
  \/ FirstAttempt(t) \/ Rejected(t) \/ Finish(t)
  \/ RefreshAuth(t) \/ AlreadyRefreshed(t)
  \/ Login(t) \/ LoginAccepted(t) \/ LoginDone(t) \/ LoginFails(t)
  \/ RetryAttempt(t)

\* ... and Keeper's answers.
Progress(t) == ClientSteps(t) \/ KeeperAnswers(t) \/ KeeperLogsIn(t)

\* Every call has returned: the only way for the client to stand still.
AllReturned ==
  /\ \A t \in Tasks : pc[t] \in Returned
  /\ UNCHANGED vars

Next ==
  \/ \E t \in Tasks : Start(t) \/ Cancel(t) \/ KeeperForgets(t) \/ Progress(t)
  \/ AllReturned

Spec == Init /\ [][Next]_vars

\* Polls are not withheld.  Keeper owes nobody an answer.
Fairness == \A t \in Tasks : WF_vars(ClientSteps(t))

FairSpec == Spec /\ Fairness

-----------------------------------------------------------------------------
(* Properties *)

\* Calls whose rejected request is not yet answered by a second attempt.
AwaitingRetry == {"rejected", "lockWrite", "login", "loggedIn", "lockRetry"}

\* The login of d has failed in the generation in which t was rejected.
LoginFailedFor(t) ==
  \E d \in Tasks : pc[d] = "loginFailed" /\ observed[d] = observed[t]

\* A login request never replaces a session that Keeper still accepts: when
\* refresh_auth is logging in, the session in the jar is dead.  Left out are the
\* sessions of calls that were cancelled: one is cancelled after its cookie was
\* stored and before auth_generation was incremented (or later, which does no
\* harm but looks the same here).
NoRedundantLogin ==
  \A t \in Tasks :
    pc[t] = "login" /\ jar \in valid => pc[jar] = "cancelled"

\* Callers rejected in the same generation send one login between them, also
\* when that login fails: refresh_auth counts a failure.  Left out are
\* pairs of which one was cancelled, during its login or later.
OneLoginPerGeneration ==
  \A t, u \in attempts :
    t # u /\ observed[t] = observed[u] => "cancelled" \in {pc[t], pc[u]}

\* The second attempt of get_json or post_json never repeats the cookie that
\* was rejected, unless the login of that generation failed.
RetryUsesNewCookie ==
  [][\A t \in Tasks :
       pc[t] = "lockRetry" /\ pc'[t] = "retry"
         => cookie'[t] # cookie[t] \/ LoginFailedFor(t)]_vars

\* While a request is in flight the jar and the generation stand still, so an
\* answer speaks about the state in which the generation was observed
\* (auth_lock is held from before the load until after the answer).
NoLoginDuringRequest ==
  [][(\E t \in Tasks : pc[t] \in Reading /\ pc'[t] \in Reading \cup {"rejected"})
       => UNCHANGED <<jar, generation>>]_vars

\* Keeper answers what it is asked; the client sets no timeout.
KeeperResponds == \A t \in Tasks : WF_vars(KeeperAnswers(t) \/ KeeperLogsIn(t))

\* Every call of get_json or post_json returns, if Keeper answers: readers,
\* writers and the queue of auth_lock never wait for one another forever.
CallsReturn ==
  KeeperResponds => \A t \in Tasks : pc[t] \in Active ~> pc[t] \in Returned

\* There is no timeout, so a request that Keeper never answers keeps its read
\* guard for ever.  It still holds up no first attempt of another call, unless
\* some call waits for the write guard, or has it, to log in.
HeldUpOnlyByLogins ==
  \A t \in Tasks :
    pc[t] = "lockFirst" ~> \/ pc[t] # "lockFirst"
                           \/ \E u \in Tasks : "write" \in {guard[u], want[u]}

-----------------------------------------------------------------------------
(* The promise of SharedLogin, with auth_generation as the epoch *)

AbstractPhase(p) ==
  IF p = "idle" THEN "idle"
  ELSE IF p \in {"lockFirst", "first"} THEN "calling"
  ELSE IF p \in {"rejected", "lockWrite", "login", "loggedIn"} THEN "rejected"
  ELSE IF p \in {"lockRetry", "retry"} THEN "retrying"
  ELSE "done"

AbstractSeen(p, g) ==
  IF AbstractPhase(p) \in {"rejected", "retrying"} THEN g ELSE 0

Shared == INSTANCE SharedLogin WITH
  Callers <- Tasks,
  epoch <- generation,
  phase <- [t \in Tasks |-> AbstractPhase(pc[t])],
  seen <- [t \in Tasks |-> AbstractSeen(pc[t], observed[t])]

\* The client implements SharedLogin: the generation moves once per rejected
\* cohort, and a second attempt is given only after it has moved.
ImplementsSharedLogin == Shared!AbsSpec
=============================================================================
