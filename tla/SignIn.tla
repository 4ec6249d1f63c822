-------------------------------- MODULE SignIn --------------------------------
(***************************************************************************)
(* Signing in from the browser's side: the whole of github_callback and    *)
(* logout (src/routes/auth.rs), the dashboard (src/routes/dashboard.rs)    *)
(* and the session (current_user and remember_current_user of              *)
(* src/services/user.rs; the layer that src/main.rs builds).               *)
(*                                                                         *)
(* The parts with a model of their own appear as what they promise:        *)
(* consume_oauth_state is OneTimeTokens, find_or_create_user is            *)
(* UserDirectory.  A row of users is named by its GitHub identity (logins  *)
(* agree on the row: LoginsAgree of Provisioning).                         *)
(*                                                                         *)
(* The session layer (tower-sessions with its SQLite store) is external.   *)
(* A request works on a copy of the row that its cookie names; a changed   *)
(* copy is saved after the handler, under a new id if there was no row,    *)
(* and only then the reply sets the cookie.  A save writes the row whether *)
(* or not it is still there.  A session that the callback c creates is     *)
(* named c.  Replies reach a browser in any order, or never.               *)
(***************************************************************************)
EXTENDS Naturals

CONSTANTS
  Browsers,
  Identities,  \* the GitHub identities
  States,      \* the OAuth states
  Callbacks, Visits, Logouts,   \* requests of the three routes
  None         \* no cookie, no row, no user

ASSUME NoneAssumption ==
  None \notin Browsers \cup Identities \cup States \cup Callbacks
ASSUME RoutesAssumption ==
  Callbacks \cap Visits = {} /\ Callbacks \cap Logouts = {} /\ Visits \cap Logouts = {}

VARIABLES
  status, holds,                    \* OneTimeTokens
  asks, active, account, answer,    \* UserDirectory
  cookie,     \* cookie[b]: the session id in browser b
  store,      \* store[i]: user_id in the row of session i
  step,       \* step[r]: where request r is
  from,       \* from[r]: the browser that r comes from
  carries,    \* carries[r]: the session id of r: first its cookie's
  user,       \* user[r]: user_id in r's copy of the session
  alone,      \* history: callbacks that share no time with another of their browser
  confirmed,  \* history: whom GitHub has confirmed to a callback of which browser
  expect,     \* history: the user of the browser's last login, if it ran alone
  hope        \* history: expect as a visit was sent, until the next login

tokens == <<status, holds>>
directory == <<asks, active, account, answer>>
request == <<step, from, carries, user>>
history == <<alone, confirmed, expect, hope>>
vars == <<tokens, directory, cookie, store, request, history>>

Requests == Callbacks \cup Visits \cup Logouts
Sessions == Callbacks

Tokens == INSTANCE OneTimeTokens WITH Tokens <- States, Holders <- Callbacks
Directory == INSTANCE UserDirectory WITH Callers <- Callbacks

CallbackStep == {"idle", "consume", "exchange", "identity", "account",
                 "remember", "save", "unchanged", "saved", "done", "failed"}
VisitStep    == {"idle", "load", "page", "login", "shown", "done", "failed"}
LogoutStep   == {"idle", "flush", "flushed", "done", "failed"}
Ended        == {"done", "shown", "failed"}

Running(b) == {c \in Callbacks : from[c] = b /\ step[c] \notin Ended}

TypeOK ==
  /\ status \in [States -> {"new", "live", "gone"}]
  /\ holds \in [Callbacks -> States \cup {None}]
  /\ asks \in [Callbacks -> Identities \cup {None}]
  /\ active \in SUBSET Callbacks
  /\ account \in [Identities -> Callbacks \cup {None}]
  /\ answer \in [Callbacks -> Callbacks \cup {None}]
  /\ cookie \in [Browsers -> Sessions \cup {None}]
  /\ store \in [Sessions -> Identities \cup {None}]
  /\ \A c \in Callbacks : step[c] \in CallbackStep
  /\ \A v \in Visits : step[v] \in VisitStep
  /\ \A o \in Logouts : step[o] \in LogoutStep
  /\ from \in [Requests -> Browsers \cup {None}]
  /\ carries \in [Requests -> Sessions \cup {None}]
  /\ user \in [Requests -> Identities \cup {None}]
  /\ alone \in SUBSET Callbacks
  /\ confirmed \in SUBSET (Browsers \X Identities)
  /\ expect \in [Browsers -> Identities \cup {None}]
  /\ hope \in [Visits -> Identities \cup {None}]

Init ==
  /\ Tokens!TokInit
  /\ Directory!DirInit
  /\ cookie = [b \in Browsers |-> None]
  /\ store = [i \in Sessions |-> None]
  /\ step = [r \in Requests |-> "idle"]
  /\ from = [r \in Requests |-> None]
  /\ carries = [r \in Requests |-> None]
  /\ user = [r \in Requests |-> None]
  /\ alone = {}
  /\ confirmed = {}
  /\ expect = [b \in Browsers |-> None]
  /\ hope = [v \in Visits |-> None]

Move(r, a, b) == step[r] = a /\ step' = [step EXCEPT ![r] = b]

\* The row that the session of r has, if it has one.
Loaded(r) == IF carries[r] = None THEN None ELSE store[carries[r]]

\* Browser b sends r with its cookie.
Send(r, b, s) ==
  /\ Move(r, "idle", s)
  /\ from' = [from EXCEPT ![r] = b]
  /\ carries' = [carries EXCEPT ![r] = cookie[b]]
  /\ UNCHANGED <<tokens, directory, cookie, store, user, confirmed>>

-----------------------------------------------------------------------------
(* Faulty variants of the actions below, each a mistake that is easy to make *)
(* here.  No specification uses them: README.md lists which property each of *)
(* them breaks when it replaces the action it is named after.                *)

\* find_or_create_user runs in the background, nobody waits for its answer.
AccountUnawaited(c) ==
  /\ Move(c, "account", "remember")
  /\ UNCHANGED <<tokens, directory, cookie, store, from, carries, user, history>>

\* A session that has a user keeps it.
RememberOnce(c) ==
  /\ Move(c, "remember", IF Loaded(c) = None THEN "save" ELSE "unchanged")
  /\ carries' = [carries EXCEPT ![c] = IF Loaded(c) = None THEN None ELSE carries[c]]
  /\ user' = [user EXCEPT ![c] = asks[c]]
  /\ UNCHANGED <<tokens, directory, cookie, store, from, history>>

\* An id without a row is used on, as if it were new.
RememberUnderOldId(c) ==
  /\ Move(c, "remember", IF Loaded(c) = asks[c] THEN "unchanged" ELSE "save")
  /\ user' = [user EXCEPT ![c] = asks[c]]
  /\ UNCHANGED <<tokens, directory, cookie, store, from, carries, history>>

\* The session gets the row that was inserted last, by whichever login.
RememberLastRow(c) ==
  /\ Move(c, "remember", "save")
  /\ \E i \in Identities : account[i] # None /\ user' = [user EXCEPT ![c] = i]
  /\ UNCHANGED <<tokens, directory, cookie, store, from, carries, history>>

-----------------------------------------------------------------------------
(* github_start and github_callback *)

\* github_start redirects a browser, whichever it is, with state s: it keeps
\* the state in oauth_states only, and nothing in the browser's session.
StartLogin(s) ==
  /\ Tokens!Issue(s)
  /\ UNCHANGED <<directory, cookie, store, request, history>>

StatesExpire(T) ==
  /\ T # {}
  /\ Tokens!Expire(T)
  /\ UNCHANGED <<directory, cookie, store, request, history>>

\* Browser b opens the callback, sent back by GitHub or not.  (The history:
\* from now on nothing is expected of b.)
Callback(c, b) ==
  /\ Send(c, b, "consume")
  /\ alone' = IF Running(b) = {} THEN alone \cup {c} ELSE alone \ Running(b)
  /\ expect' = [expect EXCEPT ![b] = None]
  /\ hope' = [v \in Visits |-> IF from[v] = b THEN None ELSE hope[v]]

\* consume_oauth_state gives the verifier of the state in the query.  It looks
\* at the state alone: any browser may come with any state.
Consume(c) ==
  /\ Move(c, "consume", "exchange")
  /\ \E s \in States : Tokens!Use(s, c)
  /\ UNCHANGED <<directory, cookie, store, from, carries, user, history>>

\* The state in the query is used up, expired or unknown; or the query is
\* GitHub's error.
Reject(c) ==
  /\ Move(c, "consume", "failed")
  /\ UNCHANGED <<tokens, directory, cookie, store, from, carries, user, history>>

\* exchange_code: GitHub gives an access token for the code and the verifier.
Exchange(c) ==
  /\ Move(c, "exchange", "identity")
  /\ UNCHANGED <<tokens, directory, cookie, store, from, carries, user, history>>

\* fetch_identity; find_or_create_user is called with it.
Confirm(c, i) ==
  /\ Move(c, "identity", "account")
  /\ Directory!Ask(c, i)
  /\ confirmed' = confirmed \cup {<<from[c], i>>}
  /\ UNCHANGED <<tokens, cookie, store, from, carries, user, alone, expect, hope>>

\* What find_or_create_user does meanwhile.
Provide(c) ==
  /\ step[c] = "account"
  /\ Directory!Activate(c) \/ Directory!Open(c)
  /\ UNCHANGED <<tokens, cookie, store, request, history>>

\* find_or_create_user returns the user.
Account(c) ==
  /\ Move(c, "account", "remember")
  /\ Directory!Answer(c)
  /\ UNCHANGED <<tokens, cookie, store, from, carries, user, history>>

\* remember_current_user: session.insert loads the row; the same id again is no
\* change, and an id without a row is given up.
Remember(c) ==
  /\ Move(c, "remember", IF Loaded(c) = asks[c] THEN "unchanged" ELSE "save")
  /\ carries' = [carries EXCEPT ![c] = IF Loaded(c) = None THEN None ELSE carries[c]]
  /\ user' = [user EXCEPT ![c] = asks[c]]
  /\ UNCHANGED <<tokens, directory, cookie, store, from, history>>

\* The session layer saves the changed session.
Save(c) ==
  /\ Move(c, "save", "saved")
  /\ LET id == IF carries[c] = None THEN c ELSE carries[c]
     IN  /\ store' = [store EXCEPT ![id] = user[c]]
         /\ carries' = [carries EXCEPT ![c] = id]
  /\ UNCHANGED <<tokens, directory, cookie, from, user, history>>

\* The redirect to the dashboard arrives, with the cookie of a saved session.
Reply(c) ==
  /\ \/ Move(c, "saved", "done") /\ cookie' = [cookie EXCEPT ![from[c]] = carries[c]]
     \/ Move(c, "unchanged", "done") /\ UNCHANGED cookie
  /\ expect' = [expect EXCEPT ![from[c]] = IF c \in alone THEN asks[c] ELSE None]
  /\ UNCHANGED <<tokens, directory, store, from, carries, user,
                 alone, confirmed, hope>>

-----------------------------------------------------------------------------
(* The dashboard and logout *)

\* Browser b asks for the dashboard.
Visit(v, b) ==
  /\ Send(v, b, "load")
  /\ hope' = [hope EXCEPT ![v] = expect[b]]
  /\ UNCHANGED <<alone, expect>>

\* current_user reads user_id of the session.
Load(v) ==
  /\ Move(v, "load", IF Loaded(v) = None THEN "login" ELSE "page")
  /\ user' = [user EXCEPT ![v] = Loaded(v)]
  /\ UNCHANGED <<tokens, directory, cookie, store, from, carries, history>>

\* get_user_by_id finds the row; its key is decrypted and shown.  (Without a row
\* current_user flushes the session: SessionsHaveAccounts says that there
\* always is one.)
Show(v) ==
  /\ Move(v, "page", "shown")
  /\ account[user[v]] # None
  /\ UNCHANGED <<tokens, directory, cookie, store, from, carries, user, history>>

Logout(o, b) ==
  /\ Send(o, b, "flush")
  /\ UNCHANGED <<alone, expect, hope>>

\* session.flush deletes the row.
Flush(o) ==
  /\ Move(o, "flush", "flushed")
  /\ store' = [i \in Sessions |-> IF i = carries[o] THEN None ELSE store[i]]
  /\ UNCHANGED <<tokens, directory, cookie, from, carries, user, history>>

\* The login page, or the redirect of logout, arrives.  A cookie that came with
\* the request and has no session any more is removed.
Removal(r) ==
  /\ Move(r, "login", "done") \/ Move(r, "flushed", "done")
  /\ cookie' = IF carries[r] = None THEN cookie ELSE [cookie EXCEPT ![from[r]] = None]
  /\ UNCHANGED <<tokens, directory, store, from, carries, user, history>>

-----------------------------------------------------------------------------
\* A session reaches its expiry: it is not loaded any more, and the clean-up
\* task deletes it.
SessionExpires(i) ==
  /\ store[i] # None
  /\ store' = [store EXCEPT ![i] = None]
  /\ UNCHANGED <<tokens, directory, cookie, request, history>>

\* Anything fails (GitHub, CPA, SQLite) and the reply is an error, which leaves
\* session and cookie alone; or the reply does not arrive.
Fails(r) ==
  /\ step[r] \notin {"idle"} \cup Ended
  /\ step' = [step EXCEPT ![r] = "failed"]
  /\ UNCHANGED <<tokens, directory, cookie, store, from, carries, user, history>>

\* No request is on its way: the only way for this part to stand still.
Quiet ==
  /\ \A r \in Requests : step[r] \in {"idle"} \cup Ended
  /\ UNCHANGED vars

Next ==
  \/ \E s \in States : StartLogin(s)
  \/ \E T \in SUBSET States : StatesExpire(T)
  \/ \E c \in Callbacks, b \in Browsers : Callback(c, b)
  \/ \E c \in Callbacks, i \in Identities : Confirm(c, i)
  \/ \E c \in Callbacks :
       Consume(c) \/ Reject(c) \/ Exchange(c) \/ Provide(c) \/ Account(c)
         \/ Remember(c) \/ Save(c) \/ Reply(c)
  \/ \E v \in Visits : Load(v) \/ Show(v) \/ \E b \in Browsers : Visit(v, b)
  \/ \E o \in Logouts : Flush(o) \/ \E b \in Browsers : Logout(o, b)
  \/ \E r \in Requests : Removal(r) \/ Fails(r)
  \/ \E i \in Sessions : SessionExpires(i)
  \/ Quiet

Spec == Init /\ [][Next]_vars

-----------------------------------------------------------------------------
(* Properties *)

\* A browser is shown the accounts of those only whom GitHub has confirmed to a
\* callback that came from this browser, whoever else signs in meanwhile and
\* whatever sessions end, are saved late or are given up.  (With which state
\* the callback came is no part of it: see Consume.)
ShownIsConfirmed ==
  \A v \in Visits : step[v] = "shown" => <<from[v], user[v]>> \in confirmed

\* Every session names a user that has a row: current_user always finds it, and
\* its flush of a session without a user is never needed.
SessionsHaveAccounts ==
  \A i \in Sessions : store[i] # None => account[store[i]] # None

\* Whoever signs in with another account sees that account from then on, or
\* the login page, but not the account from before (unless two logins of one
\* browser overlap, when either may win).
AccountSwitches ==
  [][\A v \in Visits :
       step[v] = "load" /\ step'[v] = "page" /\ hope[v] # None
         => user'[v] = hope[v]]_vars
=============================================================================
