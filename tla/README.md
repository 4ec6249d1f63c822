# A formal model of CPA Portal

CPA Portal signs users in with GitHub, gives each of them an API key of CPA, and
shows them and the administrators what CPA Usage Keeper knows about usage and
quotas. It is a Rust program (axum, tokio, sqlx on SQLite, reqwest) without a
single automated test. This directory holds TLA+ specifications of the parts in
which concurrency, failure and order matter, the TLC configurations that check
them on small instances, and TLAPS proofs of the main properties for every value
of the constants.

Paths such as `services/user.rs` are relative to the crate's `src/`.

- [1. The system](#1-the-system)
- [2. Modules](#2-modules)
- [3. Runs](#3-runs)
- [4. Fairness](#4-fairness)
- [5. Proofs](#5-proofs)
- [6. Faulty variants](#6-faulty-variants)
- [7. What the project found](#7-what-the-project-found)
- [8. What is not modelled](#8-what-is-not-modelled)
- [9. Plan](#9-plan)

## 1. The system

| component | state | operations | what makes it hard | what makes it correct |
|---|---|---|---|---|
| **Keeper client** `clients/keeper/mod.rs` | `auth_lock`, `auth_generation`, cookie jar | `get_json`, `post_json`, `refresh_auth`, `login` | all requests share one session; a 401 reaches many calls at once; a call is dropped at any await | one login per lost session; no login replaces a good session; the retry has a new cookie; nobody waits forever |
| **Error bodies** `clients/keeper/mod.rs` | a buffer | `bounded_response_body` | lengths at the limit, known or not; arbitrary chunks | the beginning is kept; a cut is marked, and nothing else but a body of exactly the limit |
| **User accounts** `services/user.rs`, `db/mod.rs`, `clients/cpa.rs`, `crypto.rs` | `users` table, CPA's list of keys | `find_or_create_user` | check-then-act over four awaits and two systems; two first logins race; any step fails | one row per identity; the key never changes and works; losers return the winner's row |
| **OAuth states** `routes/auth.rs`, `db/mod.rs` | `oauth_states` table | `github_start`, `consume_oauth_state`, clean-up | deferred transactions under SQLite's locks; two callbacks with one state; expiry in between | a state works once; a live state works |
| **Sign-in, dashboard, logout** `routes/auth.rs`, `routes/dashboard.rs`, `services/user.rs`, `main.rs` | `sessions` (tower-sessions), the browser's cookie | `github_callback`, `index`, `logout`, expiry | requests of one browser overlap, sessions expire under them, replies overtake one another | a browser is shown accounts confirmed to a callback of its own; a session names a user with a row; a logout ends its session |
| **Local ranking** `services/ranking.rs`, `routes/ranking.rs`, `routes/admin.rs` | none of its own | `local_leaderboard` | three answers from three moments are joined; a row cannot be decrypted; Keeper lists a key twice | usage is shown under its owner; nobody is ranked twice and nobody left out but by a second id of their key; ranks are dense |
| **Quota snapshot** `services/quota.rs`, `routes/admin.rs` | none of its own | `snapshot` | `try_join!` drops calls that hold or wait for `auth_lock`; the fourth call trusts the third | nothing is left behind; the snapshot is consistent in itself |
| **Admin API** `routes/admin.rs`, `admin_api.rs` | the hash of the token | authentication, `users`, `local_ranking`, `quota_snapshot`, the error envelope | the token is checked by the place of an extractor; one bad row fails a list; one match sorts all errors | strangers learn nothing; the list is whole; the status names who is at fault |
| **Ranking page** `routes/ranking.rs`, `clients/keeper/ranking.rs`, `ranking.html` | none | two menus, `map_entry`, `format_integer`, `format_metric` | names are in three tables and a menu, numbers are grouped from the left | the pick is what is shown; numbers can be read back |
| **GitHub client** `clients/github.rs` | none | `exchange_code`, `fetch_identity`, `select_email` | ids of an unsigned width; any number of addresses | the best address; an id that fits or an error |
| **Configuration** `config.rs` | constants | `AppConfig::load`, `EncryptionKey`, `HttpUrl` | three sources over one another, each of which may be unreadable; two alphabets with opposite rules | the strongest source rules; documented keys load; made URLs are right |
| **Process** `main.rs`, `db/mod.rs` | the tables, the clean-up task | start, clean-up, serve, drain, join | steps that fail one by one, kills, launches with another configuration | it serves only when ready; nobody is cut off; failures are told |
| **Database pool** `db/mod.rs` | five connections | `connect`, every statement | locks of SQLite are awaited with a connection in hand | every request ends |
| **Dashboard page** `dashboard.html`, `base.html` | the status line, its timer, the buttons | copy, usage, log out | handlers interleave at awaits; old timers | only a success fades |
| **Wiring** `routes/mod.rs`, `state.rs`, `clients/http.rs` | none | constructors | - | - |

How they interact:

```
browser --/auth/github/start----> OAuth states (INSERT, clean-up)
browser --/auth/github/callback-> OAuth states (consume) -> GitHub client (code, identity)
                                    -> User accounts (users, CPA PATCH) -> session
browser --/, /logout------------> session, users
browser --/ranking--------------> session, users -> ranking -> Keeper client x2, users
                                    -> page
bot     --/api/admin/v1/*-------> token -> ranking | quota snapshot (Keeper client x4) | users
```

The process reads its configuration, migrates the database, spawns the clean-up
of sessions, serves the above, and drains. Handlers are tasks of one
process. They share the SQLite pool, the Keeper client
(behind an `Arc`) and nothing else. A task is polled between its awaits only, so
a step of a model is what happens between two awaits, or at the other end of
one: a statement in SQLite, a request in CPA or Keeper. axum drops the future of
a handler when its peer has gone, and `try_join!` drops siblings, so wherever a
handler waits it may end; the models have a `Cancel`, `Drop` or `Fails` for that.

The hazards (`PROJECT.json`, "hazards") are the list of what is hard to test
here. Every property below answers at least one of them.

## 2. Modules

An abstract specification says what a component promises. The detailed one
follows the code. The modules above a component use its promise (SignIn) or its
detailed specification (QuotaSnapshot).

```
FairRwLock <-extends- KeeperClient --implements--> SharedLogin
                          ^
                          | INSTANCE
                     QuotaSnapshot

Provisioning --implements--> UserDirectory <--INSTANCE-- SignIn
OAuthStates  --implements--> OneTimeTokens <--INSTANCE-- SignIn <-extends- SignOut

Provisioning <-extends- LoginProfiles
Configuration <-extends- Process

Ordering <-extends- AdminApi, LocalRanking

RankingPage   GitHubIdentity   ErrorBody   DashboardPage   ConnectionPool   Addresses
```

`MCOAuthStates`, `MCSignIn` (with SignOut), `MCConfiguration` and `MCProcess` extend
the module of their name with what TLC needs: symmetry sets and sets of inputs.
`MCRanking` (LocalRanking, RankingPage) and `MCSmallParts` (ErrorBody, Addresses,
GitHubIdentity, DashboardPage, ConnectionPool) put modules that share no state side
by side: a variable `part` says which one moves in a behaviour. The other runs name
the module itself. `XProofs` holds the theorems about `X`; `ProvisioningProofs` also
those about LoginProfiles, `SignInProofs` those about SignOut, `ProcessProofs` those
about Configuration, `ListProofs` those about AdminApi, LocalRanking and
RankingPage, and `SmallPartsProofs` those about ErrorBody, DashboardPage,
GitHubIdentity, Addresses and ConnectionPool.

### FairRwLock, KeeperClient, SharedLogin

`FairRwLock` is `tokio::sync::RwLock` as its documentation has it: tasks queue
in the order in which they asked (`ahead[t]`, the set of tasks ahead of t), a
reader is let in unless somebody ahead of it waits for or holds the write guard,
a writer when nobody ahead of it is left. A dropped waiter leaves the queue.

`KeeperClient` is one action per piece of code between two awaits:

| action | code |
|---|---|
| `Start` | `self.auth_lock.read().await` of the first block |
| `FirstAttempt` | load `auth_generation`, `send_get` / `send_post` |
| `Rejected`, `Finish` | the status, after the guard has gone with the block: 401 is drained, everything else decoded |
| `RefreshAuth` | `drain_response`, `auth_lock.write().await` |
| `AlreadyRefreshed`, `Login` | the comparison of generations under the write guard |
| `LoginAccepted` | 204: the cookie is in the jar, the body is drained |
| `LoginDone`, `LoginFails` | `fetch_add`, the end of `refresh_auth` |
| `RetryAttempt` | the second block |
| `Cancel` | the future is dropped |
| `KeeperAnswers`, `KeeperLogsIn`, `KeeperForgets` | Keeper (external) |

A session of Keeper is named after the call that logged in, since a call logs in
once at most. `LoginAccepted` and `LoginDone` are two actions because `login`
awaits between them: a call dropped there leaves a good session behind an old
generation, which is why `NoRedundantLogin` leaves cancelled logins out. `Finish`
drops the guard and decodes in one step: the decoding touches nothing shared, a
call that is dropped in it has let go of everything, and its waits are Keeper's
answer, which may be late anyway.

`ClientSteps` are a call's own polls; `Progress` adds Keeper's answers, which are
Keeper's to give (`KeeperResponds`).

`SharedLogin` is the promise without locks and cookies: an epoch that moves by
one, on behalf of one rejected caller, while all others join.

### ErrorBody

The loop of `bounded_response_body` with bytes counted, the announced length or
its absence, and every way to cut a body into chunks. Trimming, lossy UTF-8 and
the text for an empty body are left out.

### Provisioning, UserDirectory

`find_or_create_user` of any number of callers. Each statement has an action for
handing it over, where the code reads the clock (`Update`, `Insert`), and one
for its effect (`DbFinds`, `DbUpdates`, `DbInserts`, `DbReportsDuplicate`,
`DbReads`). CPA is `CpaApplies` and `CpaRefuses`; a reply that is lost is
`CpaApplies` followed by `Fails` or `Drop`. The n-th row of `users` has id n
(AUTOINCREMENT, and nothing deletes rows). `Drop` is also a stop of the process:
the tables and CPA's keys survive it, the calls do not. The promise,
`UserDirectory`: an account is opened once, with an active key, and everybody is
answered with that key.

### LoginProfiles

Provisioning with one history variable, `newest[g]`: the login of identity g that
began last, if no other was under way. A dropped login is under way as long as
SQLite has a statement of its left to execute (`late`), and no longer. A row's
profile columns are one value: the login that wrote them.

### OAuthStates, OneTimeTokens

Rows are named by the hash of their state. The locks of SQLite (a rollback
journal, sqlx's default of deferred transactions) are derived from where a
callback is: after its SELECT it holds SHARED, after its DELETE of a row
RESERVED as well. `DbDeletes` fails at once if another callback holds RESERVED,
`DbCommits` and single statements that change a row need the other SHARED locks
gone; a clean-up that finds nothing to delete needs RESERVED free only. Each
statement is bound to the time that its request read before (`stamp`). The
promise, `OneTimeTokens`: new, live, gone; used by one holder at most.

### SignIn

The whole callback, the dashboard and the logout, from the browser's side.
`Consume` is `OneTimeTokens!Use` of any live state: `github_start` keeps nothing in
the session and `consume_oauth_state` sees the state only, so a browser may come
with a state that another was given. `Confirm`, `Provide` and `Account` are actions of
`UserDirectory`. The session layer is external: `Loaded`, `Save`, `Removal`
and `Reply` say what tower-sessions does around a handler. A save writes its row
whether or not it is still there. A changed session whose row had gone gets a
new id. `Show` has no branch for a user without a row, in which `current_user`
flushes the session: `SessionsHaveAccounts` says that it is never taken.

`SignOut` adds one history variable, `final`: the logouts at whose flush no
callback held a loaded copy of the session.

### LocalRanking

One request, by either route. `Collect` gathers the two answers of Keeper in
either order; `DbLists` is `list_users`, the decryption of all rows and the join,
which run without an await. `Matched`, `UserOf` and `Entries` are the code's
maps: `users_by_api_key.remove` gives a user to the first id of its key only.
`Places` are the places of the participants that `filter_map` lets through, in
their order.

### Ordering

`InOrder(S)`, the ascending list of a finite set of integers: `ORDER BY id`, and
what is left of a list when some of its places are dropped. It is defined by its
result and not by a sort, so that it can be reasoned about.

### QuotaSnapshot

Four calls, the tasks of an instance of `KeeperClient` whose actions are used as
they are. The handler's own actions say when a call begins (`Begin`), when
`try_join!` is done or gives up (`JoinSucceeds`, `JoinFails`), what it asks for
(`AuthIndexes`), and how the futures go (`DropCall`, one after the other, then
`Dropped`).

### AdminApi

One client that sends any request after any other, while users sign in. A
request goes through `Route` (the method), `Authenticate` (the first extractor),
`Extract` (axum's `Query`) and its handler; each may end it. What axum answers by
itself is `Plain`, the rest comes from `json_response` and `AdminApiError`. A row
has one of three kinds of timestamps: fine, not a point in time, a point in time
that RFC 3339 cannot write. Ranking and snapshot are one call each that may fail;
their insides have modules of their own.

### RankingPage

One tab: `Open`, `Pick` in a menu, `Answer` (the whole handler and template), `Fail`
and `BadRequest`. The three tables of names (`as_ref`, `from_str`, serde's `rename`,
by which the answer is `Readable` or not), the two menus, and the way of a number
from Keeper's answer into the text of a cell: its sign, its digits, which of them a
comma comes before (`Commas`, for `format_integer`) and how many units of the last
place make one (`Fixed`, for the metrics in the table `Divided`). The property reads
the digits back. `ValuesAssumption` keeps the numbers where an f64 quotient lies on
the same side of each half of a unit as the true one; whether a quotient that is
halfway rounds up is left open.

### GitHubIdentity

The three requests of a callback in their order. Ids run over the whole unsigned
width for a small `MaxI64`, and one that does not fit is an error; a list of
addresses has every combination of primary and verified.

### Configuration, Process

`Configuration` merges two files and the environment (`Merged`, the last that
gives a setting), and accepts or refuses each setting (`Accepts`). A file may be
`Missing`, which matters for the named one only, or `Garbled`, which no file may be,
the weakest included (`FilesRead`). There is one
setting of each kind: a text, a URL, the TTL, a secret, the key. A key is the
form it is written in: blanks, prefix, alphabet, padding, length.

`Process` extends it by what `main` does, one action for each fallible step:
`ReadConfig`, `Connect`, `CheckTtl`, `MigrateSessions` (which also spawns the
clean-up), `BuildClients`, `Bind`, then `Accept` and `Ends` of requests, `Sweep`
of the clean-up, `Signal`, `Drained` (serve returns, abort), `Join`. `Kill` comes
at any moment and `Launch` starts a process with any inputs on the tables that
the last one has left.

### ConnectionPool

The pool's queue, the connections, and SQLite's locks as in OAuthStates, for
callbacks that keep their connection over a transaction and requests that run
one statement. A request that gives up is taken out of the queue wherever it
stands.

### DashboardPage

The script's handlers cut at their awaits: `Click`, then `Copied`, `UsageOpens` or
`UsageFails`; `LogOut`; `TimerFires`. `Show` is the whole of `show`, timers
included.

### Addresses

A path is the sequence of what follows its slashes, which is what `Url::join`
works on. Every URL that the portal makes of a configured one: Keeper's
endpoints, CPA's, the callback, the address that the dashboard shows. Beside its
path a URL may have credentials or a tail (a query or a fragment): Keeper's
refuses both, the one for the dashboard takes either.

## 3. Runs

| run | instance and bounds | shows |
|---|---|---|
| `keeper_client` | 3 calls | `NoRedundantLogin`, `OneLoginPerGeneration`, `RetryUsesNewCookie`, `NoLoginDuringRequest`, refinement of `SharedLogin`, `CallsReturn`, `HeldUpOnlyByLogins` |
| `provisioning` | LoginProfiles: 3 logins, 2 identities, clock to 2 | `StoredKeysActive`, `LateLoginsAddNoKey`, `CreatedBeforeLastLogin`, `NewestProfileShown`, refinement of `UserDirectory`, `LoginsEnd` |
| `provisioning_one_key` | 2 logins of 1 identity | a counterexample to `OneKeyPerUser` (section 7) |
| `oauth_states` | 2 states, 3 callbacks, clock to 3, states live for 2 | `StateUsedOnce`, `LiveStateHonoured`, refinement of `OneTimeTokens` |
| `quota_snapshot` | 1 auth file, 1 other identity, the 4 calls | `NothingLeftBehind`, `QuotasAreOfListed`, `SnapshotEnds` |
| `sign_in` | SignOut: 2 browsers, 2 identities, 2 states, 2 callbacks, 1 visit, 1 logout | `ShownIsConfirmed`, `SessionsHaveAccounts`, `LogoutEndsSession`, `AccountSwitches` |
| `process` | 2 requests; launches with any of 27 environments and 54 merges of three sources | `ReadyBeforeServing`, `StrongerSourcesRule`, `NobodyCutOff`, `CleanupFailureReported`, `ShutdownEnds` |
| `configuration_keys` | the key in every form | a counterexample to `DocumentedKeysLoad` (section 7) |
| `admin_api` | 2 ids, every request | `StrangersLearnNothing`, `ListIsWhole`, `StatusNamesTheFault` |
| `admin_api_no_store` | 1 id, every request | a counterexample to `EveryAnswerNoStore` (section 7) |
| `ranking` | 2 users, 1 key without a row, 3 ids; every pick of the page, 9 values | `UsageIsTheUsers`, `EverybodyRankedOnce`, `PickIsShown`, `NumbersReadBack` |
| `small_parts` | limit 5, bodies to 12; paths of 3 names of 2, 3 slashes; ids to 7 for `MaxI64` 3, 3 addresses; 6 texts shown; 2 connections, 3 callbacks, 2 single statements | `MarkTellsOfLoss`, `MadeIsRightBelow`, `EmailIsBest`, `OnlySuccessFades`, `EveryRequestEnds` |

The type invariants (`TypeOK`) are not among the runs: TLAPS proves them for every
value of the constants (section 5). The same holds for `LoginsAgree`, `RowsAreThere`,
`KeyNeverChanges` and `KeepsTheBeginning`.

Deadlock is checked in all runs but one: the modules have one action that stutters
when their requests have ended (`AllReturned`, `AllEnded`, `Quiet`, `AllSaid`,
...), or never stop, so a state in which a request waits and nothing can move is
reported. The exception really stops: a load of the configuration is over when it
has loaded (`configuration_keys`).

Why the bounds are enough to be of interest:

- *Calls of the Keeper client.* Three: one that logs in or is cancelled half-way,
  one that joins, and one that starts after all of that. The lock's queue then
  holds readers and writers in every order. `quota_snapshot` has a fourth; the
  safety properties are proved for any number.
- *Logins.* Three: two that race for a row and one that comes later, or one of
  another identity between them.
- *Clock* (`MaxTime`). In `provisioning` the clock goes from 0 to 2, which puts a
  time before, between and after two statements. In `oauth_states` a state issued at
  0 lives until 2 and the clock goes to 3, so it is live, at its boundary and
  expired. `MaxTime` bounds the clock in both modules and nothing else.
- *Callbacks of one state.* Three for two states: two compete while the third
  holds or wants another lock.
- *Bodies* (`MaxKept`, `MaxBody`). More than twice the limit: chunks end before,
  at and after it.
- *Ranking.* Three ids for three keys: a key listed under two ids, a key
  without a row, and a user without an id all occur together.
- *Quota snapshot.* One auth file that may be listed, switched off and switched on
  again while the calls are under way, and one identity that must never be asked
  about.
- *Sign-in.* Two callbacks suffice for a change of account, an overlap, a login
  during a logout and a cookie that outlives its session; the second browser is
  there to be confused with the first, and to come with its state.
- *Configuration* (`Inputs`, given by `MCConfiguration` and `MCProcess`). Three
  sources suffice for one that corrects a second that spoils what a third gave.
  `MaxI64` stands for `i64::MAX`: 2 is the last TTL that fits and 3 the first that
  does not.
- *Process.* 27 environments: every combination of a refused URL, a named file that is
  missing or does not parse, a TTL that does not fit and a token that is too short by
  one byte (`MinTokenBytes` 32), and a weakest file that does not parse under sources
  that give everything. Two requests: one that ends and one that is still on its
  way at the signal.
- *Admin API* (`UserIds`). One row that can be shown and one that cannot; a user that
  signs in while the list is read.
- *Numbers* (`SomeValues`). Zero, both sides of each comma, one whose percentage is
  halfway between two texts, negative ones.
- *Pool* (`MaxConnections` 2 for the code's 5, three callbacks and two others).
  All connections can be with callbacks that wait for one another's locks, with
  requests of both kinds in the queue.
- *Dashboard* (`MaxShows`). Six texts: two successes with timers, and what both
  buttons and the log-out form say in between.
- *Addresses* (`MaxNames`, `MaxSlashes`). No name, one, several; no slash at the end,
  one, several.
- *GitHub* (`MaxI64`, `MaxEmails`). Ids on both sides of the signed boundary, so
  that both branches are taken; three addresses so that a verified one, a primary
  one and a first one can differ.

`Nat`-valued counters that need no bound (`auth_generation`, row ids) are
bounded by the number of calls, each of which increments them once at most.

## 4. Fairness

Liveness is checked under weak fairness of what moves a request on
(`Progress(t)`, `Step`, `Work(t)`): its own polls, which tokio does not withhold,
and the answers of Keeper, SQLite and CPA. Nothing is assumed of starts,
cancellations, failures or of Keeper's loss of sessions.

That a remote side answers is an assumption about the environment. The client
sets no timeout (`clients/http.rs`), so a request that Keeper never answers
would hold its read guard forever, and a writer behind it would hold up all
later calls. The models do not hide this: `FairSpec` of KeeperClient assumes
fairness of `ClientSteps` only. `CallsReturn` states its
assumption, `KeeperResponds`, in front; what is left without it is
`HeldUpOnlyByLogins`: a first attempt waits for nobody but a call that is about to
log in. `SnapshotEnds` assumes that Keeper answers, in `FairSpec` of QuotaSnapshot.

`FairProcSpec` assumes that `main` is polled and that requests end by themselves:
axum waits for them after a signal, and a request that hangs would keep the
process until it is killed. Nothing is assumed of signals, kills, launches, the
clean-up and failures. `PoolFairness` assumes
that SQLite executes statements and that sqlx hands out connections.

## 5. Proofs

TLAPS checks the following for every value of the constants that satisfies the
named assumptions next to their declaration: a bound is positive, `None` is not
an element of a set, two sets of requests are disjoint, a refused value is not an
absent one (`AppConfigAssumption`), the empty segment is not the name of one
(`AddressAssumption`), the ids of users are finitely many integers
(`UserIdsAssumption`; SQLite's are of 64 bits), and what Keeper reports is below
10^14 (`ValuesAssumption`). No other finiteness is assumed:
there may be any number of calls, logins, callbacks, requests and texts. That the
queue of `auth_lock` is finite, for instance, is proved and not assumed.

For each specification a proof module defines an inductive invariant (`IInv`, or
one with the name of its part, such as `ProcInv`), proves `Init => IInv` and
`IInv /\ [Next]_vars => IInv'` conjunct by conjunct or action by action, and
derives the theorems.

**KeeperClientProofs.** `TypeCorrect`, `LoginsAreNeeded` (`NoRedundantLogin`),
`LoginsAreShared` (`OneLoginPerGeneration`), `RetriesAreRenewed`
(`RetryUsesNewCookie`), `RequestsSeeOneSession` (`NoLoginDuringRequest`),
`Implementation` (`ImplementsSharedLogin`). The properties speak of logins and
cookies; what makes them true is the lock. `IInv` therefore adds: guards exclude
one another and match where a call is; a cookie in flight is the jar's while its
request is under way; a call that saw the current generation and was rejected
carries the cookie that is in the jar and is dead; once the generation has
moved past it, the jar has changed or the login has failed. The last two are
what the comparison in `refresh_auth` relies on.

`CallsNeverJam` is what safety can say of `CallsReturn`: while a call is under way,
some call satisfies the guard of a step of its own or of Keeper's answer
(`CanGoOn`; dropping a call, which is always possible, does not count).
`ReadersWaitForWritersOnly` is the same for `HeldUpOnlyByLogins`: a reader that
waits with no writer in the lock or ahead of it can be let in, it or a reader ahead
of it, whatever Keeper leaves unanswered. Both rest on `WaitInv`: the queue is
finite, it is one line (whoever is ahead of u is ahead of everybody behind u), so
it has a front (`QueueHasFront`, by the least number of calls ahead), and a call
under a guard has something in flight.

`CallsGetOn` is the other half of `CallsReturn`, and the first of a family: a
number of steps that an actor has left (`StepsLeft`) which no step of anybody
raises, and which every step lowers for somebody (`GetsOn`). A call has twelve at
most, through a 401, a login and a second attempt; `FinishLooping` of section 6
would raise it. `LoginsGetOn`, `SnapshotsGetOn` and `ThePoolGetsOn` below say the
same of their specifications. Together with the theorems that nobody is stuck they
leave to fairness only that steps which are possible are taken.

`GenerationCountsLogins` says what `auth_generation` counts: it is at least the
number of login requests whose calls have not been cancelled since (`Kept`) and at
most that of all that are over (`Past`). Its invariant is that a call sends its
login request on entering `Writing` and not before (`AttemptsOK`), so each call
logs in once at most and each login is counted once at most.

**ProvisioningProofs.** `TypeCorrect`, `StoredKeysWork` (`StoredKeysActive`),
`OneRowPerIdentity` (`LoginsAgree`), `LateLoginsProvisionNothing`
(`LateLoginsAddNoKey`), `TimesAreOrdered` (`CreatedBeforeLastLogin`),
`ReadsSucceed` (`RowsAreThere`), `KeysAreForever` (`KeyNeverChanges`),
`Implementation` (`ImplementsDirectory`). `IInv` adds that identities are unique
in the table, that a call between its PATCH and its INSERT has its key in CPA,
that a call which found a row still has one, and that the time a call has read
is not older than the creation of the row it is about to update. The key fact
is that rows only ever appear (`RowsPersist`). `LoginsGetOn`: losing the race for a
row sends no login back, so with `ReadsSucceed` it asks SQLite three times at most
and CPA once.

`NewestProfiles` (`NewestProfileShown`) is about LoginProfiles, every step of which
is a step of Provisioning and keeps the invariant above. `ProfileOK` says that while
`newest[g]` is a login l, no other login of g has a statement left, however it ended
(`Lonely`), so that what l has read of g's row is still so and what it has written
is what the row holds (`Written`).

**OAuthStatesProofs.** `TypeCorrect`, `StatesAreOneTime` (`StateUsedOnce`),
`LiveStatesWork` (`LiveStateHonoured`), `Implementation`
(`ImplementsOneTimeTokens`). `IInv` adds isolation: a callback whose SELECT
returned a verifier still has its row, because whoever wanted to remove it would
have needed the shared locks gone; and that a row which is missing was used or
has expired, which is where the two comparisons with `expires_at` meet. The
refinement maps the COMMIT to `Use`.

**ProcessProofs.** `TypeCorrect`, `ServesWhenReady` (`ReadyBeforeServing`),
`ShutdownIsGraceful` (`NobodyCutOff`), `FailuresAreReported`
(`CleanupFailureReported`), for any inputs. `ProcInv` joins where `main` is to what
it has behind it (`Reached`) and to who may have a request or a clean-up task
(`Alive`). `SourcesAreRanked` and `SourcesAreRankedAtEveryLaunch`
(`StrongerSourcesRule`) are about Configuration by itself and inside Process, whose
launches bring new inputs: what is loaded is always what `Merged` makes of the
inputs of this launch (`AsMerged`), and a setting that is well given in a source is
accepted whatever value the weaker sources give it (`WellGivenIsAccepted`), provided
that every file which is there parses.
`ShutdownNeverHangs` is what safety can say of `ShutdownEnds`: when `main` awaits
the clean-up, it has failed or has been aborted (`AwaitReturns`), and from the signal
on `main` only goes towards its end and no request is added to those it waits for
(`OnlyTowardsTheEnd`).

**SignInProofs.** `TypeCorrect`, `ShownAreConfirmed` (`ShownIsConfirmed`),
`SessionsHaveRows` (`SessionsHaveAccounts`), `AccountsSwitch` (`AccountSwitches`).
A session is named after the callback that created it, and `BelongsOK` says that
its id goes back and forth between the browser of that callback and the portal
only; whom a session names was confirmed there and has a row (`StoreOK`), because
the callback that wrote it had got that far (`CallbacksOK`). Nothing in this depends
on which states the callbacks come with. For `AccountSwitches`
a second invariant, `SwitchInv`: a callback alone in its browser finds the cookie
that it came with, or none, and nobody else writes the row of its session
(`AloneOK`), so what its reply leaves behind stays (`ExpectOK`), also for a visit
on its way (`HopeOK`).

`LogoutsEndSessions` (`LogoutEndsSession`) is about SignOut. An id that is in a cookie
or a request was saved by the callback it is named after, which creates no other
session (`KnownOK`); and a callback that finds the row of its id gone gives the id
up, so nobody gets a copy of a session that a logout has ended (`FinalOK`).

`PartsAreKept` shows that SignIn uses its two parts only as they are promised: its
behaviours are behaviours of `OneTimeTokens` and of `UserDirectory`, the abstract
specifications that OAuthStates and Provisioning are proved to implement. What the
abstract ones guarantee therefore holds in the whole of the sign-in:
`StatesLogInOnce` (no state lets two callbacks through) and `LoginsShareAccounts`
(all logins of an identity get one account with a working key).

**QuotaSnapshotProofs.** `TypeCorrect`, `FuturesAreDropped` (`NothingLeftBehind`),
`SnapshotsAreConsistent` (`QuotasAreOfListed`). A call that is not under way has no
guard, waits for none and has nothing on the wire (`FreeOK`), and the phase of the
handler says where its calls are and what has been asked for (`HandlerOK`).

`ClientIsKept` shows that a snapshot, seen from the client, is a behaviour of
KeeperClient with the four calls as tasks. The theorems of KeeperClientProofs are
then used through an instance of that module and not proved again:
`OneLoginPerSnapshot` (rejected siblings share one login, which replaces no good
session) and `SnapshotsNeverJam`, the safety core of `SnapshotEnds`: a handler under
way can start, join or drop calls, or one of its calls can go on.
`SnapshotsGetOn` carries `CallsGetOn` over to the snapshot and adds the phases that
the handler has left.

**ListProofs.** AdminApi: `StrangersAreRefused` (`StrangersLearnNothing`),
`ListsAreWhole` (`ListIsWhole`), `StatusesNameFaults` (`StatusNamesTheFault`).
`StageOK` says that nobody gets past `Authenticate` without the token and that
nothing has been used while there is no answer; rows are only added, so the ids of
the answer include those of the time of the request. LocalRanking:
`UsageIsShownToItsOwner` (`UsageIsTheUsers`), `RankingsAreComplete`
(`EverybodyRankedOnce`), for any users, keys and ids, also infinitely many.
`BoardOK` and `ItemsOK` say that Keeper's two answers repeat nothing and that an id
still has the key it was listed with, `ReportOK` that the report is made of both at
once; the order of the ranks comes from what is proved of `InOrder` (it exists, and
it lists every element once, ascending). RankingPage: `PicksAreShown`
(`PickIsShown`); `PageOK` and `PickOK` say that a page and the form on it carry what
was picked, and `MenusAreTables` that the tables of names agree with one another, so
that Keeper's answer is always `Readable`.

`NumbersAreShown` (`NumbersReadBack`) says of every number on the page that its text
reads back to what Keeper has reported, to half a unit of the last place shown, and
that the commas of an integer stand before every three digits. `Digits` and the
property's `Value` are recursive functions, of which TLA+ gives no equations for
free: `RecursionExists` shows that a function with the equations exists (it is the
least set of pairs closed under them), so `CHOOSE` yields one (`DigitsEquation`,
`ValueEquation`). What holds of every number is then shown by its least
counterexample (`LeastNumber`, from the well-foundedness of <): the digits read back
(`DigitsReadBack`), and dividing and rounding moves the value by half a unit at most
(`Nearest`, `FixedReads`). Only `ListProofs` needs recursion; the lemmas
`LeastRank`, `RecursionExists` and `LeastNumber` are not about the page.

**SmallPartsProofs.** ErrorBody: `BodyTypeCorrect`, `BeginningIsKept`
(`KeepsTheBeginning`), `MarksTellOfLoss` (`MarkTellsOfLoss`), for every limit and
every way to cut a body; while the body is read the mark is exact, and only the
check at its end may add one. DashboardPage: `TextsStay` (`OnlySuccessFades`): a
timer that is running belongs to the success that is shown (`TimerOK`).
GitHubIdentity: `EmailsAreBest` (`EmailIsBest`), for any number of addresses.
Addresses: `AddressesAreRight` (`MadeIsRightBelow`), for any number of names and
slashes; the lemmas say what trimming and joining do to a path whose last names are
empty. ConnectionPool: `ThePoolNeverJams`, the safety core of `EveryRequestEnds`,
for a pool of any size and any number of requests: while one waits or has a
connection, a guard of `Progress` holds. `PoolOK` says that the queue has every
waiting request once and that one transaction at most is past its DELETE.
`ThePoolGetsOn`: every step brings one request closer to its end and leaves the
others where they are.

Only model-checked:

- Liveness: `CallsReturn`, `HeldUpOnlyByLogins`, `LoginsEnd`, `SnapshotEnds`,
  `ShutdownEnds`, `EveryRequestEnds`. Their proofs need ENABLED: that a step which
  the guards allow is one that fairness makes happen. What they rest on is proved,
  one theorem or two for each: nobody is stuck (`CallsNeverJam`,
  `ReadersWaitForWritersOnly`, `ReadsSucceed`, `SnapshotsNeverJam`,
  `ShutdownNeverHangs`, `ThePoolNeverJams`), and nobody goes round in circles
  (`CallsGetOn`, `LoginsGetOn`, `SnapshotsGetOn`, `ThePoolGetsOn`).
- The three properties that the code does not have (section 7).

## 6. Faulty variants

A module defines, before the actions of the code, a few faulty variants of them.
No specification uses them. Each is a mistake that would be easy to make; put in
the place of the definition that it is named after, it makes TLC report the
property next to it.

| module | variant (of) | the mistake | breaks |
|---|---|---|---|
| KeeperClient | `LoginUnchecked` (`Login`) | no comparison of generations | `NoRedundantLogin` |
| | `LoginFailsUncounted` (`LoginFails`) | `?` before `fetch_add` | `OneLoginPerGeneration` |
| | `AlreadyRefreshedUnchecked` (`AlreadyRefreshed`) | the login is skipped | `RetryUsesNewCookie` |
| | `FirstAttemptUnguarded` (`FirstAttempt`) | the guard ends before the answer | `NoLoginDuringRequest` |
| | `LoginDoneUncounted` (`LoginDone`) | a success is not counted | `ImplementsSharedLogin` |
| | `FinishLooping` (`Finish`) | a second 401 starts over | `CallsReturn` |
| | `FirstAttemptAlone` (`FirstAttempt`) | `auth_lock` is a Mutex | `HeldUpOnlyByLogins` |
| Provisioning | `CpaRefusalIgnored` (`CpaRefuses`) | CPA's status is not looked at | `StoredKeysActive` |
| | `DbFindsByName` (`DbFinds`) | found by login name | `LateLoginsAddNoKey` |
| | `DbInsertsOwnClock` (`DbInserts`) | created_at by the database's clock | `CreatedBeforeLastLogin` |
| | `DbReadsLatest` (`DbReads`) | the loser returns the last row | `ImplementsDirectory` |
| | `DbReportsDuplicateAgain` (`DbReportsDuplicate`) | the loser inserts again | `LoginsEnd` |
| | `DbUpdatesTime` (`DbUpdates`) | only the time is updated | `NewestProfileShown` |
| OAuthStates | `CommitUnlocked` (`DbCommits`) | no locks | `StateUsedOnce` |
| | `CleanupUnexpired` (`DbCleans`) | the comparison is the wrong way round | `LiveStateHonoured` |
| | `CommitForgotten` (`DbCommits`) | the transaction is rolled back | `ImplementsOneTimeTokens` |
| QuotaSnapshot | `AuthIndexesAll` (`AuthIndexes`) | no filter for disabled ones | `QuotasAreOfListed` |
| | `JoinFailsDetached` (`JoinFails`) | the calls are spawned | `NothingLeftBehind` |
| | `JoinFailsLate` (`JoinFails`) | errors are looked at after the join | `SnapshotEnds` |
| SignIn | `RememberLastRow` (`Remember`) | the session gets the last row | `ShownIsConfirmed` |
| | `AccountUnawaited` (`Account`) | nobody waits for the account | `SessionsHaveAccounts` |
| | `RememberUnderOldId` (`Remember`) | an id without a row is used on | `LogoutEndsSession` |
| | `RememberOnce` (`Remember`) | a session keeps its first user | `AccountSwitches` |
| Configuration | `MergedFirst` (`Merged`) | the first source that gives a setting wins | `StrongerSourcesRule` |
| Process | `MigrateSessionsLater` (`MigrateSessions`) | the store makes its table on first use | `ReadyBeforeServing` |
| | `DrainedAtOnce` (`Drained`) | serve is not awaited to its end | `NobodyCutOff` |
| | `JoinIgnoring` (`Join`) | the result of the clean-up is not looked at | `CleanupFailureReported` |
| | `DrainedUnaborted` (`Drained`) | the clean-up is joined without an abort | `ShutdownEnds` |
| AdminApi | `ExtractFirst` (`Authenticate`) | the query is extracted before the token is checked | `StrangersLearnNothing` |
| | `ListShown` (`ListUsers`) | rows that cannot be shown are left out | `ListIsWhole` |
| | `MapAllInternal` (`map_app_error`) | Keeper's errors fall into the catch-all | `StatusNamesTheFault` |
| LocalRanking | `UserOfPlace` (`UserOf`) | answers paired by position | `UsageIsTheUsers` |
| | `DbListsReadable` (`DbLists`) | unreadable rows are skipped | `EverybodyRankedOnce` |
| RankingPage | `renameAll` (`rename`) | serde's `rename_all` for a name of each variant | `PickIsShown` |
| | `CommasFromLeft` (`Commas`) | groups of three from the left | `NumbersReadBack` |
| ErrorBody | `EndOfBodyFull` (`EndOfBody`) | full is taken for cut | `MarkTellsOfLoss` |
| Addresses | `KeeperBaseOpen` (`KeeperBase`) | `API_PATH` without its last slash | `MadeIsRightBelow` |
| GitHubIdentity | `select_email_any` (`select_email`) | the first verified one, primary or not | `EmailIsBest` |
| DashboardPage | `ShowOver` (`Show`) | an earlier timer is left alone | `OnlySuccessFades` |
| ConnectionPool | `DeleteOnPool` (`Delete`) | the DELETE runs on the pool, not on the transaction | `EveryRequestEnds` |

## 7. What the project found

Three disagreements between a document and the code. First, the repository's
`README.md:4` says that the portal creates and saves one encrypted API key for every
user. `create_user` gives the key to CPA before it inserts the row
(`services/user.rs:71`), and nothing takes it back when the INSERT loses the
race, fails, or the request is dropped. Run `provisioning_one_key` shows two
first logins of one identity after which CPA holds two keys of that identity;
the second is in no row. What does hold, and is proved, is that every user *sees*
one key, that it works, and that it never changes.

Second, `config.rs:158` refuses a documented form of the encryption key: 32 bytes in
Base64URL with their padding, which `README.md:72` and `config.example.toml:31`
allow ("base64 or base64url"). The code tries Base64 with padding, then Base64URL
without. Run `configuration_keys` shows a key with the padding and a letter of
the URL alphabet that does not load.

Third, `README.md:127` says that all answers of the admin API set
`Cache-Control: no-store`. When a field of a ranking query comes twice, axum's
`Query` refuses it before the handler runs (`routes/admin.rs:90`) and axum answers
in plain text, without the header. Run `admin_api_no_store` shows it for a request
with the right token.

More observations, about which the repository says nothing:

- A login request whose call is dropped after the cookie was stored and before
  the generation moved is repeated by the next caller (left out of
  `NoRedundantLogin`).
- A logout that overlaps a login of the same browser can be undone by it: the
  callback saves the copy of the session that it had loaded before the flush (left
  out of `LogoutEndsSession`).
- An OAuth state is not tied to the browser that it was issued to (`routes/auth.rs:27`
  to 38 and 70): a callback is accepted from any browser that has the state and its
  code. `ShownIsConfirmed` therefore speaks of the callback's browser.
- A `public_base_url` with a query or a fragment is accepted (`config.rs:24`), and the
  dashboard then shows it with `/v1` behind that (left out of `MadeIsRightBelow`).
- A user whose key Keeper lists under two ids is looked up by the first
  (`services/ranking.rs:74`): on a board that has the second id only, the user is
  not ranked. `EverybodyRankedOnce` says *once at most* of such users.

## 8. What is not modelled

- **Time** is a clock only where two comparisons with it must fit together
  (OAuthStates) or where times are stored (Provisioning). Sessions expire at any
  moment.
- **Cryptography**: a ciphertext opens under its own key, a hash names its input,
  random keys, states and nonces are distinct. **SQLite, tokio, reqwest, axum,
  tower-sessions, CPA and Keeper** are modelled from how the code uses them and
  marked external.
- **Texts**: the display name that `map_credential` chooses, the dates of the
  dashboard, the login page and the layout, error messages.
- **Wiring** (`routes/mod.rs`, `state.rs`, `clients/http.rs`): constructors. What
  follows from them (no timeout, no redirects, which routes there are) is in the
  modules of the handlers.
- **The clean-up task** deletes from the sessions table in Process, as one flag;
  in SignIn a session expires at any moment, cleaned up or not.
- **Memory and size limits** other than the error body's.

## 9. Plan

The order was: the Keeper client (the only shared mutable state with a protocol
of its own), the accounts (two systems without a common transaction), the OAuth
states, what is built on them, and then the edges of the process: configuration,
start and shutdown, the admin API, the pages. Done: all modules of section 2 and
the proofs of section 5.

What is left, in this order:

1. *SQLite's retries*: `busy_timeout` as a bounded wait between the statements
   of several requests, with Provisioning and OAuthStates on one database.
2. *FairRwLock* on its own: an abstract lock of which it is shown to be a
   refinement. Exclusion, and that the queue is one line with a front, are proved
   inside KeeperClientProofs.
3. *Pure functions*: the display name in `map_credential`.
