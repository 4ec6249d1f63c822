----------------------------- MODULE Provisioning -----------------------------
(***************************************************************************)
(* find_or_create_user, src/services/user.rs, with the statements it hands *)
(* to SQLite (src/db/mod.rs, the users table) and the request it sends to  *)
(* CPA (src/clients/cpa.rs).                                               *)
(*                                                                         *)
(* A login l \in Logins is one call, made by one OAuth callback.  A call   *)
(* generates at most one API key, 16 random bytes, so the key that l       *)
(* generates is named l.  CPA and every statement run between two awaits   *)
(* of the call: each is an action of its own, and other logins, of the     *)
(* same GitHub identity too, may act in between.                           *)
(*                                                                         *)
(* A statement may fail (database is locked, pool timeout, disk) and then  *)
(* changes nothing; CPA may refuse a key, or apply it and its reply may be *)
(* lost.  A call may be dropped at every await: the peer has gone, or the  *)
(* process has stopped.  A request or statement that takes effect after    *)
(* the call was dropped is the same behaviour as a call dropped right      *)
(* after it took effect, since nobody else can see the call.               *)
(***************************************************************************)
EXTENDS Integers, Sequences

CONSTANTS
  Logins,         \* the calls of find_or_create_user
  GitHubIds,      \* the GitHub identities
  EncryptionKey,  \* security.api_key_encryption_key
  None,           \* no identity, no key
  MaxTime         \* bound on the clock

ASSUME MaxTimeAssumption == MaxTime \in Nat \ {0}
ASSUME NoneAssumption == None \notin Logins \cup GitHubIds

VARIABLES
  step,    \* step[l]: where login l is
  who,     \* who[l]: the GitHub identity it logs in (identity.id)
  stamp,   \* stamp[l]: the `now' of its INSERT or UPDATE (0: none yet)
  rowid,   \* rowid[l]: the row it inserted or returns (0: none yet)
  users,   \* the users table; AUTOINCREMENT, no DELETE: the n-th row has id n
  keys,    \* CPA: the keys it has accepted
  now,     \* the clock, in seconds
  late     \* history: logins that began when their identity had a row

vars == <<step, who, stamp, rowid, users, keys, now, late>>

\* A statement or a request has been handed over and has not run.
Awaiting == {"find", "update", "patch", "insert",
             "readInserted", "readRaced", "readUpdated"}

\* A result is there and the call has not looked at it.
Answered == {"found", "absent", "provisioned"}

Active == Awaiting \cup Answered
Ended  == {"done", "failed", "dropped"}
Step   == {"idle"} \cup Active \cup Ended

\* ChaCha20-Poly1305 with a fresh nonce: only the same key opens the box.
Encrypt(k) == [under |-> EncryptionKey, box |-> k]
Decrypt(secret) == IF secret.under = EncryptionKey THEN secret.box ELSE None

Secret == [under : {EncryptionKey}, box : Logins]

\* The profile columns hold what GitHub told the login that wrote them.
Row == [github : GitHubIds, api_key : Secret, profile : Logins,
        created_at : 1..MaxTime, last_login_at : 1..MaxTime]

TypeOK ==
  /\ step \in [Logins -> Step]
  /\ who \in [Logins -> GitHubIds \cup {None}]
  /\ stamp \in [Logins -> 0..MaxTime]
  /\ rowid \in [Logins -> Nat]
  /\ users \in Seq(Row)
  /\ keys \in SUBSET Logins
  /\ now \in 1..MaxTime
  /\ late \in SUBSET Logins

Ids == DOMAIN users

\* github_id is UNIQUE: at most one id satisfies this.
RowOf(g, id) == id \in Ids /\ users[id].github = g

Registered(g) == \E id \in Ids : RowOf(g, id)

Init ==
  /\ step = [l \in Logins |-> "idle"]
  /\ who = [l \in Logins |-> None]
  /\ stamp = [l \in Logins |-> 0]
  /\ rowid = [l \in Logins |-> 0]
  /\ users = <<>>
  /\ keys = {}
  /\ now = 1
  /\ late = {}

Move(l, from, to) == step[l] = from /\ step' = [step EXCEPT ![l] = to]

-----------------------------------------------------------------------------
(* Faulty variants of the actions below, each a mistake that is easy to make *)
(* here.  No specification uses them: README.md lists which property each of *)
(* them breaks when it replaces the action it is named after.                *)

\* The SELECT may miss a row (it compares github_login, which users change).
DbFindsByName(l) ==
  /\ \/ Registered(who[l]) /\ Move(l, "find", "found")
     \/ Move(l, "find", "absent")
  /\ UNCHANGED <<who, stamp, rowid, users, keys, now, late>>

\* provision_api_key does not look at the status of the response.
CpaRefusalIgnored(l) ==
  /\ Move(l, "patch", "provisioned")
  /\ UNCHANGED <<who, stamp, rowid, users, keys, now, late>>

\* The row that login l inserts.
NewRow(l) ==
  [github |-> who[l], api_key |-> Encrypt(l), profile |-> l,
   created_at |-> stamp[l], last_login_at |-> stamp[l]]

\* created_at is the database's clock (DEFAULT unixepoch()), last_login_at ours.
DbInsertsOwnClock(l) ==
  /\ ~Registered(who[l])
  /\ Move(l, "insert", "readInserted")
  /\ users' = Append(users, [NewRow(l) EXCEPT !.created_at = now])
  /\ rowid' = [rowid EXCEPT ![l] = Len(users) + 1]
  /\ UNCHANGED <<who, stamp, keys, now, late>>

\* The UPDATE leaves the profile columns alone.
DbUpdatesTime(l) ==
  /\ Move(l, "update", "readUpdated")
  /\ users' = [id \in Ids |->
                 IF RowOf(who[l], id)
                 THEN [users[id] EXCEPT !.last_login_at = stamp[l]] ELSE users[id]]
  /\ UNCHANGED <<who, stamp, rowid, keys, now, late>>

\* The loser of the race returns the row inserted last.
DbReadsLatest(l) ==
  /\ \/ step[l] = "readInserted" /\ rowid[l] \in Ids /\ UNCHANGED rowid
     \/ step[l] \in {"readRaced", "readUpdated"} /\ rowid' = [rowid EXCEPT ![l] = Len(users)]
  /\ step' = [step EXCEPT ![l] = "done"]
  /\ UNCHANGED <<who, stamp, users, keys, now, late>>

\* The loser of the race retries the insert.
DbReportsDuplicateAgain(l) ==
  /\ Registered(who[l])
  /\ Move(l, "insert", "provisioned")
  /\ UNCHANGED <<who, stamp, rowid, users, keys, now, late>>

-----------------------------------------------------------------------------
(* find_or_create_user *)

\* A callback calls find_or_create_user with identity g.
Start(l, g) ==
  /\ Move(l, "idle", "find")
  /\ who' = [who EXCEPT ![l] = g]
  /\ late' = IF Registered(g) THEN late \cup {l} ELSE late
  /\ UNCHANGED <<stamp, rowid, users, keys, now>>

\* get_user_by_github_id
DbFinds(l) ==
  /\ \/ Registered(who[l]) /\ Move(l, "find", "found")
     \/ ~Registered(who[l]) /\ Move(l, "find", "absent")
  /\ UNCHANGED <<who, stamp, rowid, users, keys, now, late>>

-----------------------------------------------------------------------------
(* update_existing_user *)

\* db::update_existing_user reads the clock and hands the UPDATE over.
Update(l) ==
  /\ Move(l, "found", "update")
  /\ stamp' = [stamp EXCEPT ![l] = now]
  /\ UNCHANGED <<who, rowid, users, keys, now, late>>

\* The row as the UPDATE of login l leaves it.
Refreshed(l, row) == [row EXCEPT !.profile = l, !.last_login_at = stamp[l]]

\* The UPDATE.
DbUpdates(l) ==
  /\ Move(l, "update", "readUpdated")
  /\ users' = [id \in Ids |->
                 IF RowOf(who[l], id) THEN Refreshed(l, users[id]) ELSE users[id]]
  /\ UNCHANGED <<who, stamp, rowid, keys, now, late>>

-----------------------------------------------------------------------------
(* create_user *)

\* generate_api_key, then the PATCH of provision_api_key leaves.
Provision(l) ==
  /\ Move(l, "absent", "patch")
  /\ UNCHANGED <<who, stamp, rowid, users, keys, now, late>>

\* CPA adds the key to its list; its 2xx arrives unless l ends first.
CpaApplies(l) ==
  /\ Move(l, "patch", "provisioned")
  /\ keys' = keys \cup {l}
  /\ UNCHANGED <<who, stamp, rowid, users, now, late>>

\* CPA answers with another status, or cannot be reached.
CpaRefuses(l) ==
  /\ Move(l, "patch", "failed")
  /\ UNCHANGED <<who, stamp, rowid, users, keys, now, late>>

\* encrypt; insert_user reads the clock and hands the INSERT over.
Insert(l) ==
  /\ Move(l, "provisioned", "insert")
  /\ stamp' = [stamp EXCEPT ![l] = now]
  /\ UNCHANGED <<who, rowid, users, keys, now, late>>

\* The INSERT; insert_user then reads the row by last_insert_rowid.
DbInserts(l) ==
  /\ ~Registered(who[l])
  /\ Move(l, "insert", "readInserted")
  /\ users' = Append(users, NewRow(l))
  /\ rowid' = [rowid EXCEPT ![l] = Len(users) + 1]
  /\ UNCHANGED <<who, stamp, keys, now, late>>

\* The unique violation of insert_user_with_race_retry: read the winner's row.
DbReportsDuplicate(l) ==
  /\ Registered(who[l])
  /\ Move(l, "insert", "readRaced")
  /\ UNCHANGED <<who, stamp, rowid, users, keys, now, late>>

-----------------------------------------------------------------------------
(* The ends of a call *)

\* The row that the last SELECT of l asks for: by id after its own INSERT, by
\* github_id otherwise.
Wanted(l) ==
  {id \in Ids : IF step[l] = "readInserted" THEN id = rowid[l] ELSE RowOf(who[l], id)}

\* The last SELECT; find_or_create_user returns its row.  The branch for no row,
\* RowNotFound, cannot be taken: RowsAreThere.
DbReads(l) ==
  /\ step[l] \in {"readInserted", "readRaced", "readUpdated"}
  /\ \E id \in Wanted(l) : rowid' = [rowid EXCEPT ![l] = id]
  /\ step' = [step EXCEPT ![l] = "done"]
  /\ UNCHANGED <<who, stamp, users, keys, now, late>>

\* A statement fails, or the random source or the cipher does.
Fails(l) ==
  /\ step[l] \in (Active \ {"found", "patch"})
  /\ step' = [step EXCEPT ![l] = "failed"]
  /\ UNCHANGED <<who, stamp, rowid, users, keys, now, late>>

\* The future of the call is dropped, or the process stops.
Drop(l) ==
  /\ step[l] \in Active
  /\ step' = [step EXCEPT ![l] = "dropped"]
  /\ UNCHANGED <<who, stamp, rowid, users, keys, now, late>>

Tick ==
  /\ now < MaxTime
  /\ now' = now + 1
  /\ UNCHANGED <<step, who, stamp, rowid, users, keys, late>>

-----------------------------------------------------------------------------
\* What moves a call on once it has begun.
Progress(l) ==
  \/ DbFinds(l)
  \/ Update(l) \/ DbUpdates(l)
  \/ Provision(l) \/ CpaApplies(l) \/ CpaRefuses(l)
  \/ Insert(l) \/ DbInserts(l) \/ DbReportsDuplicate(l)
  \/ DbReads(l)

\* Every login has ended: the only way for this part to stand still.
AllEnded ==
  /\ \A l \in Logins : step[l] \in Ended
  /\ UNCHANGED vars

Next ==
  \/ \E l \in Logins, g \in GitHubIds : Start(l, g)
  \/ \E l \in Logins : Progress(l) \/ Fails(l) \/ Drop(l)
  \/ Tick
  \/ AllEnded

Spec == Init /\ [][Next]_vars

\* Polls are not withheld, and SQLite and CPA answer.
Fairness == \A l \in Logins : WF_vars(Progress(l))

-----------------------------------------------------------------------------
(* Properties *)

\* The key of every row of users is one that CPA has accepted, so the key that
\* the dashboard shows works: create_user stores it only after CPA's 2xx.
StoredKeysActive ==
  \A id \in Ids : Decrypt(users[id].api_key) \in keys

\* Logins of one GitHub identity return the same row, and it is that
\* identity's, also when they race to create it (UNIQUE github_id and
\* insert_user_with_race_retry).
LoginsAgree ==
  \A l, m \in Logins :
    step[l] = "done" /\ step[m] = "done" /\ who[l] = who[m]
      => rowid[l] = rowid[m] /\ RowOf(who[l], rowid[l])

\* The key and the identity of a row never change: no later login, and no
\* loser of a race, replaces what a user has been shown.
KeyNeverChanges ==
  [][\A id \in Ids :
       /\ id \in DOMAIN users'
       /\ users'[id].api_key = users[id].api_key
       /\ users'[id].github = users[id].github]_vars

\* A login that begins when its identity has a row adds no key to CPA.
LateLoginsAddNoKey == late \cap keys = {}

\* No row was last used before it was created, although each statement writes
\* a time that was read before it ran and statements overtake one another
\* (while the clock is not set back).
CreatedBeforeLastLogin ==
  \A id \in Ids : users[id].created_at <= users[id].last_login_at

\* The reads that follow an INSERT, a unique violation or an UPDATE find their
\* row: the three RowNotFound branches are unreachable.
RowsAreThere ==
  \A l \in Logins :
    step[l] \in {"readInserted", "readRaced", "readUpdated"} => Wanted(l) # {}

\* Every login ends, if SQLite and CPA answer; losing a race is no loop.
LoginsEnd == \A l \in Logins : step[l] \in Active ~> step[l] \in Ended

\* README.md:4 says that CPA Portal creates and saves one API key per user.
OneKeyPerUser == \A l, m \in keys : who[l] = who[m] => l = m

-----------------------------------------------------------------------------
(* The promise of UserDirectory *)

\* The key of identity g's row.
KeyOf(g) ==
  IF Registered(g)
  THEN Decrypt(users[CHOOSE id \in Ids : RowOf(g, id)].api_key)
  ELSE None

Directory == INSTANCE UserDirectory WITH
  Callers <- Logins,
  Identities <- GitHubIds,
  asks <- who,
  active <- keys,
  account <- [g \in GitHubIds |-> KeyOf(g)],
  answer <- [l \in Logins |->
              IF step[l] = "done" THEN Decrypt(users[rowid[l]].api_key) ELSE None]

\* Concurrent logins implement UserDirectory: an account is opened once, with a
\* key that is active, and everybody is answered with that key.
ImplementsDirectory == Directory!DirSpec
=============================================================================
