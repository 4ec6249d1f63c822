----------------------------- MODULE LocalRanking -----------------------------
(***************************************************************************)
(* One request for the local ranking: the page (src/routes/ranking.rs) or  *)
(* the admin API (src/routes/admin.rs), which share local_leaderboard of   *)
(* src/services/ranking.rs.                                                *)
(*                                                                         *)
(* local_leaderboard joins three answers that it gets at three moments:    *)
(* Keeper's leaderboard (participants, best first), Keeper's key settings  *)
(* (which id belongs to which API key) and the users table.  Users         *)
(* register and Keeper names keys while the request waits.  Two requests   *)
(* share nothing but those two, so one request is enough.                  *)
(*                                                                         *)
(* A user u is also the name of the API key in the row of u (keys are      *)
(* random and rows never change their key: KeyNeverChanges of              *)
(* Provisioning).  Outsiders are keys of CPA that no row holds: made by    *)
(* hand, or left over by a login that lost its race.                       *)
(***************************************************************************)
EXTENDS Ordering, SequencesExt

CONSTANTS
  Users,      \* the users that register, each named like its key
  Outsiders,  \* the keys of CPA without a row
  Ids,        \* the ids that Keeper gives to keys
  None        \* no answer yet, no key

ASSUME NoneAssumption == None \notin Users \cup Outsiders
ASSUME KeysAssumption == Users \cap Outsiders = {}

VARIABLES
  route,       \* the route that was asked: "page" or "admin"
  phase,       \* where the request is
  board,       \* Keeper's leaderboard: participant ids, or None
  items,       \* Keeper's key settings: ids with their keys, or None
  report,      \* the entries of the answer
  status,      \* the HTTP status of the answer (0: none)
  stored,      \* the users table
  unreadable,  \* rows sealed under an encryption key that is not configured
  belongs,     \* Keeper: belongs[p] is the key of id p, or None
  present      \* history: the rows when both answers of Keeper were there

request == <<route, phase, board, items, report, status, present>>
vars == <<request, stored, unreadable, belongs>>

Keys  == Users \cup Outsiders
Named == {p \in Ids : belongs[p] # None}
Item(p) == [id |-> p, api_key |-> belongs[p]]

\* The ways to list some elements of S, finitely many, each once.
Listings(S) == UNION {SetToSeqs(T) : T \in {U \in SUBSET S : IsFiniteSet(U)}}

\* The process starts on a database that an earlier one has left behind.
Init ==
  /\ route \in {"page", "admin"}
  /\ phase = "idle"
  /\ board = None /\ items = None /\ report = <<>>
  /\ status = 0
  /\ stored \in SUBSET Users
  /\ unreadable \in SUBSET stored
  /\ belongs = [p \in Ids |-> None]
  /\ present = {}

\* AppError::status, for the page.
PageStatus(error) ==
  IF error = "BadRequest" THEN 400 ELSE IF error = "Upstream" THEN 502 ELSE 500

\* map_app_error, for the admin API: an error of reqwest counts as upstream.
AdminStatus(error) ==
  IF error = "BadRequest" THEN 400 ELSE IF error \in {"Upstream", "Http"} THEN 502 ELSE 500

StatusOf(error) == IF route = "page" THEN PageStatus(error) ELSE AdminStatus(error)

End(code) == phase' = "ended" /\ status' = code

-----------------------------------------------------------------------------
(* The join.  A definition marked as a faulty variant is a mistake that is   *)
(* easy to make here; no specification uses it.  README.md lists which       *)
(* property it breaks when it replaces the definition it is named after.     *)

\* Faulty variant: the two answers are paired by position.
UserOfPlace(p) ==
  LET place == CHOOSE i \in DOMAIN board : board[i] = p
  IN  items[IF place \in DOMAIN items THEN place ELSE 1].api_key

\* users_by_api_key.remove finds a user for the FIRST id of its key only.
Matched(owners) ==
  {items[i].id : i \in {j \in DOMAIN items :
     /\ items[j].api_key \in owners
     /\ \A h \in 1..(j - 1) : items[h].api_key # items[j].api_key}}

\* The user that the map `users' has under id p.
UserOf(p) == items[CHOOSE i \in DOMAIN items : items[i].id = p].api_key

\* The listed participants that have a user, ranked again.
Entries(participants) ==
  [i \in DOMAIN participants |->
     [rank |-> i, user |-> UserOf(participants[i]), participant |-> participants[i]]]

\* The places of the participants whose key is in a row of owners.
Places(owners) == InOrder({i \in DOMAIN board : board[i] \in Matched(owners)})

Join(owners) == Entries([n \in DOMAIN Places(owners) |-> board[Places(owners)[n]]])

\* Faulty variant: a row that cannot be decrypted is skipped.
DbListsReadable ==
  /\ phase = "list"
  /\ End(200)
  /\ report' = Join(stored \ unreadable)
  /\ UNCHANGED <<route, board, items, present, stored, unreadable, belongs>>

-----------------------------------------------------------------------------
(* The handlers *)

\* A request arrives; who sends it is checked first (current_user reads the
\* session and the row, the admin API compares the token).
Arrive ==
  /\ phase = "idle"
  /\ phase' = "admission"
  /\ UNCHANGED <<route, board, items, report, status, present,
                 stored, unreadable, belongs>>

\* Not signed in, no valid token, or the session or its user cannot be read.
TurnAway ==
  /\ phase = "admission"
  /\ \/ route = "page" /\ End(303)
     \/ route = "page" /\ \E e \in {"Session", "Database"} : End(PageStatus(e))
     \/ route = "admin" /\ End(401)
  /\ UNCHANGED <<route, board, items, report, present, stored, unreadable, belongs>>

\* parse_period or parse_metric refuses the query.
BadQuery ==
  /\ phase = "admission"
  /\ End(StatusOf("BadRequest"))
  /\ UNCHANGED <<route, board, items, report, present, stored, unreadable, belongs>>

\* local_leaderboard sends both requests to Keeper (tokio::try_join!).
CallKeeper ==
  /\ phase = "admission"
  /\ phase' = "calls"
  /\ UNCHANGED <<route, board, items, report, status, present,
                 stored, unreadable, belongs>>

\* With the second answer the rows are asked for.
Collect(b, its) ==
  /\ board' = b
  /\ items' = its
  /\ IF None \in {b, its} THEN UNCHANGED <<phase, present>>
                          ELSE phase' = "list" /\ present' = stored
  /\ UNCHANGED <<route, report, status, stored, unreadable, belongs>>

\* Keeper ranks keys that it has named.
LeaderboardAnswers ==
  /\ phase = "calls" /\ board = None
  /\ \E b \in Listings(Named) : Collect(b, items)

\* Keeper lists keys that it has named.
SettingsAnswer ==
  /\ phase = "calls" /\ items = None
  /\ \E its \in Listings({Item(p) : p \in Named}) : Collect(board, its)

\* One call fails: try_join! drops the other one.
CallFails ==
  /\ phase = "calls"
  /\ End(StatusOf("Upstream"))
  /\ UNCHANGED <<route, board, items, report, present, stored, unreadable, belongs>>

\* list_users; then every row is decrypted and the answers are joined without
\* another await.
DbLists ==
  /\ phase = "list"
  /\ unreadable = {}
  /\ End(200)
  /\ report' = Join(stored)
  /\ UNCHANGED <<route, board, items, present, stored, unreadable, belongs>>

\* list_users fails, or decrypt_api_key does for any of the rows.
DbFails ==
  /\ phase = "list"
  /\ \/ End(StatusOf("Database"))
     \/ unreadable # {} /\ End(StatusOf("Other"))
  /\ UNCHANGED <<route, board, items, report, present, stored, unreadable, belongs>>

\* The peer is gone and the future of the handler is dropped.
Drop ==
  /\ phase \in {"admission", "calls", "list"}
  /\ End(0)
  /\ UNCHANGED <<route, board, items, report, present, stored, unreadable, belongs>>

\* The request has ended: the only way for this part to stand still.
Ended == phase = "ended" /\ UNCHANGED vars

-----------------------------------------------------------------------------
(* What happens around the request *)

\* find_or_create_user inserts the row of u.
Register(u) ==
  /\ stored' = stored \cup {u}
  /\ UNCHANGED <<request, unreadable, belongs>>

\* Keeper names a key of CPA; a key that was removed and added again may get a
\* second id, an id never gets a second key.
KeeperNames(p, k) ==
  /\ belongs[p] = None
  /\ belongs' = [belongs EXCEPT ![p] = k]
  /\ UNCHANGED <<request, stored, unreadable>>

Next ==
  \/ Arrive \/ TurnAway \/ BadQuery
  \/ CallKeeper \/ LeaderboardAnswers \/ SettingsAnswer \/ CallFails
  \/ DbLists \/ DbFails
  \/ Drop \/ Ended
  \/ \E u \in Users : Register(u)
  \/ \E p \in Ids, k \in Keys : KeeperNames(p, k)

Spec == Init /\ [][Next]_vars

-----------------------------------------------------------------------------
(* Properties *)

\* Nobody is shown the usage of somebody else's key: the participant in each
\* entry is an id of the key that is in the row of the entry's user.
UsageIsTheUsers ==
  \A i \in DOMAIN report : belongs[report[i].participant] = report[i].user

\* The portal's ranking is Keeper's with the others left out, or an error.
\* Whoever had a row when Keeper's answers were there, and is named in both
\* under one id, is in it, also when a row cannot be decrypted; a user is in it
\* once at most, also when Keeper lists the user's key under two ids (and not at
\* all if the board names the second of them only); the ranks have no gap and
\* keep Keeper's order.
EverybodyRankedOnce ==
  /\ status = 200 =>
       \A u \in present : \A p \in ToSet(board) :
         {q \in Ids : [id |-> q, api_key |-> u] \in ToSet(items)} = {p}
           => \E e \in ToSet(report) : e.user = u /\ e.participant = p
  /\ \A i, j \in DOMAIN report :
       i < j => /\ report[i].user # report[j].user
                /\ report[j].rank - report[i].rank = j - i
                /\ \E m, n \in DOMAIN board :
                     /\ m < n
                     /\ board[m] = report[i].participant
                     /\ board[n] = report[j].participant
=============================================================================
