------------------------------ MODULE ListProofs ------------------------------
(***************************************************************************)
(* Proofs about the answers that list users: AdminApi, LocalRanking and    *)
(* RankingPage, for any users, rows, ids of Keeper and values.             *)
(*                                                                         *)
(* Both lists are made with InOrder, so the first part shows what that     *)
(* returns: every element of a finite set of integers once, ascending.     *)
(* The inductive invariants then say which stage of a request knows what   *)
(* (StageOK), that Keeper's answers are lists without repetition of ids    *)
(* that keep their key (BoardOK, ItemsOK) and the report is their join     *)
(* (ReportOK), and that a page and the form on it agree with what the      *)
(* visitor has picked (PageOK, PickOK).  The last part is about the        *)
(* numbers of the page: that the recursive functions Digits and Value      *)
(* exist, that one undoes the other, and how rounding is off.              *)
(***************************************************************************)
EXTENDS AdminApi, LocalRanking, RankingPage, FiniteSetTheorems, SequenceTheorems,
        WellFoundedInduction, TLAPS

LEMMA IncreasingIsInjection ==
  ASSUME NEW S, NEW N \in Nat, S \subseteq Int, NEW s \in [1..N -> S],
         \A m, n \in 1..N : m < n => s[m] < s[n]
  PROVE  s \in Injection(1..N, S)
<1>1. \A m, n \in 1..N : s[m] = s[n] => m = n
  <2>. SUFFICES ASSUME NEW m \in 1..N, NEW n \in 1..N, m # n PROVE s[m] # s[n]
    OBVIOUS
  <2>1. s[m] \in Int /\ s[n] \in Int
    OBVIOUS
  <2>2. m < n \/ n < m
    OBVIOUS
  <2>. QED
    BY <2>1, <2>2
<1>. QED
  BY <1>1 DEF Injection, IsInjective

\* There is such a list: put every element at the place that the number of
\* elements up to it names.
LEMMA InOrderExists ==
  ASSUME NEW S, S \subseteq Int, IsFiniteSet(S)
  PROVE  \E s \in [1..Cardinality(S) -> S] :
           \A m, n \in 1..Cardinality(S) : m < n => s[m] < s[n]
<1>. DEFINE N == Cardinality(S)
            UpTo(x) == {y \in S : y <= x}
            rank == [x \in S |-> Cardinality(UpTo(x))]
<1>1. N \in Nat
  BY FS_CardinalityType
<1>2. \A x \in S : /\ IsFiniteSet(UpTo(x)) /\ UpTo(x) # {}
                   /\ Cardinality(UpTo(x)) \in 1..N
  <2>. TAKE x \in S
  <2>1. UpTo(x) \subseteq S /\ x \in UpTo(x)
    OBVIOUS
  <2>2. IsFiniteSet(UpTo(x)) /\ Cardinality(UpTo(x)) <= N
    BY <2>1, FS_Subset
  <2>3. Cardinality(UpTo(x)) \in Nat /\ Cardinality(UpTo(x)) # 0
    BY <2>1, <2>2, FS_CardinalityType, FS_EmptySet
  <2>. QED
    BY <1>1, <2>1, <2>2, <2>3
<1>3. \A x, y \in S : x < y => rank[x] < rank[y]
  <2>. SUFFICES ASSUME NEW x \in S, NEW y \in S, x < y PROVE rank[x] < rank[y]
    OBVIOUS
  <2>0. \A z \in S : z \in Int
    OBVIOUS
  <2>1. /\ \A z \in S : z <= x => z <= y
        /\ y <= y /\ ~(y <= x)
    BY <2>0
  <2>2. UpTo(x) \subseteq UpTo(y) /\ y \in UpTo(y) /\ y \notin UpTo(x)
    BY <2>1, Zenon
  <2>3. Cardinality(UpTo(x)) <= Cardinality(UpTo(y)) /\ Cardinality(UpTo(x)) # Cardinality(UpTo(y))
    BY <1>2, <2>2, FS_Subset
  <2>4. Cardinality(UpTo(x)) \in Nat /\ Cardinality(UpTo(y)) \in Nat
    BY <1>2, FS_CardinalityType
  <2>5. rank[x] = Cardinality(UpTo(x)) /\ rank[y] = Cardinality(UpTo(y))
    OBVIOUS
  <2>. HIDE DEF UpTo, rank
  <2>. QED
    BY <2>3, <2>4, <2>5
<1>. HIDE DEF UpTo
<1>4. rank \in [S -> 1..N]
  BY <1>2
<1>. HIDE DEF rank
<1>5. rank \in Injection(S, 1..N)
  <2>1. \A x, y \in S : rank[x] = rank[y] => x = y
    <3>. SUFFICES ASSUME NEW x \in S, NEW y \in S, x # y PROVE rank[x] # rank[y]
      OBVIOUS
    <3>1. x \in Int /\ y \in Int
      OBVIOUS
    <3>2. rank[x] \in 1..N /\ rank[y] \in 1..N
      BY <1>4
    <3>3. x < y \/ y < x
      BY <3>1
    <3>. QED
      BY <1>1, <1>3, <3>2, <3>3
  <2>. QED
    BY <1>4, <2>1 DEF Injection, IsInjective
<1>6. IsFiniteSet(1..N) /\ Cardinality(1..N) = N
  BY <1>1, FS_Interval
<1>7. rank \in Surjection(S, 1..N)
  BY <1>5, <1>6, FS_Injection
<1>. DEFINE s == [n \in 1..N |-> CHOOSE x \in S : rank[x] = n]
<1>8. \A n \in 1..N : s[n] \in S /\ rank[s[n]] = n
  BY <1>7 DEF Surjection
<1>9. \A m, n \in 1..N : m < n => s[m] < s[n]
  <2>. SUFFICES ASSUME NEW m \in 1..N, NEW n \in 1..N, m < n, ~(s[m] < s[n]) PROVE FALSE
    OBVIOUS
  <2>. HIDE DEF s
  <2>1. s[m] \in Int /\ s[n] \in Int /\ s[m] \in S /\ s[n] \in S
    BY <1>8
  <2>2. s[n] = s[m] \/ s[n] < s[m]
    BY <2>1
  <2>3. rank[s[m]] = m /\ rank[s[n]] = n
    BY <1>8
  <2>4. CASE s[n] < s[m]
    <3>1. n < m
      BY <1>3, <2>1, <2>3, <2>4
    <3>. QED
      BY <1>1, <3>1
  <2>5. CASE s[n] = s[m]
    BY <1>1, <2>3, <2>5
  <2>. QED
    BY <2>2, <2>4, <2>5
<1>10. s \in [1..N -> S]
  BY <1>8
<1>. HIDE DEF s
<1>. QED
  BY <1>9, <1>10

\* A finite set of integers, listed in order: in it is what is in the set, at one
\* place each.
LEMMA InOrderLists ==
  ASSUME NEW S, S \subseteq Int, IsFiniteSet(S)
  PROVE  LET N == Cardinality(S)
         IN  /\ N \in Nat
             /\ InOrder(S) \in [1..N -> S]
             /\ \A m, n \in 1..N : m < n => InOrder(S)[m] < InOrder(S)[n]
             /\ \A x \in S : \E n \in 1..N : InOrder(S)[n] = x
<1>. DEFINE N == Cardinality(S)
<1>1. N \in Nat
  BY FS_CardinalityType
<1>2. /\ InOrder(S) \in [1..N -> S]
      /\ \A m, n \in 1..N : m < n => InOrder(S)[m] < InOrder(S)[n]
  BY InOrderExists DEF InOrder
<1>3. InOrder(S) \in Injection(1..N, S)
  BY <1>1, <1>2, IncreasingIsInjection
<1>4. InOrder(S) \in Surjection(1..N, S)
  <2>1. IsFiniteSet(1..N) /\ Cardinality(1..N) = N
    BY <1>1, FS_Interval
  <2>. QED
    BY <1>3, <2>1, FS_Injection
<1>. QED
  BY <1>1, <1>2, <1>4 DEF Surjection

-----------------------------------------------------------------------------
(* AdminApi *)

AdminTypeOK ==
  /\ req \in Request
  /\ stage \in {"idle", "route", "authenticate", "extract", "users", "ranking", "quota",
                "call", "answered"}
  /\ rows \in [DOMAIN rows -> Stamps] /\ DOMAIN rows \subseteq UserIds
  /\ before \subseteq DOMAIN rows
  /\ asked \subseteq {"keeper", "database"}
  /\ fault \in {"caller", "keeper", "portal", "none"}

\* What a request has behind it: nobody gets past the first extractor without
\* the token, and nothing is used before the answer is there.
StageOK ==
  /\ stage \in {"extract", "users", "ranking", "quota", "call"} => req.authorization = "right"
  /\ stage \in {"users", "ranking", "quota"} => req.path = stage
  /\ stage = "call" => req.path # "users"
  /\ stage # "answered" => asked = {}

AdminInv ==
  AdminTypeOK /\ StageOK /\ StrangersLearnNothing /\ ListIsWhole /\ StatusNamesTheFault

\* The end of a request, from any stage.
LEMMA FinishStep ==
  ASSUME AdminInv, NEW answer, NEW whose, Finish(answer, whose),
         asked' \subseteq {"keeper", "database"},
         \/ whose = "caller" /\ answer.status \in {400, 401, 405}
         \/ whose = "keeper" /\ answer.status = 502
         \/ whose = "portal" /\ answer.status = 500
         \/ whose = "none" /\ answer.status = 200,
         req.method = "GET" /\ req.authorization # "right" =>
           answer = AdminApiError(401, "unauthorized") /\ asked' = {},
         answer.status = 200 /\ req.path = "users" =>
           /\ before \subseteq ToSet(answer.users)
           /\ \A m, n \in DOMAIN answer.users : m < n => answer.users[m] < answer.users[n]
  PROVE  AdminInv'
<1>1. /\ stage' = "answered" /\ reply' = answer /\ fault' = whose
      /\ UNCHANGED <<req, rows, before>>
  BY DEF Finish
<1>2. AdminTypeOK' /\ StageOK'
  BY <1>1 DEF AdminInv, AdminTypeOK, StageOK
<1>3. StrangersLearnNothing'
  BY <1>1 DEF StrangersLearnNothing, AdminApiError
<1>4. ListIsWhole'
  BY <1>1 DEF ListIsWhole, ToSet
<1>5. StatusNamesTheFault'
  BY <1>1 DEF StatusNamesTheFault
<1>. QED
  BY <1>2, <1>3, <1>4, <1>5 DEF AdminInv

LEMMA GotoStep ==
  ASSUME AdminInv, NEW p, Goto(p), UNCHANGED asked, stage # "answered",
         p \in {"authenticate", "extract", "users", "ranking", "quota", "call"},
         p # "authenticate" => req.authorization = "right",
         p \in {"users", "ranking", "quota"} => req.path = p,
         p = "call" => req.path # "users"
  PROVE  AdminInv'
<1>1. stage' = p /\ UNCHANGED <<req, reply, before, rows, fault, asked>>
  BY DEF Goto, aboutRequest
<1>2. AdminTypeOK' /\ StageOK'
  BY <1>1 DEF AdminInv, AdminTypeOK, StageOK
<1>3. stage' # "answered"
  BY <1>1
<1>. QED
  BY <1>2, <1>3 DEF AdminInv, StrangersLearnNothing, ListIsWhole, StatusNamesTheFault

LEMMA ListUsersStep ==
  ASSUME AdminInv, ListUsers
  PROVE  AdminInv'
<1>. DEFINE ids == InOrder(DOMAIN rows)
            N == Cardinality(DOMAIN rows)
<1>1. DOMAIN rows \subseteq Int /\ IsFiniteSet(DOMAIN rows)
  BY UserIdsAssumption, FS_Subset DEF AdminInv, AdminTypeOK
<1>2. /\ N \in Nat /\ ids \in [1..N -> DOMAIN rows]
      /\ \A m, n \in 1..N : m < n => ids[m] < ids[n]
      /\ \A x \in DOMAIN rows : \E n \in 1..N : ids[n] = x
  BY <1>1, InOrderLists
<1>3. before \subseteq ToSet(ids)
  BY <1>2 DEF AdminInv, AdminTypeOK, ToSet
<1>4. req.authorization = "right" /\ asked' \subseteq {"keeper", "database"}
  BY DEF ListUsers, Uses, AdminInv, AdminTypeOK, StageOK
<1>5. CASE Finish(json_response(ids), "none")
  <2>. HIDE DEF ids, N
  <2>. DEFINE answer == json_response(ids)
  <2>1. answer.status = 200 /\ answer.users = ids
    BY DEF json_response
  <2>. HIDE DEF answer
  <2>. QED
    BY <1>2, <1>3, <1>4, <1>5, <2>1, FinishStep DEF answer
<1>6. ASSUME NEW code, Finish(AdminApiError(500, code), "portal") PROVE AdminInv'
  <2>1. AdminApiError(500, code).status = 500
    BY DEF AdminApiError
  <2>. QED
    BY <1>4, <1>6, <2>1, FinishStep
<1>. QED
  BY <1>5, <1>6 DEF ListUsers

LEMMA AnswerFields ==
  /\ \A n : Plain(n).status = n
  /\ \A n, code : AdminApiError(n, code).status = n
  /\ \A ids : json_response(ids).status = 200 /\ json_response(ids).users = ids
  BY DEF Plain, AdminApiError, json_response

\* One step of the handlers, or another one.
LEMMA AdminStep ==
  ASSUME AdminInv, [AdminNext]_adminVars
  PROVE  AdminInv'
<1>0. AdminTypeOK /\ StageOK
  BY DEF AdminInv
<1>1. ASSUME NEW r \in Request, Receive(r) PROVE AdminInv'
  BY <1>0, <1>1 DEF Receive, AdminInv, AdminTypeOK, StageOK, StrangersLearnNothing,
     ListIsWhole, StatusNamesTheFault
<1>2. CASE Route
  BY <1>0, <1>2, GotoStep, FinishStep, AnswerFields DEF Route, AdminTypeOK, StageOK
<1>3. CASE Authenticate
  BY <1>0, <1>3, GotoStep, FinishStep, AnswerFields DEF Authenticate, AdminTypeOK, StageOK
<1>4. CASE Extract
  BY <1>0, <1>4, GotoStep, FinishStep, AnswerFields DEF Extract, AdminTypeOK, StageOK, Request
<1>5. CASE Done
  BY <1>0, <1>5 DEF Done, AdminInv, AdminTypeOK, StageOK, StrangersLearnNothing,
     ListIsWhole, StatusNamesTheFault, Request, NoRequest, Field
<1>6. CASE ListFails
  BY <1>0, <1>6, FinishStep, AnswerFields DEF ListFails, Uses, AdminTypeOK, StageOK
<1>7. CASE local_ranking
  BY <1>0, <1>7, GotoStep, FinishStep, AnswerFields DEF local_ranking, AdminTypeOK, StageOK
<1>8. CASE quota_snapshot
  BY <1>0, <1>8, GotoStep DEF quota_snapshot, StageOK
<1>9. CASE CallAnswers
  BY <1>0, <1>9, FinishStep, AnswerFields DEF CallAnswers, AdminTypeOK, StageOK
<1>10. ASSUME NEW e \in {"Upstream", "Database", "Other"}, CallErrs(e) PROVE AdminInv'
  BY <1>0, <1>10, FinishStep, AnswerFields DEF CallErrs, Uses, map_app_error, AdminTypeOK, StageOK
<1>11. ASSUME NEW i \in UserIds, NEW t \in Stamps, AddUser(i, t) PROVE AdminInv'
  BY <1>0, <1>11 DEF AddUser, aboutRequest, AdminInv, AdminTypeOK, StageOK,
     StrangersLearnNothing, ListIsWhole, StatusNamesTheFault
<1>12. CASE UNCHANGED adminVars
  BY <1>0, <1>12 DEF adminVars, aboutRequest, AdminInv, AdminTypeOK, StageOK,
     StrangersLearnNothing, ListIsWhole, StatusNamesTheFault
<1>. QED
  BY <1>1, <1>2, <1>3, <1>4, <1>5, <1>6, <1>7, <1>8, <1>9, <1>10, <1>11, <1>12, ListUsersStep
     DEF AdminNext

LEMMA AdminInvariance == AdminSpec => []AdminInv
<1>1. AdminInit => AdminInv
  BY DEF AdminInit, AdminInv, AdminTypeOK, StageOK, StrangersLearnNothing, ListIsWhole,
     StatusNamesTheFault, Request, NoRequest, Field
<1>. QED
  BY <1>1, AdminStep, PTL DEF AdminSpec

\* Whoever has no token learns nothing and makes the portal do nothing.
THEOREM StrangersAreRefused == AdminSpec => []StrangersLearnNothing
<1>1. AdminInv => StrangersLearnNothing
  BY DEF AdminInv
<1>. QED
  BY <1>1, AdminInvariance, PTL

\* The list of users is whole and in the order of the ids, or an error.
THEOREM ListsAreWhole == AdminSpec => []ListIsWhole
<1>1. AdminInv => ListIsWhole
  BY DEF AdminInv
<1>. QED
  BY <1>1, AdminInvariance, PTL

\* The class of a status tells whose mistake ended the request.
THEOREM StatusesNameFaults == AdminSpec => []StatusNamesTheFault
<1>1. AdminInv => StatusNamesTheFault
  BY DEF AdminInv
<1>. QED
  BY <1>1, AdminInvariance, PTL

-----------------------------------------------------------------------------
(* LocalRanking *)

\* What is asked of the three answers: Keeper lists nothing twice, and an id has
\* the key that it had when it was listed.
BoardOK ==
  board # None =>
    \E n \in Nat : /\ board \in [1..n -> Ids]
                   /\ \A i, j \in 1..n : board[i] = board[j] => i = j

ItemsOK ==
  items # None =>
    \E n \in Nat :
      /\ DOMAIN items = 1..n
      /\ \A i \in 1..n : items[i].id \in Named /\ items[i] = Item(items[i].id)
      /\ \A i, j \in 1..n : items[i].id = items[j].id => i = j

RankTypeOK ==
  /\ phase \in {"idle", "admission", "calls", "list", "ended"}
  /\ belongs \in [Ids -> Keys \cup {None}]
  /\ present \subseteq stored

\* The answer is made in one step, and is about ids that Keeper has named.
ReportOK ==
  /\ phase = "list" => board # None /\ items # None
  /\ phase # "ended" => status = 0 /\ report = <<>>
  /\ \A i \in DOMAIN report : report[i].participant \in Named

RankInv ==
  RankTypeOK /\ BoardOK /\ ItemsOK /\ ReportOK /\ UsageIsTheUsers /\ EverybodyRankedOnce

LEMMA ListingIsOne ==
  ASSUME NEW S, NEW list \in Listings(S)
  PROVE  \E n \in Nat : /\ list \in [1..n -> S]
                        /\ \A i, j \in 1..n : list[i] = list[j] => i = j
<1>1. PICK T \in SUBSET S : IsFiniteSet(T) /\ list \in SetToSeqs(T)
  BY DEF Listings
<1>2. Cardinality(T) \in Nat
  BY <1>1, FS_CardinalityType
<1>. QED
  BY <1>1, <1>2 DEF SetToSeqs

\* The user that is found for a listed id is the one that the id belongs to.
LEMMA UserOfListed ==
  ASSUME ItemsOK, items # None, NEW i \in DOMAIN items
  PROVE  UserOf(items[i].id) = items[i].api_key
  BY DEF ItemsOK, UserOf

\* Two ids with one key are not both matched.
LEMMA MatchedOnce ==
  ASSUME ItemsOK, items # None, NEW owners,
         NEW p \in Matched(owners), NEW q \in Matched(owners)
  PROVE  /\ p \in Named /\ UserOf(p) = belongs[p] /\ UserOf(p) \in owners
         /\ UserOf(p) = UserOf(q) => p = q
<1>0. PICK n \in Nat : DOMAIN items = 1..n
  BY DEF ItemsOK
<1>1. PICK i \in 1..n : /\ items[i].id = p /\ items[i].api_key \in owners
                        /\ \A h \in 1..(i - 1) : items[h].api_key # items[i].api_key
  BY <1>0 DEF Matched
<1>2. PICK j \in 1..n : /\ items[j].id = q
                        /\ \A h \in 1..(j - 1) : items[h].api_key # items[j].api_key
  BY <1>0 DEF Matched
<1>3. UserOf(p) = items[i].api_key /\ UserOf(q) = items[j].api_key
  BY <1>0, <1>1, <1>2, UserOfListed
<1>4. p \in Named /\ items[i] = Item(p)
  BY <1>0, <1>1 DEF ItemsOK
<1>5. UserOf(p) = belongs[p]
  BY <1>3, <1>4 DEF Item
<1>6. ASSUME items[i].api_key = items[j].api_key PROVE i = j
  BY <1>1, <1>2, <1>6
<1>. QED
  BY <1>1, <1>2, <1>3, <1>4, <1>5, <1>6

LEMMA PlacesAreListed ==
  ASSUME BoardOK, board # None, NEW owners
  PROVE  \E n \in Nat :
           LET places == Places(owners)
           IN  /\ places \in [1..n -> DOMAIN board]
               /\ \A k \in 1..n : board[places[k]] \in Matched(owners)
               /\ \A k, m \in 1..n : k < m => places[k] < places[m]
               /\ \A i \in DOMAIN board :
                    board[i] \in Matched(owners) => \E k \in 1..n : places[k] = i
<1>. DEFINE S == {i \in DOMAIN board : board[i] \in Matched(owners)}
<1>1. PICK n \in Nat : board \in [1..n -> Ids]
  BY DEF BoardOK
<1>2. S \subseteq 1..n
  BY <1>1
<1>3. S \subseteq Int /\ IsFiniteSet(S)
  <2>. HIDE DEF S
  <2>1. IsFiniteSet(1..n) /\ 1..n \subseteq Int
    BY FS_Interval
  <2>. QED
    BY <1>2, <2>1, FS_Subset
<1>4. Places(owners) = InOrder(S)
  BY DEF Places
<1>5. \A i : i \in S <=> i \in DOMAIN board /\ board[i] \in Matched(owners)
  OBVIOUS
<1>. HIDE DEF S
<1>. DEFINE N == Cardinality(S)
<1>6. /\ N \in Nat
      /\ InOrder(S) \in [1..N -> S]
      /\ \A k, m \in 1..N : k < m => InOrder(S)[k] < InOrder(S)[m]
      /\ \A x \in S : \E k \in 1..N : InOrder(S)[k] = x
  BY <1>3, InOrderLists
<1>. HIDE DEF N
<1>. QED
  BY <1>4, <1>5, <1>6

\* An id that is the only one of a user's key, and is listed, is matched.
LEMMA SingleIdIsMatched ==
  ASSUME ItemsOK, items # None, NEW owners, NEW u \in owners, NEW p,
         {q \in Ids : [id |-> q, api_key |-> u] \in ToSet(items)} = {p}
  PROVE  p \in Matched(owners) /\ UserOf(p) = u
<1>1. PICK n \in Nat : /\ DOMAIN items = 1..n
                       /\ \A i \in 1..n : items[i].id \in Named /\ items[i] = Item(items[i].id)
                       /\ \A i, j \in 1..n : items[i].id = items[j].id => i = j
  BY DEF ItemsOK
<1>2. PICK i \in 1..n : items[i] = [id |-> p, api_key |-> u]
  BY <1>1 DEF ToSet
<1>3. ASSUME NEW h \in 1..(i - 1), items[h].api_key = u PROVE FALSE
  <2>1. h \in 1..n /\ h # i
    BY <1>1, <1>2
  <2>2. items[h].id \in Ids /\ items[h] = [id |-> items[h].id, api_key |-> u]
    BY <1>1, <1>3, <2>1 DEF Item, Named
  <2>3. items[h].id = p
    BY <1>1, <2>1, <2>2 DEF ToSet
  <2>. QED
    BY <1>1, <1>2, <2>1, <2>3
<1>4. items[i].id = p /\ items[i].api_key = u
  BY <1>2
<1>5. p \in Matched(owners)
  BY <1>1, <1>3, <1>4 DEF Matched
<1>. QED
  BY <1>1, <1>4, <1>5, UserOfListed

\* What local_leaderboard makes of the three answers.
LEMMA JoinIsRight ==
  ASSUME BoardOK, ItemsOK, board # None, items # None, NEW owners
  PROVE  LET joined == Join(owners)
         IN  /\ \A i \in DOMAIN joined :
                  /\ joined[i].participant \in Named
                  /\ joined[i].user = belongs[joined[i].participant]
             /\ \A i, j \in DOMAIN joined :
                  i < j => /\ joined[i].user # joined[j].user
                           /\ joined[j].rank - joined[i].rank = j - i
                           /\ \E m, n \in DOMAIN board :
                                /\ m < n
                                /\ board[m] = joined[i].participant
                                /\ board[n] = joined[j].participant
             /\ \A u \in owners : \A p \in ToSet(board) :
                  {q \in Ids : [id |-> q, api_key |-> u] \in ToSet(items)} = {p}
                    => \E e \in ToSet(joined) : e.user = u /\ e.participant = p
<1>. DEFINE places == Places(owners)
            joined == Join(owners)
<1>1. PICK n \in Nat :
        /\ places \in [1..n -> DOMAIN board]
        /\ \A k \in 1..n : board[places[k]] \in Matched(owners)
        /\ \A k, m \in 1..n : k < m => places[k] < places[m]
        /\ \A i \in DOMAIN board :
             board[i] \in Matched(owners) => \E k \in 1..n : places[k] = i
  BY PlacesAreListed
<1>. HIDE DEF places
<1>2. joined = [k \in 1..n |-> [rank |-> k, user |-> UserOf(board[places[k]]),
                               participant |-> board[places[k]]]]
  BY <1>1 DEF Join, Entries, places
<1>. HIDE DEF joined
<1>3. ASSUME NEW i \in DOMAIN joined
      PROVE  /\ joined[i].participant \in Named
             /\ joined[i].user = belongs[joined[i].participant]
  BY <1>1, <1>2, MatchedOnce
<1>4. ASSUME NEW i \in DOMAIN joined, NEW j \in DOMAIN joined, i < j
      PROVE  /\ joined[i].user # joined[j].user
             /\ joined[j].rank - joined[i].rank = j - i
             /\ \E m, k \in DOMAIN board :
                  /\ m < k
                  /\ board[m] = joined[i].participant
                  /\ board[k] = joined[j].participant
  <2>1. i \in 1..n /\ j \in 1..n /\ places[i] < places[j]
    BY <1>1, <1>2, <1>4
  <2>2. places[i] \in DOMAIN board /\ places[j] \in DOMAIN board
    BY <1>1, <2>1
  <2>3. board[places[i]] # board[places[j]]
    BY <2>1, <2>2 DEF BoardOK
  <2>4. joined[i].user # joined[j].user
    BY <1>1, <1>2, <2>1, <2>3, MatchedOnce
  <2>5. joined[i].rank = i /\ joined[j].rank = j
    BY <1>2, <2>1
  <2>6. /\ joined[i].participant = board[places[i]]
        /\ joined[j].participant = board[places[j]]
    BY <1>2, <2>1
  <2>. QED
    BY <2>1, <2>2, <2>4, <2>5, <2>6
<1>5. ASSUME NEW u \in owners, NEW p \in ToSet(board),
             {q \in Ids : [id |-> q, api_key |-> u] \in ToSet(items)} = {p}
      PROVE  \E e \in ToSet(joined) : e.user = u /\ e.participant = p
  <2>1. p \in Matched(owners) /\ UserOf(p) = u
    BY <1>5, SingleIdIsMatched
  <2>2. PICK i \in DOMAIN board : board[i] = p
    BY DEF ToSet
  <2>3. PICK k \in 1..n : places[k] = i
    BY <1>1, <2>1, <2>2
  <2>4. joined[k] \in ToSet(joined) /\ joined[k].user = u /\ joined[k].participant = p
    BY <1>2, <2>1, <2>2, <2>3 DEF ToSet
  <2>. QED
    BY <2>4
<1>. QED
  BY <1>3, <1>4, <1>5 DEF joined

LEMMA DbListsStep ==
  ASSUME RankInv, DbLists
  PROVE  RankInv'
<1>1. board # None /\ items # None /\ BoardOK /\ ItemsOK /\ RankTypeOK
  BY DEF RankInv, ReportOK, DbLists
<1>2. /\ report' = Join(stored) /\ phase' = "ended"
      /\ UNCHANGED <<board, items, present, stored, belongs>>
  BY DEF DbLists, End
<1>3. RankTypeOK' /\ BoardOK' /\ ItemsOK'
  BY <1>1, <1>2 DEF RankTypeOK, BoardOK, ItemsOK, Named, Item
<1>4. ReportOK' /\ UsageIsTheUsers'
  BY <1>1, <1>2, JoinIsRight DEF ReportOK, UsageIsTheUsers, Named
<1>5. EverybodyRankedOnce'
  BY <1>1, <1>2, JoinIsRight DEF EverybodyRankedOnce, RankTypeOK, ToSet
<1>. QED
  BY <1>3, <1>4, <1>5 DEF RankInv

\* No answer but that of DbLists shows anything.
LEMMA EndStep ==
  ASSUME RankInv, NEW code, code # 200, End(code), phase # "ended",
         UNCHANGED <<route, board, items, report, present, stored, unreadable, belongs>>
  PROVE  RankInv'
<1>1. /\ phase' = "ended" /\ status' = code /\ code # 200 /\ report = <<>>
      /\ UNCHANGED <<board, items, report, present, stored, belongs>>
  BY DEF End, RankInv, ReportOK
<1>2. Named' = Named /\ \A p : Item(p)' = Item(p)
  BY <1>1 DEF Named, Item
<1>3. RankTypeOK' /\ BoardOK' /\ ItemsOK'
  BY <1>1, <1>2 DEF RankInv, RankTypeOK, BoardOK, ItemsOK
<1>4. ReportOK' /\ UsageIsTheUsers' /\ EverybodyRankedOnce'
  BY <1>1 DEF ReportOK, UsageIsTheUsers, EverybodyRankedOnce
<1>. QED
  BY <1>3, <1>4 DEF RankInv

LEMMA CollectStep ==
  ASSUME RankInv, phase = "calls", NEW b, NEW its, Collect(b, its),
         b = board \/ b \in Listings(Named),
         its = items \/ its \in Listings({Item(p) : p \in Named})
  PROVE  RankInv'
<1>1. /\ board' = b /\ items' = its /\ UNCHANGED <<report, status, stored, belongs>>
      /\ phase' \in {"calls", "list"}
      /\ phase' = "list" => b # None /\ its # None
      /\ present' \in {present, stored}
  BY DEF Collect
<1>2. report = <<>> /\ status = 0 /\ RankTypeOK
  BY DEF RankInv, ReportOK
<1>3. BoardOK'
  <2>1. CASE b = board
    BY <1>1, <2>1 DEF RankInv, BoardOK
  <2>2. CASE b \in Listings(Named)
    BY <1>1, <2>2, ListingIsOne DEF BoardOK, Named
  <2>. QED
    BY <2>1, <2>2
<1>4. ItemsOK'
  <2>1. CASE its = items
    BY <1>1, <2>1 DEF RankInv, ItemsOK, Named, Item
  <2>2. CASE its \in Listings({Item(p) : p \in Named})
    <3>1. PICK n \in Nat : /\ its \in [1..n -> {Item(p) : p \in Named}]
                           /\ \A i, j \in 1..n : its[i] = its[j] => i = j
      BY <2>2, ListingIsOne
    <3>2. \A i \in 1..n : \E p \in Named : its[i] = Item(p)
      BY <3>1
    <3>3. \A p \in Named : Item(p).id = p
      BY DEF Item
    <3>4. \A i \in 1..n : its[i].id \in Named /\ its[i] = Item(its[i].id)
      BY <3>2, <3>3
    <3>5. \A i, j \in 1..n : its[i].id = its[j].id => i = j
      BY <3>1, <3>4
    <3>. QED
      BY <1>1, <3>1, <3>4, <3>5 DEF ItemsOK, Named, Item
  <2>. QED
    BY <2>1, <2>2
<1>5. RankTypeOK' /\ ReportOK' /\ UsageIsTheUsers' /\ EverybodyRankedOnce'
  BY <1>1, <1>2 DEF RankTypeOK, ReportOK, UsageIsTheUsers, EverybodyRankedOnce
<1>. QED
  BY <1>3, <1>4, <1>5 DEF RankInv

LEMMA KeeperNamesStep ==
  ASSUME RankInv, NEW p \in Ids, NEW k \in Keys, KeeperNames(p, k)
  PROVE  RankInv'
<1>1. k # None /\ belongs[p] = None /\ belongs \in [Ids -> Keys \cup {None}]
  BY NoneAssumption DEF Keys, RankInv, RankTypeOK, KeeperNames
<1>2. /\ belongs' = [belongs EXCEPT ![p] = k]
      /\ UNCHANGED <<phase, board, items, report, status, present, stored>>
  BY DEF KeeperNames, request
<1>3. \A q \in Named : q \in Named' /\ belongs'[q] = belongs[q]
  BY <1>1, <1>2 DEF Named
<1>4. RankTypeOK' /\ BoardOK' /\ EverybodyRankedOnce'
  BY <1>1, <1>2 DEF RankInv, RankTypeOK, BoardOK, EverybodyRankedOnce, ToSet
<1>5. ItemsOK'
  <2>1. \A q \in Named : Item(q)' = Item(q)
    BY <1>3 DEF Item
  <2>. QED
    BY <1>2, <1>3, <2>1 DEF RankInv, ItemsOK
<1>6. ReportOK' /\ UsageIsTheUsers'
  BY <1>2, <1>3 DEF RankInv, ReportOK, UsageIsTheUsers
<1>. QED
  BY <1>4, <1>5, <1>6 DEF RankInv

\* Steps that change neither what Keeper has answered nor what was made of it.
LEMMA AsideStep ==
  ASSUME RankInv, UNCHANGED <<board, items, report, status, present, belongs>>,
         stored \subseteq stored',
         phase' = phase \/ (phase # "ended" /\ phase' \in {"idle", "admission", "calls"})
  PROVE  RankInv'
<1>1. Named' = Named /\ \A p : Item(p)' = Item(p)
  BY DEF Named, Item
<1>2. RankTypeOK' /\ BoardOK' /\ ItemsOK'
  BY <1>1 DEF RankInv, RankTypeOK, BoardOK, ItemsOK
<1>3. ReportOK' /\ UsageIsTheUsers'
  BY <1>1 DEF RankInv, ReportOK, UsageIsTheUsers
<1>4. EverybodyRankedOnce'
  BY DEF RankInv, EverybodyRankedOnce, ToSet
<1>. QED
  BY <1>2, <1>3, <1>4 DEF RankInv

LEMMA RankStep ==
  ASSUME RankInv, [Next]_vars
  PROVE  RankInv'
<1>1. CASE Arrive \/ CallKeeper
  BY <1>1, AsideStep DEF Arrive, CallKeeper
<1>2. CASE TurnAway \/ BadQuery \/ CallFails \/ DbFails
  BY <1>2, EndStep DEF TurnAway, BadQuery, CallFails, DbFails, StatusOf, PageStatus, AdminStatus
<1>3. CASE LeaderboardAnswers \/ SettingsAnswer
  BY <1>3, CollectStep DEF LeaderboardAnswers, SettingsAnswer
<1>4. CASE Drop
  BY <1>4, EndStep DEF Drop
<1>5. CASE UNCHANGED vars
  BY <1>5, AsideStep DEF vars, request
<1>6. ASSUME NEW u \in Users, Register(u) PROVE RankInv'
  BY <1>6, AsideStep DEF Register, request
<1>. QED
  BY <1>1, <1>2, <1>3, <1>4, <1>5, <1>6, DbListsStep, KeeperNamesStep DEF Next, Ended

LEMMA RankInvariance == Spec => []RankInv
<1>1. Init => RankInv
  BY DEF Init, RankInv, RankTypeOK, BoardOK, ItemsOK, ReportOK, UsageIsTheUsers,
     EverybodyRankedOnce
<1>. QED
  BY <1>1, RankStep, PTL DEF Spec

\* Each entry of the ranking is about a key of the user that it names.
THEOREM UsageIsShownToItsOwner == Spec => []UsageIsTheUsers
<1>1. RankInv => UsageIsTheUsers
  BY DEF RankInv
<1>. QED
  BY <1>1, RankInvariance, PTL

\* Nobody whose key has one id is missing from the ranking, nobody is in it twice,
\* and its ranks are dense and in Keeper's order.
THEOREM RankingsAreComplete == Spec => []EverybodyRankedOnce
<1>1. RankInv => EverybodyRankedOnce
  BY DEF RankInv
<1>. QED
  BY <1>1, RankInvariance, PTL

-----------------------------------------------------------------------------
(* RankingPage *)

\* The tables of names agree.
LEMMA MenusAreTables ==
  ASSUME NEW f \in Fields
  PROVE  /\ \A w \in ToSet(Menu[f]) : /\ as_ref[w] # "absent"
                                     /\ as_ref[w] \in DOMAIN from_str[f] /\ from_str[f][as_ref[w]] = w
                                     /\ rename[w] = as_ref[w]
         /\ \A name \in DOMAIN from_str[f] : from_str[f][name] \in ToSet(Menu[f])
         /\ \A i, j \in DOMAIN Menu[f] : Menu[f][i] = Menu[f][j] => i = j
         /\ Default[f] \in ToSet(Menu[f])
<1>1. CASE f = "period"
  <2>1. Menu[f] = <<"Today", "Yesterday", "CurrentMonth", "PreviousMonth">>
    BY <1>1 DEF Menu
  <2>2. ToSet(Menu[f]) = {"Today", "Yesterday", "CurrentMonth", "PreviousMonth"}
    BY <2>1 DEF ToSet
  <2>3. from_str[f] = [today |-> "Today", yesterday |-> "Yesterday",
                       current_month |-> "CurrentMonth", previous_month |-> "PreviousMonth"]
    BY <1>1 DEF from_str
  <2>4. Default[f] = "Today"
    BY <1>1 DEF Default
  <2>5. \A w \in ToSet(Menu[f]) : as_ref[w] # "absent"
    BY <2>2 DEF as_ref
  <2>6. \A w \in ToSet(Menu[f]) : as_ref[w] \in DOMAIN from_str[f]
    BY <2>2, <2>3 DEF as_ref
  <2>7. \A w \in ToSet(Menu[f]) : from_str[f][as_ref[w]] = w
    BY <2>2, <2>3 DEF as_ref
  <2>8. \A name \in DOMAIN from_str[f] : from_str[f][name] \in ToSet(Menu[f])
    BY <2>2, <2>3
  <2>9. \A i, j \in DOMAIN Menu[f] : Menu[f][i] = Menu[f][j] => i = j
    BY <2>1
  <2>10. \A w \in ToSet(Menu[f]) : rename[w] = as_ref[w]
    BY <2>2 DEF as_ref, rename
  <2>. QED
    BY <2>2, <2>4, <2>5, <2>6, <2>7, <2>8, <2>9, <2>10
<1>2. CASE f = "metric"
  <2>1. Menu[f] = <<"Overall", "TotalTokens", "RequestCount", "CacheReadRate",
                    "TTFTAverage", "LatencyAverage", "PeakTPM", "PeakRPM">>
    BY <1>2 DEF Menu
  <2>2. ToSet(Menu[f]) = {"Overall", "TotalTokens", "RequestCount", "CacheReadRate",
                     "TTFTAverage", "LatencyAverage", "PeakTPM", "PeakRPM"}
    BY <2>1 DEF ToSet
  <2>3. from_str[f] =
          [overall |-> "Overall", total_tokens |-> "TotalTokens",
           request_count |-> "RequestCount", cache_read_rate |-> "CacheReadRate",
           ttft_average |-> "TTFTAverage", latency_average |-> "LatencyAverage",
           peak_tpm |-> "PeakTPM", peak_rpm |-> "PeakRPM"]
    BY <1>2 DEF from_str
  <2>4. Default[f] = "TotalTokens"
    BY <1>2 DEF Default
  <2>5. \A w \in ToSet(Menu[f]) : as_ref[w] # "absent"
    BY <2>2 DEF as_ref
  <2>6. \A w \in ToSet(Menu[f]) : as_ref[w] \in DOMAIN from_str[f]
    BY <2>2, <2>3 DEF as_ref
  <2>7. \A w \in ToSet(Menu[f]) : from_str[f][as_ref[w]] = w
    BY <2>2, <2>3 DEF as_ref
  <2>8. \A name \in DOMAIN from_str[f] : from_str[f][name] \in ToSet(Menu[f])
    BY <2>2, <2>3
  <2>9. \A i, j \in DOMAIN Menu[f] : Menu[f][i] = Menu[f][j] => i = j
    BY <2>1
  <2>10. \A w \in ToSet(Menu[f]) : rename[w] = as_ref[w]
    BY <2>2 DEF as_ref, rename
  <2>. QED
    BY <2>2, <2>4, <2>5, <2>6, <2>7, <2>8, <2>9, <2>10
<1>. QED
  BY <1>1, <1>2 DEF Fields

\* A name that is not refused stands for a label, and a label for itself.
LEMMA ParsedIsLabel ==
  ASSUME NEW f \in Fields
  PROVE  /\ \A name : Parsed(f, name) # Nothing => Parsed(f, name) \in ToSet(Menu[f])
         /\ \A w \in ToSet(Menu[f]) : Parsed(f, as_ref[w]) = w /\ w # Nothing
  BY MenusAreTables, NothingAssumption DEF Parsed

\* A menu with one label selected sends the name of that label.
LEMMA SentIsSelected ==
  ASSUME NEW f \in Fields, NEW w \in ToSet(Menu[f])
  PROVE  Sent(Options(f, w)) = as_ref[w]
<1>1. PICK i \in DOMAIN Menu[f] : Menu[f][i] = w
  BY DEF ToSet
<1>2. i \in Int
  BY DEF Menu, Fields
<1>3. \A j \in DOMAIN Menu[f] : Menu[f][j] = w => j = i
  BY <1>1, MenusAreTables
<1>4. {j \in DOMAIN Options(f, w) : Options(f, w)[j].selected} = {i}
  BY <1>1, <1>3 DEF Options
<1>5. Max({i}) = i
  BY <1>2 DEF Max
<1>6. Sent(Options(f, w)) = Options(f, w)[i].value
  BY <1>4, <1>5 DEF Sent
<1>. QED
  BY <1>1, <1>6 DEF Options

\* A heading and what was picked: a label for each menu.
Choice(c) == c = [f \in Fields |-> c[f]] /\ \A f \in Fields : c[f] \in ToSet(Menu[f])

\* The parts of a ranking's page agree with its heading.
PageOK ==
  IsRanking(page) =>
    /\ Choice(page.heading)
    /\ \A f \in Fields : /\ page.menus[f] = Options(f, page.heading[f])
                         /\ page.asked[f] = as_ref[page.heading[f]]

\* A pick on its way asks for what was picked.
PickOK ==
  wanted # Nothing =>
    /\ Choice(wanted)
    /\ query # Nothing => \A f \in Fields : query[f] = as_ref[wanted[f]]
    /\ query = Nothing => /\ page.status # 400 /\ page # Unreadable
                          /\ IsRanking(page) => page.heading = wanted

TabInv == PageOK /\ PickOK

LEMMA TabInvIsEnough == TabInv => PickIsShown
<1>. SUFFICES ASSUME TabInv, wanted # Nothing, query = Nothing, IsRanking(page)
              PROVE  \A f \in Fields :
                       /\ from_str[f][page.asked[f]] = wanted[f]
                       /\ {o.label : o \in {p \in ToSet(page.menus[f]) : p.selected}} = {wanted[f]}
  BY DEF TabInv, PickOK, PickIsShown
<1>. TAKE f \in Fields
<1>1. /\ page.heading = wanted /\ wanted[f] \in ToSet(Menu[f])
      /\ page.menus[f] = Options(f, wanted[f]) /\ page.asked[f] = as_ref[wanted[f]]
  BY DEF TabInv, PageOK, PickOK, Choice
<1>2. from_str[f][page.asked[f]] = wanted[f]
  BY <1>1, MenusAreTables
<1>3. PICK i \in DOMAIN Menu[f] : Menu[f][i] = wanted[f]
  BY <1>1 DEF ToSet
<1>4. \A j \in DOMAIN Menu[f] :
        /\ Options(f, wanted[f])[j].label = Menu[f][j]
        /\ Options(f, wanted[f])[j].selected <=> Menu[f][j] = wanted[f]
  BY DEF Options
<1>5. DOMAIN Options(f, wanted[f]) = DOMAIN Menu[f]
  BY DEF Options
<1>6. \A o \in ToSet(page.menus[f]) : o.selected => o.label = wanted[f]
  BY <1>1, <1>4, <1>5 DEF ToSet
<1>7. \E o \in ToSet(page.menus[f]) : o.selected /\ o.label = wanted[f]
  BY <1>1, <1>3, <1>4, <1>5 DEF ToSet
<1>8. {o.label : o \in {p \in ToSet(page.menus[f]) : p.selected}} = {wanted[f]}
  BY <1>6, <1>7, Zenon
<1>. QED
  BY <1>2, <1>8

\* An answer that cannot be read is told apart from the other errors.
LEMMA OtherIsNotUnreadable ==
  ASSUME NEW st
  PROVE  Other(st) # Unreadable
<1>1. DOMAIN Other(st) = {"status"} /\ DOMAIN Unreadable = {"status", "unread"}
  BY DEF Other, Unreadable
<1>. QED
  BY <1>1

LEMMA PickStep ==
  ASSUME TabInv, NEW f \in Fields, NEW i \in DOMAIN Menu[f], Pick(f, i)
  PROVE  TabInv'
<1>1. /\ IsRanking(page) /\ Choice(page.heading)
      /\ \A g \in Fields : page.menus[g] = Options(g, page.heading[g])
  BY DEF Pick, TabInv, PageOK
<1>2. /\ query' = [g \in Fields |-> IF g = f THEN page.menus[f][i].value
                                            ELSE Sent(page.menus[g])]
      /\ wanted' = [page.heading EXCEPT ![f] = page.menus[f][i].label]
      /\ UNCHANGED page
  BY DEF Pick
<1>3. page.menus[f][i].value = as_ref[Menu[f][i]] /\ page.menus[f][i].label = Menu[f][i]
  <2>1. \A w : Options(f, w)[i].value = as_ref[Menu[f][i]] /\ Options(f, w)[i].label = Menu[f][i]
    BY DEF Options
  <2>. QED
    BY <1>1, <2>1
<1>4. \A g \in Fields : wanted'[g] = IF g = f THEN Menu[f][i] ELSE page.heading[g]
  BY <1>1, <1>2, <1>3 DEF Choice
<1>5. Choice(wanted')
  BY <1>1, <1>2, <1>4 DEF Choice, ToSet
<1>6. \A g \in Fields : query'[g] = as_ref[wanted'[g]]
  BY <1>1, <1>2, <1>3, <1>4, SentIsSelected DEF Choice
<1>7. query' \in Query
  <2>1. \A g \in Fields : query'[g] \in Given(g)
    BY <1>5, <1>6, MenusAreTables DEF Choice, Given
  <2>2. DOMAIN query' = {"period", "metric"} /\ query' = [g \in {"period", "metric"} |-> query'[g]]
    BY <1>2 DEF Fields
  <2>. QED
    BY <2>1, <2>2 DEF Query, Fields
<1>8. query' # Nothing
  BY <1>7, NothingAssumption
<1>9. PageOK'
  BY <1>2 DEF TabInv, PageOK, IsRanking, Choice
<1>. QED
  BY <1>5, <1>6, <1>8, <1>9 DEF TabInv, PickOK, Choice

LEMMA AnswerStep ==
  ASSUME TabInv, NEW reported, NEW up, Answer(reported, up)
  PROVE  TabInv'
<1>. DEFINE chosen == [f \in Fields |-> Parsed(f, query[f])]
<1>1. /\ query # Nothing /\ Nothing \notin {chosen.period, chosen.metric}
      /\ page' = IF Readable([f \in Fields |-> as_ref[chosen[f]]])
                 THEN RankingTemplate(chosen, reported, up) ELSE Unreadable
      /\ query' = Nothing /\ UNCHANGED wanted
  BY DEF Answer
<1>2. Choice(chosen)
  <2>1. \A f \in Fields : chosen[f] # Nothing
    BY <1>1 DEF Fields
  <2>. QED
    BY <2>1, ParsedIsLabel DEF Choice
<1>3. wanted # Nothing => chosen = wanted
  <2>. SUFFICES ASSUME wanted # Nothing PROVE chosen = wanted
    OBVIOUS
  <2>1. Choice(wanted) /\ \A f \in Fields : query[f] = as_ref[wanted[f]]
    BY <1>1 DEF TabInv, PickOK
  <2>2. \A f \in Fields : chosen[f] = wanted[f]
    BY <2>1, ParsedIsLabel DEF Choice
  <2>. QED
    BY <2>1, <2>2 DEF Choice
<1>. HIDE DEF chosen
<1>4. /\ page'.status = 200 /\ page'.heading = chosen
      /\ \A f \in Fields : /\ page'.menus[f] = Options(f, chosen[f])
                           /\ page'.asked[f] = as_ref[chosen[f]]
  <2>1. Readable([f \in Fields |-> as_ref[chosen[f]]])
    BY <1>2, MenusAreTables DEF Readable, Choice
  <2>. QED
    BY <1>1, <2>1 DEF RankingTemplate
<1>5. PageOK'
  BY <1>2, <1>4 DEF PageOK, Choice
<1>6. PickOK'
  BY <1>1, <1>2, <1>3, <1>4 DEF PickOK, TabInv, Choice, Unreadable
<1>. QED
  BY <1>5, <1>6 DEF TabInv

LEMMA TabStep ==
  ASSUME TabInv, [TabNext]_tabVars
  PROVE  TabInv'
<1>. USE DEF TabInv, PageOK, PickOK, IsRanking, Choice
<1>1. ASSUME NEW q \in Query, Open(q) PROVE TabInv'
  BY <1>1 DEF Open
<1>2. ASSUME NEW code \in {303, 400, 500, 502}, page' = Other(code), query' = Nothing,
             UNCHANGED wanted, code = 400 => wanted = Nothing
      PROVE  TabInv'
  <2>1. page'.status = code /\ page' # Unreadable
    BY <1>2, OtherIsNotUnreadable DEF Other
  <2>. QED
    BY <1>2, <2>1
<1>3. CASE BadRequest
  <2>1. wanted = Nothing
    <3>. SUFFICES ASSUME wanted # Nothing PROVE FALSE
      OBVIOUS
    <3>1. \A f \in Fields : Parsed(f, query[f]) = wanted[f] /\ wanted[f] # Nothing
      BY <1>3, ParsedIsLabel DEF BadRequest
    <3>. QED
      BY <1>3, <3>1 DEF BadRequest
  <2>. QED
    BY <1>2, <1>3, <2>1 DEF BadRequest
<1>4. ASSUME NEW code \in {303, 500, 502}, Fail(code) PROVE TabInv'
  BY <1>2, <1>4 DEF Fail
<1>5. CASE UNCHANGED tabVars
  BY <1>5 DEF tabVars
<1>. QED
  BY <1>1, <1>3, <1>4, <1>5, PickStep, AnswerStep DEF TabNext

\* A pick comes out as it went in, through the form, the query, Keeper and the
\* menus of the next page.
THEOREM PicksAreShown == TabSpec => []PickIsShown
<1>1. TabInit => TabInv
  BY DEF TabInit, TabInv, PageOK, PickOK, IsRanking, Other
<1>. QED
  BY <1>1, TabStep, TabInvIsEnough, PTL DEF TabSpec

-----------------------------------------------------------------------------
(* The numbers of the ranking page *)

\* Of the elements of a set, one has the least rank.
LEMMA LeastRank ==
  ASSUME NEW D, NEW rank \in [D -> Nat], NEW T \in SUBSET D, T # {}
  PROVE  \E d \in T : \A e \in T : ~(rank[e] < rank[d])
<1>. DEFINE R == {ss \in Nat \X Nat : ss[1] < ss[2]}
            Ranks == {rank[d] : d \in T}
<1>1. IsWellFoundedOn(R, Nat)
  BY NatLessThanWellFounded, Zenon DEF OpToRel
<1>2. Ranks \subseteq Nat /\ Ranks # {}
  OBVIOUS
<1>3. \E m \in Ranks : \A n \in Ranks : <<n, m>> \notin R
  <2>. HIDE DEF R, Ranks
  <2>. QED
    BY <1>1, <1>2, WFMin
<1>4. \E m \in Ranks : \A n \in Ranks : ~(n < m)
  BY <1>2, <1>3
<1>. QED
  BY <1>4

\* A definition by recursion: where it starts, and the element before each other,
\* which ranks lower.
Recursion(D, V, rank, B, pred, ini, step) ==
  /\ rank \in [D -> Nat] /\ B \in SUBSET D /\ pred \in [D \ B -> D]
  /\ \A d \in D \ B : rank[pred[d]] < rank[d]
  /\ ini \in [B -> V] /\ step \in [(D \ B) \X V -> V]

\* It defines a function.  Of the sets of pairs that contain the starts and are
\* closed under step, the least is one; an element of least rank would be the
\* first without a value, or with two.
LEMMA RecursionExists ==
  ASSUME NEW D, NEW V, NEW rank, NEW B, NEW pred, NEW ini, NEW step,
         Recursion(D, V, rank, B, pred, ini, step)
  PROVE  \E f \in [D -> V] :
           /\ \A d \in B : f[d] = ini[d]
           /\ \A d \in D \ B : f[d] = step[<<d, f[pred[d]]>>]
<1>. DEFINE Closed(U) == /\ \A d \in B : <<d, ini[d]>> \in U
                         /\ \A d \in D \ B, v \in V :
                              <<pred[d], v>> \in U => <<d, step[<<d, v>>]>> \in U
            G == {p \in D \X V : \A U \in SUBSET (D \X V) : Closed(U) => p \in U}
<1>0. /\ rank \in [D -> Nat] /\ B \in SUBSET D /\ pred \in [D \ B -> D]
      /\ \A d \in D \ B : rank[pred[d]] < rank[d]
      /\ ini \in [B -> V] /\ step \in [(D \ B) \X V -> V]
  BY DEF Recursion
<1>. USE <1>0
<1>1. Closed(G)
  <2>1. \A d \in B : <<d, ini[d]>> \in G
    OBVIOUS
  <2>2. ASSUME NEW d \in D \ B, NEW v \in V, <<pred[d], v>> \in G
        PROVE  <<d, step[<<d, v>>]>> \in G
    <3>1. <<d, step[<<d, v>>]>> \in D \X V
      OBVIOUS
    <3>. QED
      BY <2>2, <3>1
  <2>. QED
    BY <2>1, <2>2
<1>2. ASSUME NEW T \in SUBSET D, T # {}
      PROVE  \E d \in T : d \notin B => pred[d] \notin T
  BY <1>2, LeastRank
<1>3. \A d \in D : \E v \in V : <<d, v>> \in G
  <2>. DEFINE T == {d \in D : ~ \E v \in V : <<d, v>> \in G}
  <2>. SUFFICES ASSUME T # {} PROVE FALSE
    OBVIOUS
  <2>1. PICK d \in T : d \notin B => pred[d] \notin T
    BY <1>2
  <2>2. CASE d \in B
    BY <2>1, <2>2, <1>1
  <2>3. CASE d \notin B
    <3>1. pred[d] \in D /\ pred[d] \notin T
      BY <2>1, <2>3
    <3>2. PICK v \in V : <<pred[d], v>> \in G
      BY <3>1
    <3>3. <<d, step[<<d, v>>]>> \in G /\ step[<<d, v>>] \in V
      BY <1>1, <3>2, <2>3
    <3>. QED
      BY <3>3, <2>1
  <2>. QED
    BY <2>2, <2>3
<1>4. \A d \in D : \A v, w \in V : <<d, v>> \in G /\ <<d, w>> \in G => v = w
  <2>. DEFINE T == {d \in D : \E v, w \in V : <<d, v>> \in G /\ <<d, w>> \in G /\ v # w}
  <2>. SUFFICES ASSUME T # {} PROVE FALSE
    OBVIOUS
  <2>0. T \in SUBSET D
    OBVIOUS
  <2>1. PICK d \in T : d \notin B => pred[d] \notin T
    <3>. HIDE DEF T
    <3>. QED
      BY <1>2, <2>0
  <2>2. ASSUME NEW x \in V, Closed({p \in G : p[1] = d => p[2] = x}) PROVE FALSE
    <3>. DEFINE U == {p \in G : p[1] = d => p[2] = x}
    <3>1. U \in SUBSET (D \X V) /\ Closed(U)
      BY <2>2
    <3>2. \A p \in G : p \in U
      <4>. HIDE DEF U, Closed
      <4>. QED
        BY <3>1
    <3>3. \A v \in V : <<d, v>> \in G => v = x
      BY <3>2
    <3>. QED
      BY <3>3, <2>1
  <2>3. CASE d \in B
    <3>1. Closed({p \in G : p[1] = d => p[2] = ini[d]})
      BY <1>1, <2>3
    <3>. QED
      BY <3>1, <2>2, <2>3
  <2>4. CASE d \notin B
    <3>1. pred[d] \in D /\ pred[d] \notin T
      BY <2>1, <2>4
    <3>2. PICK u \in V : <<pred[d], u>> \in G
      BY <3>1, <1>3
    <3>3. \A v \in V : <<pred[d], v>> \in G => v = u
      BY <3>1, <3>2
    <3>4. Closed({p \in G : p[1] = d => p[2] = step[<<d, u>>]})
      BY <1>1, <3>3, <2>4
    <3>5. step[<<d, u>>] \in V
      BY <2>4
    <3>. QED
      BY <3>4, <3>5, <2>2
  <2>. QED
    BY <2>3, <2>4
<1>. DEFINE f == [d \in D |-> CHOOSE v \in V : <<d, v>> \in G]
<1>5. \A d \in D : f[d] \in V /\ <<d, f[d]>> \in G
  BY <1>3
<1>6. f \in [D -> V]
  BY <1>5
<1>7. \A d \in B : f[d] = ini[d]
  <2>1. \A d \in B : ini[d] \in V /\ <<d, ini[d]>> \in G
    BY <1>1
  <2>. HIDE DEF f, G
  <2>. QED
    BY <2>1, <1>4, <1>5
<1>8. \A d \in D \ B : f[d] = step[<<d, f[pred[d]]>>]
  <2>. TAKE d \in D \ B
  <2>1. pred[d] \in D /\ f[pred[d]] \in V /\ <<pred[d], f[pred[d]]>> \in G
    BY <1>5
  <2>2. <<d, step[<<d, f[pred[d]]>>]>> \in G /\ step[<<d, f[pred[d]]>>] \in V
    BY <1>1, <2>1
  <2>. HIDE DEF f, G
  <2>. QED
    BY <2>2, <1>4, <1>5
<1>. QED
  BY <1>6, <1>7, <1>8

\* So Digits is what its definition says ...
LEMMA DigitsEquation ==
  /\ Digits = [n \in Nat |-> Digits[n]]
  /\ \A n \in Nat : n < 10 => Digits[n] = <<n>>
  /\ \A n \in Nat : ~(n < 10) => Digits[n] = Append(Digits[n \div 10], n % 10)
<1>. DEFINE B == 0..9
            ini == [n \in B |-> <<n>>]
            pred == [n \in Nat \ B |-> n \div 10]
            rank == [n \in Nat |-> n]
            step == [p \in (Nat \ B) \X Seq(0..9) |-> Append(p[2], p[1] % 10)]
            S == Seq(0..9)
<1>1. Recursion(Nat, S, rank, B, pred, ini, step)
  BY DEF Recursion
<1>2. /\ B \subseteq Nat /\ \A n \in Nat : n \in B <=> n < 10
      /\ \A n \in B : ini[n] = <<n>>
      /\ \A n \in Nat \ B : pred[n] = n \div 10 /\ n \div 10 \in Nat
      /\ \A n \in Nat \ B, s \in S : step[<<n, s>>] = Append(s, n % 10)
  OBVIOUS
<1>. HIDE DEF B, ini, pred, rank, step, S
<1>2b. PICK f \in [Nat -> S] : /\ \A n \in B : f[n] = ini[n]
                              /\ \A n \in Nat \ B : f[n] = step[<<n, f[pred[n]]>>]
  BY <1>1, RecursionExists
<1>3. \A n \in Nat : n < 10 => f[n] = <<n>>
  BY <1>2b, <1>2
<1>4. \A n \in Nat : ~(n < 10) => f[n] = Append(f[n \div 10], n % 10)
  BY <1>2b, <1>2
<1>5. ASSUME NEW n \in Nat
      PROVE  f[n] = IF n < 10 THEN <<n>> ELSE Append(f[n \div 10], n % 10)
  BY <1>3, <1>4, Zenon
<1>6. f = [n \in Nat |-> IF n < 10 THEN <<n>> ELSE Append(f[n \div 10], n % 10)]
  <2>1. f = [n \in Nat |-> f[n]]
    OBVIOUS
  <2>. QED
    BY <1>5, <2>1, Zenon
<1>7. Digits = [n \in Nat |-> IF n < 10 THEN <<n>> ELSE Append(Digits[n \div 10], n % 10)]
  BY <1>6, Zenon DEF Digits
<1>. QED
  BY <1>7, Zenon

\* No smaller counterexample.
LEMMA LeastNumber ==
  ASSUME NEW T \in SUBSET Nat, T # {}
  PROVE  \E n \in T : \A m \in T : ~(m < n)
<1>. DEFINE rank == [n \in Nat |-> n]
<1>1. rank \in [Nat -> Nat] /\ \A n \in Nat : rank[n] = n
  OBVIOUS
<1>. HIDE DEF rank
<1>2. \E n \in T : \A m \in T : ~(rank[m] < rank[n])
  BY <1>1, LeastRank
<1>. QED
  BY <1>1, <1>2

\* ... and returns digits.
LEMMA DigitsType == Digits \in [Nat -> Seq(0..9) \ {<<>>}]
<1>. DEFINE T == {n \in Nat : Digits[n] \notin Seq(0..9) \ {<<>>}}
<1>1. T = {}
  <2>. SUFFICES ASSUME T # {} PROVE FALSE
    OBVIOUS
  <2>0. T \in SUBSET Nat
    OBVIOUS
  <2>1. PICK n \in T : \A m \in T : ~(m < n)
    <3>. HIDE DEF T
    <3>. QED
      BY <2>0, LeastNumber
  <2>2. n \in Nat
    OBVIOUS
  <2>3. CASE n < 10
    <3>1. Digits[n] = <<n>> /\ n \in 0..9
      BY <2>2, <2>3, DigitsEquation
    <3>2. <<n>> \in Seq(0..9) /\ <<n>> # <<>>
      BY <3>1
    <3>. QED
      BY <3>1, <3>2
  <2>4. CASE ~(n < 10)
    <3>1. n \div 10 \in Nat /\ n \div 10 < n /\ n % 10 \in 0..9
      BY <2>2, <2>4
    <3>2. Digits[n \div 10] \in Seq(0..9)
      BY <2>1, <3>1
    <3>3. Digits[n] = Append(Digits[n \div 10], n % 10)
      BY <2>2, <2>4, DigitsEquation
    <3>4. Append(Digits[n \div 10], n % 10) \in Seq(0..9) \ {<<>>}
      BY <3>1, <3>2
    <3>. QED
      BY <3>3, <3>4
  <2>. QED
    BY <2>3, <2>4
<1>2. \A n \in Nat : Digits[n] \in Seq(0..9) \ {<<>>}
  BY <1>1
<1>. QED
  BY <1>2, DigitsEquation, Zenon
\* Front and Last take apart what Append puts together.
LEMMA FrontAndLast ==
  ASSUME NEW E, NEW s \in Seq(E)
  PROVE  /\ s # <<>> => Front(s) \in Seq(E) /\ Len(Front(s)) = Len(s) - 1 /\ Last(s) \in E
         /\ \A e \in E : /\ Append(s, e) \in Seq(E) \ {<<>>}
                         /\ Front(Append(s, e)) = s /\ Last(Append(s, e)) = e
<1>1. ASSUME s # <<>>
      PROVE  Front(s) \in Seq(E) /\ Len(Front(s)) = Len(s) - 1 /\ Last(s) \in E
  <2>1. Len(s) \in Nat \ {0}
    BY <1>1, EmptySeq, LenProperties
  <2>. QED
    <3>1. \A i \in 1..Len(s) : s[i] \in E
      BY ElementOfSeq
    <3>2. Len(s) \in 1..Len(s) /\ Len(s) - 1 \in Nat /\ \A i \in 1..(Len(s) - 1) : s[i] \in E
      BY <2>1, <3>1
    <3>3. ASSUME NEW n \in Nat, \A i \in 1..n : s[i] \in E
          PROVE  SubSeq(s, 1, n) \in Seq(E) /\ Len(SubSeq(s, 1, n)) = n
      <4>1. Len(SubSeq(s, 1, n)) = IF 1 <= n THEN n - 1 + 1 ELSE 0
        BY <3>3, SubSeqProperties
      <4>. QED
        BY <3>3, <4>1, SubSeqProperties
    <3>. QED
      BY <3>1, <3>2, <3>3 DEF Front, Last
<1>2. ASSUME NEW e \in E
      PROVE  /\ Append(s, e) \in Seq(E) \ {<<>>}
             /\ Front(Append(s, e)) = s /\ Last(Append(s, e)) = e
  <2>1. /\ Append(s, e) \in Seq(E) /\ Append(s, e) # <<>>
        /\ Len(Append(s, e)) = Len(s) + 1 /\ Len(s) \in Nat
        /\ \A i \in 1..Len(s) : Append(s, e)[i] = s[i]
        /\ Append(s, e)[Len(s) + 1] = e
    BY AppendProperties, LenProperties
  <2>2. SubSeq(Append(s, e), 1, Len(s)) = s
    <3>0. SubSeq(Append(s, e), 1, Len(s)) \in Seq(E)
      <4>1. \A i \in 1..Len(s) : Append(s, e)[i] \in E
        BY <2>1, ElementOfSeq
      <4>. QED
        BY <2>1, <4>1, SubSeqProperties
    <3>1. /\ Len(SubSeq(Append(s, e), 1, Len(s))) = Len(s)
          /\ \A i \in 1..Len(s) : SubSeq(Append(s, e), 1, Len(s))[i] = Append(s, e)[i]
      BY <2>1
    <3>. QED
      BY <2>1, <3>0, <3>1, SeqEqual
  <2>. QED
    BY <2>1, <2>2 DEF Front, Last
<1>. QED
  BY <1>1, <1>2

\* So Value, too, is what its definition says.
LEMMA ValueEquation ==
  /\ Value = [s \in Seq(0..9) |-> Value[s]]
  /\ Value[<<>>] = 0
  /\ \A s \in Seq(0..9), d \in 0..9 : Value[Append(s, d)] = 10 * Value[s] + d
<1>. DEFINE D == 0..9
            S == Seq(D)
            B == {<<>>}
            ini == [s \in B |-> 0]
            pred == [s \in S \ B |-> Front(s)]
            rank == [s \in S |-> Len(s)]
            step == [p \in (S \ B) \X Nat |-> 10 * p[2] + Last(p[1])]
<1>1. \A s \in S \ B : Front(s) \in S /\ Len(Front(s)) < Len(s) /\ Last(s) \in D
  <2>. TAKE s \in S \ B
  <2>1. Front(s) \in Seq(D) /\ Len(Front(s)) = Len(s) - 1 /\ Last(s) \in D
    <3>. HIDE DEF D
    <3>. QED
      BY FrontAndLast
  <2>2. Len(s) \in Nat
    BY LenProperties
  <2>. QED
    BY <2>1, <2>2
<1>2. /\ rank \in [S -> Nat] /\ B \in SUBSET S /\ pred \in [S \ B -> S]
      /\ ini \in [B -> Nat]
  <2>1. <<>> \in S /\ \A s \in S : Len(s) \in Nat
    BY EmptySeq, LenProperties
  <2>. HIDE DEF S, D
  <2>. QED
    BY <1>1, <2>1
<1>3. step \in [(S \ B) \X Nat -> Nat]
  <2>1. \A x \in S \ B, y \in Nat : 10 * y + Last(x) \in Nat
    BY <1>1
  <2>. HIDE DEF S, B
  <2>. QED
    BY <2>1
<1>4. \A s \in S \ B : rank[pred[s]] < rank[s]
  <2>. HIDE DEF S, B, D
  <2>. QED
    BY <1>1
<1>5. Recursion(S, Nat, rank, B, pred, ini, step)
  <2>. HIDE DEF S, rank, B, pred, ini, step
  <2>. QED
    BY <1>2, <1>3, <1>4 DEF Recursion
<1>6. /\ \A s \in B : ini[s] = 0
      /\ \A s \in S \ B : pred[s] = Front(s)
      /\ \A s \in S \ B, n \in Nat : step[<<s, n>>] = 10 * n + Last(s)
  <2>. HIDE DEF S
  <2>. QED
    OBVIOUS
<1>. HIDE DEF S, rank, B, pred, ini, step
<1>7. PICK f \in [S -> Nat] : /\ \A s \in B : f[s] = ini[s]
                              /\ \A s \in S \ B : f[s] = step[<<s, f[pred[s]]>>]
  BY <1>5, RecursionExists
<1>8. \A s \in S : s \in B <=> s = <<>>
  BY DEF B
<1>9. ASSUME NEW s \in S
      PROVE  f[s] = IF s = <<>> THEN 0 ELSE 10 * f[Front(s)] + Last(s)
  <2>1. CASE s \in B
    BY <1>6, <1>7, <1>8, <2>1
  <2>2. CASE s \notin B
    <3>1. f[Front(s)] \in Nat
      BY <1>1, <2>2 DEF B, S
    <3>. QED
      BY <1>6, <1>7, <1>8, <2>2, <3>1
  <2>. QED
    BY <2>1, <2>2
<1>10. f = [s \in S |-> IF s = <<>> THEN 0 ELSE 10 * f[Front(s)] + Last(s)]
  BY <1>9
<1>11. Value = [s \in S |-> IF s = <<>> THEN 0 ELSE 10 * Value[Front(s)] + Last(s)]
  <2>. USE DEF S, D
  <2>. QED
    BY <1>10, Zenon DEF Value
<1>12. Value[<<>>] = 0
  BY <1>11, <1>2, Zenon DEF B
<1>13. \A s \in S, d \in D : Value[Append(s, d)] = 10 * Value[s] + d
  <2>. TAKE s \in S, d \in D
  <2>1. /\ Append(s, d) \in S /\ Append(s, d) # <<>>
        /\ Front(Append(s, d)) = s /\ Last(Append(s, d)) = d
    <3>. HIDE DEF D
    <3>. QED
      BY FrontAndLast DEF S
  <2>2. Value[Append(s, d)] = IF Append(s, d) = <<>> THEN 0
                              ELSE 10 * Value[Front(Append(s, d))] + Last(Append(s, d))
    BY <1>11, <2>1, Zenon
  <2>. HIDE DEF S
  <2>. QED
    BY <2>1, <2>2, Zenon
<1>14. Value = [s \in S |-> Value[s]]
  BY <1>11, Zenon
<1>. QED
  BY <1>12, <1>13, <1>14 DEF S, D
\* Digits are read back ...
LEMMA DigitsReadBack == \A n \in Nat : Value[Digits[n]] = n
<1>. DEFINE T == {n \in Nat : Value[Digits[n]] # n}
<1>. SUFFICES ASSUME T # {} PROVE FALSE
  OBVIOUS
<1>0. T \in SUBSET Nat
  OBVIOUS
<1>1. PICK n \in T : \A m \in T : ~(m < n)
  <2>. HIDE DEF T
  <2>. QED
    BY <1>0, LeastNumber
<1>2. n \in Nat
  OBVIOUS
<1>3. CASE n < 10
  <2>1. n \in 0..9 /\ Digits[n] = <<n>> /\ <<>> \in Seq(0..9) /\ <<n>> = Append(<<>>, n)
    BY <1>2, <1>3, DigitsEquation
  <2>2. Value[Append(<<>>, n)] = 10 * Value[<<>>] + n
    BY <2>1, ValueEquation
  <2>3. Value[<<>>] = 0
    BY ValueEquation
  <2>4. Value[Digits[n]] = n
    <3>. HIDE DEF T
    <3>. QED
      BY <1>2, <2>1, <2>2, <2>3
  <2>. QED
    BY <2>4
<1>4. CASE ~(n < 10)
  <2>1. n \div 10 \in Nat /\ n \div 10 < n /\ n % 10 \in 0..9 /\ n = 10 * (n \div 10) + (n % 10)
    BY <1>2, <1>4
  <2>2. Digits[n \div 10] \in Seq(0..9) /\ Digits[n] = Append(Digits[n \div 10], n % 10)
    BY <1>2, <1>4, <2>1, DigitsType, DigitsEquation
  <2>3. Value[Digits[n \div 10]] = n \div 10
    BY <1>1, <2>1
  <2>4. Value[Digits[n]] = 10 * Value[Digits[n \div 10]] + (n % 10)
    <3>. HIDE DEF T
    <3>. QED
      BY <2>1, <2>2, ValueEquation
  <2>. QED
    BY <2>1, <2>3, <2>4
<1>. QED
  BY <1>3, <1>4

\* ... and the commas are where the reader expects them.
LEMMA CommasInThrees ==
  ASSUME NEW digits, Len(digits) \in Nat \ {0}, NEW text,
         text.digits = digits, text.commas = Commas(digits)
  PROVE  InThrees(text)
<1>. DEFINE n == Len(digits)
            ends == Commas(digits) \cup {n + 1}
<1>1. /\ n \in Nat \ {0}
      /\ \A i \in Int : i \in Commas(digits) <=> 2 <= i /\ i <= n /\ (n - (i - 1)) % 3 = 0
      /\ Commas(digits) \subseteq 2..n
  BY DEF Commas
<1>. HIDE DEF n
<1>2. ends \cap 2..4 # {}
  <2>1. CASE n <= 3
    BY <1>1, <2>1
  <2>2. CASE n > 3
    <3>. DEFINE i == 2 + ((n - 1) % 3)
    <3>1. i \in 2..4 /\ i <= n /\ (n - (i - 1)) % 3 = 0
      BY <1>1, <2>2
    <3>. QED
      BY <1>1, <3>1
  <2>. QED
    BY <1>1, <2>1, <2>2
<1>3. ASSUME NEW c \in Commas(digits)
      PROVE  ends \cap (c + 1)..(c + 3) = {c + 3}
  <2>1. c \in Int /\ 2 <= c /\ c <= n /\ (n - (c - 1)) % 3 = 0
    BY <1>1, <1>3
  <2>2. c + 3 <= n + 1
    BY <1>1, <2>1
  <2>3. c + 3 <= n => (n - (c + 3 - 1)) % 3 = 0
    BY <1>1, <2>1
  <2>4. c + 3 \in ends
    BY <1>1, <2>1, <2>2, <2>3
  <2>5. (n - (c + 1 - 1)) % 3 # 0 /\ (n - (c + 2 - 1)) % 3 # 0
    BY <1>1, <2>1
  <2>6. c + 1 \notin ends /\ c + 2 \notin ends
    BY <1>1, <2>1, <2>2, <2>5
  <2>. QED
    BY <2>1, <2>4, <2>6
<1>. QED
  BY <1>1, <1>2, <1>3 DEF InThrees, n


\* An integer is shown in full.
LEMMA IntegerShows ==
  ASSUME NEW v \in Int, NEW metric, PerUnit[metric] = <<1, 1>>
  PROVE  Shows(format_integer(v), v, metric)
<1>. DEFINE text == format_integer(v)
            digits == Digits[Abs(v)]
<1>1. Abs(v) \in Nat
  BY DEF Abs
<1>2. Value[digits] = Abs(v) /\ Len(digits) \in Nat \ {0}
  <2>1. digits \in Seq(0..9) /\ digits # <<>>
    BY <1>1, DigitsType
  <2>2. Len(digits) \in Nat \ {0}
    <3>. HIDE DEF digits
    <3>. QED
      BY <2>1, EmptySeq, LenProperties
  <2>. QED
    BY <1>1, <2>2, DigitsReadBack
<1>3. /\ text.sign <=> v < 0
      /\ text.digits = digits
      /\ text.commas = Commas(digits) /\ text.units = 1
  BY DEF format_integer
<1>. HIDE DEF text, digits
<1>4. Read(text) = v
  <2>1. CASE v < 0
    BY <1>2, <1>3, <2>1 DEF Read, Abs
  <2>2. CASE ~(v < 0)
    BY <1>2, <1>3, <2>2 DEF Read, Abs
  <2>. QED
    BY <2>1, <2>2
<1>5. InThrees(text)
  BY <1>2, <1>3, CommasInThrees
<1>6. Abs(v * 1 - v * 1) = 0
  BY DEF Abs
<1>. QED
  BY <1>4, <1>5, <1>6 DEF Shows, text

\* The number whose digits stand for a quotient.
Nearest(v, by, up) ==
  (2 * Abs(v) * by.units + by.divisor - (IF up THEN 0 ELSE 1)) \div (2 * by.divisor)

LEMMA FixedReads ==
  ASSUME NEW v \in Int, NEW up, NEW by, Nearest(v, by, up) \in Nat
  PROVE  /\ Fixed(v, by, up).units = by.units
         /\ v < 0 => Read(Fixed(v, by, up)) = -Nearest(v, by, up)
         /\ ~(v < 0) => Read(Fixed(v, by, up)) = Nearest(v, by, up)
<1>. DEFINE text == Fixed(v, by, up)
            q == Nearest(v, by, up)
<1>1. /\ text.sign <=> v < 0
      /\ text.digits = Digits[q] /\ text.units = by.units
  BY DEF Fixed, Nearest
<1>2. Value[Digits[q]] = q
  <2>1. q \in Nat
    OBVIOUS
  <2>. HIDE DEF q
  <2>. QED
    BY <2>1, DigitsReadBack
<1>. HIDE DEF text, q
<1>3. Read(text) = IF text.sign THEN -q ELSE q
  BY <1>1, <1>2, Zenon DEF Read
<1>. QED
  BY <1>1, <1>3 DEF text, q

\* A quotient that is rounded to nearest is off by half a unit of its last
\* place at most.
LEMMA FixedShows ==
  ASSUME NEW v \in Int, NEW up \in BOOLEAN, NEW metric \in DOMAIN Divided
  PROVE  Shows(Fixed(v, Divided[metric], up), v, metric)
<1>. DEFINE e == IF up THEN 0 ELSE 1
            q == Nearest(v, Divided[metric], up)
            text == Fixed(v, Divided[metric], up)
            per == PerUnit[metric]
<1>1. Abs(v) \in Nat /\ e \in 0..1
  BY DEF Abs
<1>2. CASE metric = "CacheReadRate"
  <2>1. Divided[metric].divisor = 10000 /\ Divided[metric].units = 100 /\ per = <<1, 100>>
    BY <1>2 DEF Divided, PerUnit
  <2>2. q = (200 * Abs(v) + 10000 - e) \div 20000
    BY <1>1, <2>1 DEF Nearest
  <2>. HIDE DEF e
  <2>3. q \in Nat /\ -100 <= 200 * q - 2 * Abs(v) /\ 200 * q - 2 * Abs(v) <= 100
    BY <1>1, <2>2
  <2>4. text.units = 100 /\ (v < 0 => Read(text) = -q) /\ (~(v < 0) => Read(text) = q)
    <3>1. Nearest(v, Divided[metric], up) \in Nat
      BY <2>3
    <3>. QED
      BY <2>1, <3>1, FixedReads
  <2>. HIDE DEF q, text, per
  <2>5. 2 * Abs(Read(text) * 100 - v * 1) <= 100
    BY <2>3, <2>4 DEF Abs
  <2>. QED
    BY <2>1, <2>4, <2>5 DEF Shows, text, per
<1>3. CASE metric \in {"TTFTAverage", "LatencyAverage"}
  <2>1. Divided[metric].divisor = 1000 /\ Divided[metric].units = 1000 /\ per = <<1, 1>>
    BY <1>3 DEF Divided, PerUnit
  <2>2. q = (2000 * Abs(v) + 1000 - e) \div 2000
    BY <1>1, <2>1 DEF Nearest
  <2>. HIDE DEF e
  <2>3. q = Abs(v)
    BY <1>1, <2>2
  <2>4. text.units = 1000 /\ (v < 0 => Read(text) = -q) /\ (~(v < 0) => Read(text) = q)
    <3>1. Nearest(v, Divided[metric], up) \in Nat
      BY <1>1, <2>3
    <3>. QED
      BY <2>1, <3>1, FixedReads
  <2>. HIDE DEF q, text, per
  <2>5. 2 * Abs(Read(text) * 1 - v * 1) <= 1
    BY <2>3, <2>4 DEF Abs
  <2>. QED
    BY <2>1, <2>4, <2>5 DEF Shows, text, per
<1>4. CASE metric \in {"PeakTPM", "PeakRPM"}
  <2>1. Divided[metric].divisor = 5 /\ Divided[metric].units = 100 /\ per = <<20, 1>>
    BY <1>4 DEF Divided, PerUnit
  <2>2. q = (200 * Abs(v) + 5 - e) \div 10
    BY <1>1, <2>1 DEF Nearest
  <2>. HIDE DEF e
  <2>3. q = 20 * Abs(v)
    BY <1>1, <2>2
  <2>4. text.units = 100 /\ (v < 0 => Read(text) = -q) /\ (~(v < 0) => Read(text) = q)
    <3>1. Nearest(v, Divided[metric], up) \in Nat
      BY <1>1, <2>3
    <3>. QED
      BY <2>1, <3>1, FixedReads
  <2>. HIDE DEF q, text, per
  <2>5. 2 * Abs(Read(text) * 1 - v * 20) <= 1
    BY <2>3, <2>4 DEF Abs
  <2>. QED
    BY <2>1, <2>4, <2>5 DEF Shows, text, per
<1>. QED
  BY <1>2, <1>3, <1>4 DEF Divided

\* Whatever the metric.
LEMMA MetricShows ==
  ASSUME NEW v \in Int, NEW up \in BOOLEAN, NEW metric \in ToSet(Menu["metric"])
  PROVE  Shows(format_metric(v, metric, up), v, metric)
<1>1. CASE metric \in DOMAIN Divided
  BY <1>1, FixedShows DEF format_metric
<1>2. CASE metric \notin DOMAIN Divided
  <2>1. metric \in {"Overall", "TotalTokens", "RequestCount"}
    BY <1>2 DEF Divided, Menu, ToSet
  <2>2. PerUnit[metric] = <<1, 1>>
    BY <2>1 DEF PerUnit
  <2>. QED
    BY <1>2, <2>2, IntegerShows DEF format_metric
<1>. QED
  BY <1>1, <1>2

\* What Keeper reports are integers, those behind a score too.
LEMMA ReportsAreIntegers ==
  ASSUME NEW r \in Reports, r # Nothing
  PROVE  /\ r.value \in Int
         /\ r.metrics # Nothing => \A m \in ToSet(Components) : r.metrics[m] \in Int
<1>1. \A v \in Values : v \in Int
  BY ValuesAssumption
<1>2. \A m \in ToSet(Components) :
        (CHOOSE i \in DOMAIN Components : Components[i] = m) \in Int
  <2>. TAKE m \in ToSet(Components)
  <2>1. \E i \in DOMAIN Components : Components[i] = m
    BY DEF ToSet
  <2>2. DOMAIN Components = 1..7
    BY DEF Components
  <2>. QED
    BY <2>1, <2>2
<1>. QED
  BY <1>1, <1>2 DEF Reports

\* A page shows the numbers that it was made from.
LEMMA TemplateShows ==
  ASSUME NEW chosen, chosen.metric \in ToSet(Menu["metric"]),
         NEW r \in Reports, NEW up \in BOOLEAN, page' = RankingTemplate(chosen, r, up)
  PROVE  NumbersReadBack'
<1>1. /\ page'.heading = chosen /\ page'.reported = r
      /\ page'.entries = IF r = Nothing THEN <<>> ELSE <<map_entry(r, chosen.metric, up)>>
  BY DEF RankingTemplate
<1>. SUFFICES ASSUME r # Nothing PROVE NumbersReadBack'
  BY <1>1 DEF NumbersReadBack
<1>. DEFINE entry == map_entry(r, chosen.metric, up)
<1>2. page'.entries[1] = entry
  BY <1>1
<1>3. Shows(entry.value, r.value, chosen.metric)
  BY ReportsAreIntegers, MetricShows DEF map_entry
<1>4. ASSUME NEW c \in ToSet(entry.components)
      PROVE  Shows(c.value, r.metrics[c.label], c.label)
  <2>. DEFINE behind == [i \in DOMAIN Components |->
                          [label |-> Components[i],
                           value |-> format_metric(r.metrics[Components[i]], Components[i], up)]]
  <2>0. entry.components = IF chosen.metric = "Overall" /\ r.metrics # Nothing
                           THEN behind ELSE <<>>
    BY Zenon DEF map_entry
  <2>1. r.metrics # Nothing /\ entry.components = behind
    <3>. HIDE DEF behind, entry
    <3>1. \A s : s = <<>> => ToSet(s) = {}
      BY DEF ToSet
    <3>. QED
      BY <1>4, <2>0, <3>1, Zenon
  <2>2. PICK i \in DOMAIN Components :
          /\ c.label = Components[i]
          /\ c.value = format_metric(r.metrics[Components[i]], Components[i], up)
    <3>. HIDE DEF entry
    <3>. QED
      BY <1>4, <2>1 DEF ToSet
  <2>3. Components[i] \in ToSet(Components) /\ Components[i] \in ToSet(Menu["metric"])
    BY DEF Components, ToSet, Menu
  <2>. QED
    BY <2>1, <2>2, <2>3, ReportsAreIntegers, MetricShows
<1>. QED
  BY <1>1, <1>2, <1>3, <1>4 DEF NumbersReadBack

\* The other steps show no ranking, or leave the page.
LEMMA NumbersStep ==
  ASSUME NumbersReadBack, [TabNext]_tabVars
  PROVE  NumbersReadBack'
<1>1. ASSUME NEW r \in Reports, NEW up \in BOOLEAN, Answer(r, up)
      PROVE  NumbersReadBack'
  <2>. DEFINE chosen == [f \in Fields |-> Parsed(f, query[f])]
  <2>1. page' \in {RankingTemplate(chosen, r, up), Unreadable} /\ chosen.metric # Nothing
    BY <1>1 DEF Answer
  <2>2. chosen.metric \in ToSet(Menu["metric"])
    BY <2>1, ParsedIsLabel DEF Fields
  <2>. HIDE DEF chosen
  <2>3. CASE page' = Unreadable
    BY <2>3 DEF Unreadable, NumbersReadBack, IsRanking
  <2>. QED
    BY <2>1, <2>2, <2>3, TemplateShows
<1>2. ASSUME NEW code \in {303, 400, 500, 502}, page' = Other(code)
      PROVE  NumbersReadBack'
  BY <1>2 DEF Other, NumbersReadBack, IsRanking
<1>3. CASE UNCHANGED page
  BY <1>3 DEF NumbersReadBack, IsRanking
<1>. QED
  BY <1>1, <1>2, <1>3 DEF TabNext, Open, Pick, BadRequest, Fail, tabVars

\* Whatever integers Keeper reports, every number on the page reads back to what
\* was reported, to half a unit of its last place, with a comma before every
\* three digits from the right (map_entry, format_metric, format_integer).
THEOREM NumbersAreShown == TabSpec => []NumbersReadBack
<1>1. TabInit => NumbersReadBack
  BY DEF TabInit, NumbersReadBack, IsRanking, Other
<1>. QED
  BY <1>1, NumbersStep, PTL DEF TabSpec
=============================================================================
