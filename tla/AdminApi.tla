------------------------------- MODULE AdminApi -------------------------------
(***************************************************************************)
(* The requests of one client of the admin API: routing and extraction as  *)
(* axum orders them, the check of the token (src/admin_api.rs) and the     *)
(* three handlers (src/routes/admin.rs), while users sign in.  What the    *)
(* join of a ranking and the calls of a quota snapshot do is in            *)
(* LocalRanking and QuotaSnapshot; here they are one call that may fail.   *)
(*                                                                         *)
(* The clock of the process is taken to show a year that RFC 3339 has.     *)
(***************************************************************************)
EXTENDS Ordering, SequencesExt

CONSTANT UserIds   \* the ids of the users table

\* INTEGER in SQLite, i64 in the portal.
ASSUME UserIdsAssumption == UserIds \subseteq Int /\ IsFiniteSet(UserIds)

VARIABLES
  req,     \* the request
  stage,   \* how far it is
  reply,   \* its answer; status 0 and code "none" until there is one
  rows,    \* the users table: the kind of timestamps in the row of an id
  before,  \* history: the ids that had a row when the request came
  asked,   \* history: what the request has made the portal use
  fault    \* history: whose mistake ended the request

aboutRequest == <<req, reply, before>>
adminVars == <<aboutRequest, stage, rows, asked, fault>>

\* Timestamps that RFC 3339 can show, that OffsetDateTime cannot hold, and that
\* it holds but RFC 3339 cannot show (a year before 0).
Stamps == {"fine", "unsupported", "unshown"}

\* One field of the query string.
Field == {"absent", "known", "unknown", "twice"}

Request ==
  [path : {"users", "ranking", "quota"}, method : {"GET", "POST"},
   authorization : {"absent", "binary", "basic", "empty", "wrong", "right"},
   period : Field, metric : Field]

NoRequest == [path |-> "users", method |-> "GET", authorization |-> "absent",
              period |-> "absent", metric |-> "absent"]

NoReply == [status |-> 0, code |-> "none", noStore |-> FALSE,
            authenticate |-> FALSE, users |-> <<>>]

AdminInit ==
  /\ req = NoRequest
  /\ stage = "idle" /\ reply = NoReply
  /\ \E S \in SUBSET UserIds : rows \in [S -> Stamps]
  /\ before = {} /\ asked = {} /\ fault = "none"

-----------------------------------------------------------------------------
(* Answers *)

\* What axum answers by itself: a plain text.
Plain(status) ==
  [status |-> status, code |-> "plain", noStore |-> FALSE,
   authenticate |-> FALSE, users |-> <<>>]

\* AdminApiError::into_response: the envelope with its headers.
AdminApiError(status, code) ==
  [status |-> status, code |-> code, noStore |-> TRUE,
   authenticate |-> code = "unauthorized", users |-> <<>>]

json_response(users) ==
  [status |-> 200, code |-> "none", noStore |-> TRUE,
   authenticate |-> FALSE, users |-> users]

\* Faulty variant: the match forgets the errors of Keeper.
MapAllInternal(code, error) ==
  AdminApiError(IF error = "BadRequest" THEN 400 ELSE 500, code)

map_app_error(code, error) ==
  AdminApiError(IF error = "BadRequest" THEN 400
                ELSE IF error \in {"Upstream", "Http"} THEN 502 ELSE 500, code)

-----------------------------------------------------------------------------
(* A request, in the order of the extractors *)

Finish(answer, whose) ==
  /\ stage' = "answered" /\ reply' = answer /\ fault' = whose
  /\ UNCHANGED <<req, rows, before>>

Goto(p) == stage' = p /\ UNCHANGED <<aboutRequest, rows, fault>>

Uses(part) == asked' = asked \cup {part}

Receive(r) ==
  /\ stage = "idle"
  /\ req' = r /\ before' = DOMAIN rows
  /\ stage' = "route"
  /\ UNCHANGED <<reply, rows, asked, fault>>

\* The client has its answer; its next request shares nothing with this one.
Done ==
  /\ stage = "answered"
  /\ stage' = "idle"
  /\ req' = NoRequest /\ reply' = NoReply
  /\ before' = {} /\ asked' = {} /\ fault' = "none"
  /\ UNCHANGED rows

\* get(handler): axum refuses another method before any extractor runs.
Route ==
  /\ stage = "route"
  /\ IF req.method = "GET" THEN Goto("authenticate") ELSE Finish(Plain(405), "caller")
  /\ UNCHANGED asked

\* Faulty variant: the query is extracted before the token is checked.
ExtractFirst ==
  /\ stage = "authenticate"
  /\ IF req.path = "ranking" /\ "twice" \in {req.period, req.metric}
     THEN Finish(Plain(400), "caller")
     ELSE IF req.authorization = "right" THEN Goto("extract")
                                         ELSE Finish(AdminApiError(401, "unauthorized"), "caller")
  /\ UNCHANGED asked

\* AdminApiAuthenticated: a text that starts with "Bearer ", a token behind it,
\* and the hash of the token is the one that is kept.
Authenticate ==
  /\ stage = "authenticate"
  /\ IF req.authorization = "right" THEN Goto("extract")
                                    ELSE Finish(AdminApiError(401, "unauthorized"), "caller")
  /\ UNCHANGED asked

\* Query<RankingQuery>: serde refuses a field that comes twice, and axum
\* answers by itself.
Extract ==
  /\ stage = "extract"
  /\ IF req.path = "ranking" /\ "twice" \in {req.period, req.metric}
     THEN Finish(Plain(400), "caller")
     ELSE Goto(req.path)
  /\ UNCHANGED asked

\* Faulty variant: rows that cannot be shown are left out (flatten).
ListShown ==
  /\ stage = "users"
  /\ Finish(json_response(InOrder({i \in DOMAIN rows : rows[i] = "fine"})), "none")
  /\ Uses("database")

\* list_users reads ORDER BY id; the first row whose timestamps cannot be shown
\* ends the request.
ListUsers ==
  /\ stage = "users"
  /\ LET ids == InOrder(DOMAIN rows)
         bad == {n \in DOMAIN ids : rows[ids[n]] # "fine"}
     IN  IF bad = {} THEN Finish(json_response(ids), "none")
         ELSE Finish(AdminApiError(500, IF rows[ids[Min(bad)]] = "unsupported"
                    THEN "invalid_timestamp" ELSE "timestamp_format_failed"), "portal")
  /\ Uses("database")

ListFails ==
  /\ stage = "users"
  /\ Finish(AdminApiError(500, "database_error"), "portal")
  /\ Uses("database")

\* The period is parsed before the metric.
local_ranking ==
  /\ stage = "ranking"
  /\ IF req.period = "unknown" THEN Finish(AdminApiError(400, "invalid_period"), "caller")
     ELSE IF req.metric = "unknown" THEN Finish(AdminApiError(400, "invalid_metric"), "caller")
     ELSE Goto("call")
  /\ UNCHANGED asked

quota_snapshot == stage = "quota" /\ Goto("call") /\ UNCHANGED asked

CallAnswers ==
  /\ stage = "call"
  /\ Finish(json_response(<<>>), "none")
  /\ asked' = asked \cup {"keeper"} \cup IF req.path = "ranking" THEN {"database"} ELSE {}

\* A snapshot fails with Keeper only; a ranking also when the users cannot be
\* read (Database) or decrypted (Other).
CallErrs(error) ==
  /\ stage = "call"
  /\ error # "Upstream" => req.path = "ranking"
  /\ Finish(map_app_error(IF req.path = "ranking" THEN "local_ranking_failed" ELSE "quota_failed",
                       error), IF error = "Upstream" THEN "keeper" ELSE "portal")
  /\ Uses("keeper")

\* Another handler inserts a user.
AddUser(i, stamp) ==
  /\ i \notin DOMAIN rows
  /\ rows' = [j \in DOMAIN rows \cup {i} |-> IF j = i THEN stamp ELSE rows[j]]
  /\ UNCHANGED <<aboutRequest, stage, asked, fault>>

AdminNext ==
  \/ \E r \in Request : Receive(r)
  \/ Route \/ Authenticate \/ Extract \/ Done
  \/ ListUsers \/ ListFails \/ local_ranking \/ quota_snapshot \/ CallAnswers
  \/ \E e \in {"Upstream", "Database", "Other"} : CallErrs(e)
  \/ \E i \in UserIds, s \in Stamps : AddUser(i, s)

AdminSpec == AdminInit /\ [][AdminNext]_adminVars

-----------------------------------------------------------------------------
(* Properties *)

\* Whoever has no token learns nothing, not even whether the query is one that
\* the API understands: all of them get the same answer to every request that
\* is routed, and neither Keeper nor the database is bothered.
StrangersLearnNothing ==
  stage = "answered" /\ req.method = "GET" /\ req.authorization # "right" =>
    reply = AdminApiError(401, "unauthorized") /\ asked = {}

\* The list of users is whole or an error: everybody who had a row when the
\* request came is in it once, in the order of the ids, also when the timestamps
\* of somebody else cannot be shown.
ListIsWhole ==
  stage = "answered" /\ reply.status = 200 /\ req.path = "users" =>
    /\ before \subseteq ToSet(reply.users)
    /\ \A m, n \in DOMAIN reply.users : m < n => reply.users[m] < reply.users[n]

\* The class of the answer tells whose turn it is: the caller mends its request
\* after 4xx, waits for Keeper after 502, and calls the operator after 500.
StatusNamesTheFault ==
  stage = "answered" =>
    reply.status \in [caller |-> {400, 401, 405}, keeper |-> {502},
                      portal |-> {500}, none |-> {200}][fault]

\* README.md says of the admin API that all of its answers are marked
\* Cache-Control: no-store: so should be each answer to somebody with the token.
EveryAnswerNoStore ==
  stage = "answered" /\ req.authorization = "right" /\ req.method = "GET" => reply.noStore
=============================================================================
