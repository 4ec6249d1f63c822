------------------------------ MODULE RankingPage ------------------------------
(***************************************************************************)
(* One browser tab on /ranking: what the visitor picks in the two menus of *)
(* templates/ranking.html travels as names through the form, the handler   *)
(* (src/routes/ranking.rs), Keeper's API (src/clients/keeper/ranking.rs)   *)
(* and back into the menus; numbers travel from Keeper into the table.     *)
(* Which users are ranked is LocalRanking's; here there is one entry.      *)
(*                                                                         *)
(* A period or metric has the name of its variant in the two enums and     *)
(* stands for its label too.  A text of digits is what the conversions of  *)
(* the source make of a number, see format_metric.                         *)
(***************************************************************************)
EXTENDS Integers, SequencesExt

CONSTANTS
  Values,   \* the numbers that Keeper may report
  Nothing      \* not there

VARIABLES
  page,     \* what the tab shows
  query,    \* the query of the request in flight, or Nothing
  wanted    \* history: what the visitor has picked, Nothing: the URL was typed

tabVars == <<page, query, wanted>>

-----------------------------------------------------------------------------
(* The names of periods and metrics *)

Fields == {"period", "metric"}

\* The order of the menus.
Menu == [period |-> <<"Today", "Yesterday", "CurrentMonth", "PreviousMonth">>,
         metric |-> <<"Overall", "TotalTokens", "RequestCount", "CacheReadRate",
                      "TTFTAverage", "LatencyAverage", "PeakTPM", "PeakRPM">>]

as_ref ==
  [Today |-> "today", Yesterday |-> "yesterday",
   CurrentMonth |-> "current_month", PreviousMonth |-> "previous_month",
   Overall |-> "overall", TotalTokens |-> "total_tokens",
   RequestCount |-> "request_count", CacheReadRate |-> "cache_read_rate",
   TTFTAverage |-> "ttft_average", LatencyAverage |-> "latency_average",
   PeakTPM |-> "peak_tpm", PeakRPM |-> "peak_rpm"]

\* Faulty variant: serde's rename_all = "snake_case" in place of a name for each.
renameAll ==
  [Today |-> "today", Yesterday |-> "yesterday",
   CurrentMonth |-> "current_month", PreviousMonth |-> "previous_month",
   Overall |-> "overall", TotalTokens |-> "total_tokens",
   RequestCount |-> "request_count", CacheReadRate |-> "cache_read_rate",
   TTFTAverage |-> "t_t_f_t_average", LatencyAverage |-> "latency_average",
   PeakTPM |-> "peak_t_p_m", PeakRPM |-> "peak_r_p_m"]

\* serde's `rename': the names by which an answer of Keeper is read.
rename ==
  [Today |-> "today", Yesterday |-> "yesterday",
   CurrentMonth |-> "current_month", PreviousMonth |-> "previous_month",
   Overall |-> "overall", TotalTokens |-> "total_tokens",
   RequestCount |-> "request_count", CacheReadRate |-> "cache_read_rate",
   TTFTAverage |-> "ttft_average", LatencyAverage |-> "latency_average",
   PeakTPM |-> "peak_tpm", PeakRPM |-> "peak_rpm"]

\* FromStr.
from_str ==
  [period |-> [today |-> "Today", yesterday |-> "Yesterday",
               current_month |-> "CurrentMonth", previous_month |-> "PreviousMonth"],
   metric |-> [overall |-> "Overall", total_tokens |-> "TotalTokens",
               request_count |-> "RequestCount", cache_read_rate |-> "CacheReadRate",
               ttft_average |-> "TTFTAverage", latency_average |-> "LatencyAverage",
               peak_tpm |-> "PeakTPM", peak_rpm |-> "PeakRPM"]]

Default == [period |-> "Today", metric |-> "TotalTokens"]

\* What the query of a request has in a field, and the queries that there are.
Given(f) == {"absent", "other"} \cup DOMAIN from_str[f]
Query == [period : Given("period"), metric : Given("metric")]

ASSUME NothingAssumption ==
  Nothing \notin Query /\ \A f \in Fields : Nothing \notin ToSet(Menu[f])

\* parse_period and parse_metric; Nothing: refused.
Parsed(f, name) ==
  LET given == IF name = "absent" THEN as_ref[Default[f]] ELSE name
  IN  IF given \in DOMAIN from_str[f] THEN from_str[f][given] ELSE Nothing

\* period_options and metric_options.
Options(f, selected) ==
  [i \in DOMAIN Menu[f] |->
     [value |-> as_ref[Menu[f][i]], label |-> Menu[f][i], selected |-> Menu[f][i] = selected]]

-----------------------------------------------------------------------------
(* The numbers *)

Abs(v) == IF v < 0 THEN -v ELSE v

\* Below 10^14 the binary fraction (f64) that is nearest to a quotient of Fixed is
\* on the same side of each half of a unit as the quotient, or that is halfway.
ASSUME ValuesAssumption == \A v \in Values : v \in Int /\ Abs(v) \div 1000000 < 100000000

\* The decimal digits of a natural number (to_string).
Digits[n \in Nat] == IF n < 10 THEN <<n>> ELSE Append(Digits[n \div 10], n % 10)

\* Faulty variant: counts the digits from the left.
CommasFromLeft(digits) == {i \in 2..Len(digits) : (i - 1) % 3 = 0}

\* The digits that a comma comes before: not the first, and those from which on
\* there is a multiple of three digits.
Commas(digits) == {i \in 2..Len(digits) : (Len(digits) - (i - 1)) % 3 = 0}

\* The text of an integer; a number with decimals has a point and no commas.
\* units: how many units of its last place make one.
format_integer(v) ==
  [sign |-> v < 0, digits |-> Digits[Abs(v)], commas |-> Commas(Digits[Abs(v)]), units |-> 1]

\* v divided, with as many decimals as units has zeros, to nearest.  Whether half
\* a unit of the last place goes up is up to the binary fraction that is nearest
\* to the quotient.
Fixed(v, by, up) ==
  [sign |-> v < 0, units |-> by.units, commas |-> {},
   digits |-> Digits[(2 * Abs(v) * by.units + by.divisor - (IF up THEN 0 ELSE 1))
                       \div (2 * by.divisor)]]

\* A percentage, milliseconds, an average over five minutes ...
Divided ==
  [CacheReadRate |-> [divisor |-> 10000, units |-> 100],
   TTFTAverage |-> [divisor |-> 1000, units |-> 1000],
   LatencyAverage |-> [divisor |-> 1000, units |-> 1000],
   PeakTPM |-> [divisor |-> 5, units |-> 100], PeakRPM |-> [divisor |-> 5, units |-> 100]]

\* ... or an integer.
format_metric(v, metric, up) ==
  IF metric \in DOMAIN Divided THEN Fixed(v, Divided[metric], up) ELSE format_integer(v)

\* The small numbers below an overall score, in the order of the array.
Components == <<"TotalTokens", "RequestCount", "CacheReadRate", "TTFTAverage",
                "LatencyAverage", "PeakTPM", "PeakRPM">>

map_entry(entry, metric, up) ==
  [value |-> format_metric(entry.value, metric, up),
   components |->
     IF metric = "Overall" /\ entry.metrics # Nothing
     THEN [i \in DOMAIN Components |->
             [label |-> Components[i],
              value |-> format_metric(entry.metrics[Components[i]], Components[i], up)]]
     ELSE <<>>]

\* Why the table is empty.
empty_message(period, metric) ==
  IF period = "PreviousMonth" /\ metric \in {"Overall", "PeakTPM", "PeakRPM"}
  THEN "not available" ELSE "no usage"

-----------------------------------------------------------------------------
(* The tab *)

\* A page that is not a ranking: the login page (303), 400, 500 or 502.
Other(status) == [status |-> status]
IsRanking(p) == p.status = 200

\* decode_json_response: Keeper's ranking names the period and the metric that it
\* was asked for, and serde has to know both.
Readable(asked) == \A f \in Fields : \E w \in ToSet(Menu[f]) : rename[w] = asked[f]

\* It does not: an error of Keeper's, told apart from the others (history).
Unreadable == [status |-> 502, unread |-> TRUE]

\* RankingTemplate, and what Keeper was asked and has answered (history).
RankingTemplate(chosen, reported, up) ==
  [status |-> 200, heading |-> chosen,
   menus |-> [f \in Fields |-> Options(f, chosen[f])],
   explanation |-> chosen.metric = "Overall",
   entries |-> IF reported = Nothing THEN <<>> ELSE <<map_entry(reported, chosen.metric, up)>>,
   message |-> empty_message(chosen.period, chosen.metric),
   asked |-> [f \in Fields |-> as_ref[chosen[f]]], reported |-> reported]

TabInit == page = Other(0) /\ query = Nothing /\ wanted = Nothing

\* The visitor follows a link or types a URL.
Open(q) ==
  /\ query = Nothing
  /\ query' = q
  /\ wanted' = Nothing
  /\ UNCHANGED page

\* What the browser sends for a menu: its selected option, the last if
\* there are several, the first of all if there is none.
Sent(options) ==
  LET chosen == {i \in DOMAIN options : options[i].selected}
  IN  options[IF chosen = {} THEN 1 ELSE Max(chosen)].value

\* onchange of one menu submits the form, which has both.
Pick(f, i) ==
  /\ IsRanking(page) /\ query = Nothing
  /\ query' = [g \in Fields |-> IF g = f THEN page.menus[f][i].value ELSE Sent(page.menus[g])]
  /\ wanted' = [page.heading EXCEPT ![f] = page.menus[f][i].label]
  /\ UNCHANGED page

\* index: the query is parsed, Keeper ranks what it is asked for by name, and
\* the page is rendered with what was parsed, if the answer can be read.
Answer(reported, up) ==
  LET chosen == [f \in Fields |-> Parsed(f, query[f])]
  IN  /\ query # Nothing /\ Nothing \notin {chosen.period, chosen.metric}
      /\ page' = IF Readable([f \in Fields |-> as_ref[chosen[f]]])
                 THEN RankingTemplate(chosen, reported, up) ELSE Unreadable
      /\ query' = Nothing
      /\ UNCHANGED wanted

BadRequest ==
  /\ query # Nothing /\ \E f \in Fields : Parsed(f, query[f]) = Nothing
  /\ page' = Other(400)
  /\ query' = Nothing
  /\ UNCHANGED wanted

\* The session has ended (303 to the login page), or it, the users or Keeper
\* cannot be read.
Fail(status) ==
  /\ query # Nothing
  /\ page' = Other(status)
  /\ query' = Nothing
  /\ UNCHANGED wanted

\* What Keeper may report: the number of the ranking, and the numbers behind a
\* score, each different from its neighbours.
Reports ==
  {Nothing} \cup [value : Values, metrics : {Nothing}] \cup
  {[value |-> v, metrics |-> [m \in ToSet(Components) |->
      v + CHOOSE i \in DOMAIN Components : Components[i] = m]] : v \in Values}

TabNext ==
  \/ \E q \in Query : Open(q)
  \/ \E f \in Fields : \E i \in DOMAIN Menu[f] : Pick(f, i)
  \/ \E r \in Reports, up \in BOOLEAN : Answer(r, up)
  \/ BadRequest
  \/ \E s \in {303, 500, 502} : Fail(s)

TabSpec == TabInit /\ [][TabNext]_tabVars

-----------------------------------------------------------------------------
(* Properties *)

\* A pick changes what was picked and nothing else, through all the tables of
\* names: the form keeps the other choice, the portal never refuses its own
\* form, Keeper is asked for what was picked, its answer is read, and the new
\* menus, like the heading, say so.
PickIsShown ==
  wanted # Nothing /\ query = Nothing =>
    /\ page.status # 400 /\ page # Unreadable
    /\ IsRanking(page) =>
         /\ page.heading = wanted
         /\ \A f \in Fields :
              /\ from_str[f][page.asked[f]] = wanted[f]
              /\ {o.label : o \in {p \in ToSet(page.menus[f]) : p.selected}} = {wanted[f]}

\* Reading a text: its digits are those of the number of units of its last
\* place, in groups of three from the right.
Value[digits \in Seq(0..9)] ==
  IF digits = <<>> THEN 0 ELSE 10 * Value[Front(digits)] + Last(digits)

Read(text) == IF text.sign THEN -Value[text.digits] ELSE Value[text.digits]

InThrees(text) ==
  LET ends == text.commas \cup {Len(text.digits) + 1}
  IN  /\ text.commas \subseteq 2..Len(text.digits)
      /\ ends \cap 2..4 # {}
      /\ \A c \in text.commas : ends \cap (c + 1)..(c + 3) = {c + 3}

\* How many units of its last place a metric has: microseconds, millionths of
\* the whole, totals of five minutes.
PerUnit == [CacheReadRate |-> <<1, 100>>, TTFTAverage |-> <<1, 1>>, LatencyAverage |-> <<1, 1>>,
            PeakTPM |-> <<20, 1>>, PeakRPM |-> <<20, 1>>, Overall |-> <<1, 1>>,
            TotalTokens |-> <<1, 1>>, RequestCount |-> <<1, 1>>]

Shows(text, v, metric) ==
  /\ 2 * Abs(Read(text) * PerUnit[metric][2] - v * PerUnit[metric][1]) <= PerUnit[metric][2]
  /\ text.units = 1 => InThrees(text)

\* Every number on the page, read again, is what Keeper has reported for that
\* metric, to half a unit of its last place.
NumbersReadBack ==
  IsRanking(page) /\ page.entries # <<>> =>
    /\ Shows(page.entries[1].value, page.reported.value, page.heading.metric)
    /\ \A c \in ToSet(page.entries[1].components) :
         Shows(c.value, page.reported.metrics[c.label], c.label)
=============================================================================
