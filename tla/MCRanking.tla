------------------------------- MODULE MCRanking -------------------------------
(***************************************************************************)
(* LocalRanking and RankingPage for TLC, side by side: they have no state  *)
(* in common, and in one behaviour only one of them moves.                 *)
(***************************************************************************)
EXTENDS LocalRanking, RankingPage, TLC

VARIABLE part   \* which of the two

RankingInit ==
  /\ part \in {"ranking", "page"}
  /\ Init /\ TabInit
  /\ part = "page" => stored = {} /\ route = "page"

RankingNext ==
  /\ UNCHANGED part
  /\ \/ part = "ranking" /\ Next /\ UNCHANGED tabVars
     \/ part = "page" /\ TabNext /\ UNCHANGED vars

RankingSpec == RankingInit /\ [][RankingNext]_<<part, vars, tabVars>>

\* Keeper's ids are interchangeable, and so are the users.
RankingSymmetry == Permutations(Ids) \cup Permutations(Users)

\* Numbers on both sides of a comma, one whose percentage is halfway between
\* two texts, and negative ones.
SomeValues == {0, 47, 999, 1000, 12345, 999999, 1000000, -1, -1000}
=============================================================================
