------------------------------ MODULE MCSmallParts ------------------------------
(***************************************************************************)
(* The modules with few states for TLC, side by side: they have no state   *)
(* in common, and in one behaviour only one of them moves.                 *)
(***************************************************************************)
EXTENDS ErrorBody, Addresses, GitHubIdentity, DashboardPage, ConnectionPool

VARIABLE part   \* which of them

partVars == <<part, vars, addressVars, gitHubVars, pageVars, poolVars>>

PartsInit ==
  /\ part \in {"body", "address", "github", "dashboard", "pool"}
  /\ Init /\ (part # "body" => contentLength = Unknown)
  /\ AddressInit /\ (part # "address" => configured = [path |-> <<"">>, extra |-> "none"])
  /\ GitHubInit /\ (part # "github" => user = [id |-> 0, email |-> "none"] /\ emails = <<>>)
  /\ PageInit /\ PoolInit

PartsNext ==
  /\ UNCHANGED part
  /\ \/ /\ part = "body" /\ Next
        /\ UNCHANGED <<addressVars, gitHubVars, pageVars, poolVars>>
     \/ /\ part = "address" /\ AddressNext
        /\ UNCHANGED <<vars, gitHubVars, pageVars, poolVars>>
     \/ /\ part = "github" /\ GitHubNext
        /\ UNCHANGED <<vars, addressVars, pageVars, poolVars>>
     \/ /\ part = "dashboard" /\ PageNext
        /\ UNCHANGED <<vars, addressVars, gitHubVars, poolVars>>
     \/ /\ part = "pool" /\ PoolNext
        /\ UNCHANGED <<vars, addressVars, gitHubVars, pageVars>>

PartsSpec == PartsInit /\ [][PartsNext]_partVars /\ PoolFairness
=============================================================================
