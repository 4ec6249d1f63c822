---------------------------- MODULE OneTimeTokens ----------------------------
(***************************************************************************)
(* What the oauth_states table (src/db/mod.rs) promises, without SQL,      *)
(* clocks or locks: a token is issued once; it is then handed to at most   *)
(* one holder, or it expires; it never comes back.                         *)
(***************************************************************************)
CONSTANTS Tokens, Holders, None

VARIABLES
  status,  \* status[t]: "new", "live" or "gone"
  holds    \* holds[h]: the token that holder h was given, or None

tokVars == <<status, holds>>

TokInit ==
  /\ status = [t \in Tokens |-> "new"]
  /\ holds = [h \in Holders |-> None]

Move(t, from, to) == status[t] = from /\ status' = [status EXCEPT ![t] = to]

Issue(t) == Move(t, "new", "live") /\ UNCHANGED holds

Use(t, h) ==
  /\ Move(t, "live", "gone")
  /\ holds[h] = None
  /\ holds' = [holds EXCEPT ![h] = t]

\* Any number of tokens expire at once.
Expire(T) ==
  /\ \A t \in T : status[t] = "live"
  /\ status' = [t \in Tokens |-> IF t \in T THEN "gone" ELSE status[t]]
  /\ UNCHANGED holds

TokNext ==
  \/ \E t \in Tokens : Issue(t) \/ \E h \in Holders : Use(t, h)
  \/ \E T \in SUBSET Tokens : Expire(T)

TokSpec == TokInit /\ [][TokNext]_tokVars
=============================================================================
