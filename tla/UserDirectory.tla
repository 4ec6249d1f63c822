---------------------------- MODULE UserDirectory ----------------------------
(***************************************************************************)
(* What find_or_create_user (src/services/user.rs) promises, without the   *)
(* database, CPA or concurrency: a caller asks for the account of a GitHub *)
(* identity.  An account is opened once, with a key that CPA has activated *)
(* before, it keeps that key forever, and whoever is answered is answered  *)
(* with it.  A caller may bring a key of its own (named after the caller); *)
(* whether the account takes it is decided once for all callers.           *)
(***************************************************************************)
CONSTANTS Callers, Identities, None

VARIABLES
  asks,      \* asks[c]: the identity c asks for, or None
  active,    \* the keys that have been activated
  account,   \* account[i]: the key of identity i, or None
  answer     \* answer[c]: the key c was answered with, or None

dirVars == <<asks, active, account, answer>>

DirInit ==
  /\ asks = [c \in Callers |-> None]
  /\ active = {}
  /\ account = [i \in Identities |-> None]
  /\ answer = [c \in Callers |-> None]

Ask(c, i) ==
  /\ asks[c] = None
  /\ asks' = [asks EXCEPT ![c] = i]
  /\ UNCHANGED <<active, account, answer>>

Activate(c) ==
  /\ asks[c] # None
  /\ active' = active \cup {c}
  /\ UNCHANGED <<asks, account, answer>>

Open(c) ==
  /\ asks[c] # None
  /\ account[asks[c]] = None
  /\ c \in active
  /\ account' = [account EXCEPT ![asks[c]] = c]
  /\ UNCHANGED <<asks, active, answer>>

Answer(c) ==
  /\ asks[c] # None
  /\ account[asks[c]] # None
  /\ answer[c] = None
  /\ answer' = [answer EXCEPT ![c] = account[asks[c]]]
  /\ UNCHANGED <<asks, active, account>>

DirNext ==
  \E c \in Callers :
    \/ \E i \in Identities : Ask(c, i)
    \/ Activate(c) \/ Open(c) \/ Answer(c)

DirSpec == DirInit /\ [][DirNext]_dirVars
=============================================================================
