------------------------------ MODULE Addresses ------------------------------
(***************************************************************************)
(* The URLs that the portal makes of the configured ones: requests to      *)
(* Keeper and CPA, the callback that GitHub is told, and the base URL that *)
(* the dashboard shows.  The configured URLs have any path and any number  *)
(* of slashes at their end.                                                *)
(*                                                                         *)
(* A path is the sequence of what follows its slashes: "/usage" has one    *)
(* member, "/usage/" a second, empty one.  Url::join is external: it puts  *)
(* a relative path in the place of what follows the last slash.            *)
(***************************************************************************)
EXTENDS Naturals, SequencesExt

CONSTANTS
  Segments,   \* the names in configured paths
  MaxNames,   \* bound on the names in a configured path
  MaxSlashes, \* bound on the slashes at its end
  None        \* no URL

VARIABLES
  configured,   \* the URL in the configuration
  base,         \* what the client keeps of it, or None
  made          \* the path of the URL that it has made for a target

addressVars == <<configured, base, made>>

\* What follows a slash at the end of a path.
Empty == ""

ASSUME AddressAssumption ==
  Empty \notin Segments /\ MaxNames \in Nat /\ MaxSlashes \in Nat

SeqsUpTo(S, n) == UNION {[1..k -> S] : k \in 0..n}
Ending(n) == [i \in 1..n |-> Empty]

\* An HttpUrl, and what it has beside its path: nothing, credentials, or a tail
\* (a query or a fragment).  A URL without a path gets "/" from its parser.
Url ==
  {[path |-> p, extra |-> e] :
     p \in {names \o Ending(n) : names \in SeqsUpTo(Segments, MaxNames), n \in 0..MaxSlashes}
             \ {<<>>},
     e \in {"none", "credentials", "tail"}}

\* The endpoints of Keeper, relative to its API.
KeeperPaths ==
  {<<"auth", "login">>, <<"version">>, <<"quota", "cache">>,
   <<"quota", "auto-refresh", "settings">>, <<"usage", "identities">>,
   <<"usage", "api-keys", "settings">>, <<"ranking", "local", "leaderboards">>}

\* Url::join with a relative and with an absolute path.
Join(path, relative) == Front(path) \o relative
JoinRoot(path, absolute) == absolute

\* trim_end_matches('/')
Trimmed(path) == SubSeq(path, 1, Max({0} \cup {i \in DOMAIN path : path[i] # Empty}))

\* Faulty variant (API_PATH without its last slash): join takes v1 away.
KeeperBaseOpen(url) ==
  IF url.extra # "none" THEN None ELSE Trimmed(url.path) \o <<"api", "v1">>

\* api_base_url; None: refused.
KeeperBase(url) ==
  IF url.extra # "none" THEN None ELSE Trimmed(url.path) \o <<"api", "v1", Empty>>

\* CPAClient::new
CpaBase(url) == JoinRoot(url.path, <<"v0", "management", Empty>>)

-----------------------------------------------------------------------------
AddressInit == configured \in Url /\ base = None /\ made = None

\* KeeperClient::new, then KeeperClient::url.
Keeper(relative) ==
  /\ base' = [of |-> "keeper", path |-> KeeperBase(configured)]
  /\ made' = IF base'.path = None THEN None ELSE Join(base'.path, relative)
  /\ UNCHANGED configured

\* CPAClient::new, then CPAClient::url.
Cpa ==
  /\ base' = [of |-> "cpa", path |-> CpaBase(configured)]
  /\ made' = Join(base'.path, <<"api-keys">>)
  /\ UNCHANGED configured

\* AppConfig::callback_url
Callback ==
  /\ base' = [of |-> "callback", path |-> configured.path]
  /\ made' = JoinRoot(configured.path, <<"auth", "github", "callback">>)
  /\ UNCHANGED configured

\* HttpUrl::as_str, which takes slashes from the end of the whole URL, and /v1 in
\* the template: with a tail both are done to the tail, and the path stays.
ShowBase ==
  LET tail == configured.extra = "tail"
  IN  /\ base' = [of |-> "dashboard",
                  path |-> IF tail THEN configured.path ELSE Trimmed(configured.path)]
      /\ made' = IF tail THEN base'.path ELSE base'.path \o <<"v1">>
      /\ UNCHANGED configured

AddressNext ==
  \/ \E p \in KeeperPaths : Keeper(p)
  \/ Cpa \/ Callback \/ ShowBase

AddressSpec == AddressInit /\ [][AddressNext]_addressVars

-----------------------------------------------------------------------------
(* Properties *)

\* However many slashes end a configured URL, what is made of it has none too
\* many and none too few: Keeper's endpoints and the base URL that users copy
\* are right below the configured path, CPA's and GitHub's callback below the
\* root of their host.  (The base URL that users copy is wrong if the configured
\* one has a query or a fragment, which nothing refuses.)
MadeIsRightBelow ==
  made # None =>
    \A names \in SeqsUpTo(Segments, MaxNames), n \in 0..MaxSlashes :
      configured.path = names \o Ending(n) =>
        \/ base.of = "keeper" /\ \E p \in KeeperPaths : made = names \o <<"api", "v1">> \o p
        \/ base.of = "dashboard" /\ (made = names \o <<"v1">> \/ configured.extra = "tail")
        \/ base.of = "cpa" /\ made = <<"v0", "management", "api-keys">>
        \/ base.of = "callback" /\ made = <<"auth", "github", "callback">>
=============================================================================
