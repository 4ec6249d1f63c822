----------------------------- MODULE LoginProfiles -----------------------------
(***************************************************************************)
(* Whose profile a row of users shows.  Every login brings the profile     *)
(* that GitHub gave it and writes it with its INSERT or UPDATE; when two   *)
(* logins of one identity overlap, either may be the last to write.        *)
(* Provisioning with one history variable, to say when that cannot happen. *)
(***************************************************************************)
EXTENDS Provisioning

VARIABLE newest  \* newest[g]: the login of g that began last, if it began alone

profileVars == <<step, who, stamp, rowid, users, keys, now, late, newest>>

\* No login of g is under way.  A login whose future was dropped is, as long as
\* a statement of its is left with SQLite: only then is it "dropped" here (see
\* Provisioning), and no trace of it comes late any more.
Quiet(g) == \A m \in Logins : who[m] = g => step[m] \in Ended

ProfileInit == Init /\ newest = [g \in GitHubIds |-> None]

Begin(l, g) ==
  /\ Start(l, g)
  /\ newest' = [newest EXCEPT ![g] = IF Quiet(g) THEN l ELSE None]

ProfileNext ==
  \/ \E l \in Logins, g \in GitHubIds : Begin(l, g)
  \/ /\ (\E l \in Logins : Progress(l) \/ Fails(l) \/ Drop(l)) \/ Tick \/ AllEnded
     /\ UNCHANGED newest

ProfileSpec == ProfileInit /\ [][ProfileNext]_profileVars

FairProfileSpec == ProfileSpec /\ Fairness

-----------------------------------------------------------------------------
\* After a login that overlapped no other of its user, nor what another had left
\* with SQLite, the row shows its profile and its time until the next login of
\* the user begins, whether the logins before were answered, failed anywhere or
\* were dropped anywhere: no branch of find_or_create_user returns without
\* having written them.
NewestProfileShown ==
  \A g \in GitHubIds, id \in Ids :
    newest[g] # None /\ step[newest[g]] = "done" /\ RowOf(g, id)
      => users[id].profile = newest[g] /\ users[id].last_login_at = stamp[newest[g]]
=============================================================================
