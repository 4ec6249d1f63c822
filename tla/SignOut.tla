-------------------------------- MODULE SignOut --------------------------------
(***************************************************************************)
(* What a logout ends (logout of src/routes/auth.rs).  The session that it *)
(* flushes may be in the hands of a callback of the same browser, which    *)
(* then writes the row again (see Save).  SignIn with one history          *)
(* variable, to say when that cannot happen.                               *)
(***************************************************************************)
EXTENDS SignIn

VARIABLE final  \* the logouts whose session nobody else had in hand

signOutVars == <<tokens, directory, cookie, store, request, history, final>>

\* Callback c has loaded session i and has not saved it.
InHand(i) == \E c \in Callbacks : step[c] = "save" /\ carries[c] = i

SignOutInit == Init /\ final = {}

SignOutNext ==
  /\ Next
  /\ final' = final \cup {o \in Logouts : /\ step[o] = "flush" /\ step'[o] = "flushed"
                                          /\ carries[o] # None /\ ~InHand(carries[o])}

SignOutSpec == SignOutInit /\ [][SignOutNext]_signOutVars

-----------------------------------------------------------------------------
\* A session that has been flushed does not come back, for any copy of its cookie
\* and whatever the browser sends before the answer to its logout arrives: a login
\* that finds the row gone gives the id up.  Left out are sessions of which a
\* callback held a loaded copy at the flush, since its save writes the row again.
LogoutEndsSession == \A o \in final : store[carries[o]] = None
=============================================================================
