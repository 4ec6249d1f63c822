----------------------------- MODULE DashboardPage -----------------------------
(***************************************************************************)
(* The script of the dashboard: two asynchronous buttons and the log-out   *)
(* form (templates/dashboard.html) share one status line and its timer     *)
(* (createActionStatus of templates/base.html).  Their handlers interleave *)
(* at every await; a timer fires when it likes.                            *)
(*                                                                         *)
(* The texts are left out but for what tells them apart.                   *)
(***************************************************************************)
EXTENDS Naturals

CONSTANT MaxShows   \* bound on what the visitor does: calls of show

ASSUME MaxShowsAssumption == MaxShows \in Nat

VARIABLES
  line,        \* the status line: [state, about], state "hidden" if it is not shown
  last,        \* history: the last [state, about] that was shown
  pending,     \* timers that have not fired and are not cleared
  hideTimer,   \* hideTimer, 0: undefined
  shows,       \* how often show was called; also the name of the next timer
  disabled,    \* the disabled buttons
  waiting      \* the handlers that wait for the clipboard or for a response

statusLine == <<line, last, pending, hideTimer, shows>>
pageVars == <<statusLine, disabled, waiting>>

Buttons == {"copy", "usage"}
Hidden == [state |-> "hidden", about |-> "nothing"]

PageInit ==
  /\ line = Hidden /\ last = Hidden
  /\ pending = {} /\ hideTimer = 0 /\ shows = 0
  /\ disabled = {} /\ waiting = {}

\* Faulty variant: show leaves the timer of an earlier text alone.
ShowOver(state, about) ==
  /\ line' = [state |-> state, about |-> about] /\ last' = line'
  /\ shows' = shows + 1
  /\ IF state = "success" THEN hideTimer' = shows' /\ pending' = pending \cup {shows'}
                          ELSE UNCHANGED <<hideTimer, pending>>

\* show: clears the timer; only a success is hidden again by itself.
Show(state, about) ==
  /\ line' = [state |-> state, about |-> about] /\ last' = line'
  /\ shows' = shows + 1
  /\ IF state = "success"
     THEN hideTimer' = shows' /\ pending' = (pending \ {hideTimer}) \cup {shows'}
     ELSE pending' = pending \ {hideTimer} /\ UNCHANGED hideTimer

\* hide, called by a timer.
TimerFires(t) ==
  /\ t \in pending
  /\ line' = Hidden
  /\ pending' = pending \ {t, hideTimer}
  /\ UNCHANGED <<last, hideTimer, shows, disabled, waiting>>

Click(b) ==
  /\ shows < MaxShows /\ b \notin disabled
  /\ disabled' = disabled \cup {b} /\ waiting' = waiting \cup {b}
  /\ Show("loading", b)

Ends(b) == b \in waiting /\ waiting' = waiting \ {b}

Copied ==
  /\ Ends("copy") /\ disabled' = disabled \ {"copy"}
  /\ \E outcome \in {"success", "error"} : Show(outcome, "copy")

\* 204: the browser goes to /usage/, and finally runs.  The page may outlive
\* that (the navigation is cancelled, or the visitor comes back to it).
UsageOpens ==
  /\ Ends("usage") /\ disabled' = disabled \ {"usage"}
  /\ UNCHANGED statusLine

\* Any other status, or no response.
UsageFails ==
  /\ Ends("usage") /\ disabled' = disabled \ {"usage"}
  /\ \E why \in {"not ready", "too many", "try again", "unreachable"} : Show("error", why)

LogOut ==
  /\ shows < MaxShows
  /\ Show("loading", "logout")
  /\ UNCHANGED <<disabled, waiting>>

\* The visitor is done, and nothing is under way.
AllSaid == shows >= MaxShows /\ waiting = {} /\ pending = {} /\ UNCHANGED pageVars

PageNext ==
  \/ \E b \in Buttons : Click(b)
  \/ Copied \/ UsageOpens \/ UsageFails \/ LogOut
  \/ \E t \in pending : TimerFires(t)
  \/ AllSaid

PageSpec == PageInit /\ [][PageNext]_pageVars

-----------------------------------------------------------------------------
(* Properties *)

\* What was said last stays until something else is said; only a success goes
\* away by itself.  The timer of an old success never takes a newer text, an
\* error above all, from the visitor.
OnlySuccessFades == line # last => line = Hidden /\ last.state = "success"
=============================================================================
