--------------------------- MODULE KeeperClientProofs ---------------------------
(***************************************************************************)
(* Proofs about KeeperClient, for any set of concurrent calls.             *)
(*                                                                         *)
(* The inductive invariant IInv says how a call's program counter, its     *)
(* guard and its exchange with Keeper belong together, that the jar and    *)
(* the generation are those a reader has seen, and what is known of the    *)
(* jar once a request has been rejected.  That the calls never jam rests   *)
(* on two more: the queue of the lock is one line with a front (QueueInv), *)
(* and a call under a guard has something in flight (BusyInv).             *)
(***************************************************************************)
EXTENDS KeeperClient, FiniteSetTheorems, TLAPS

\* The guard a call holds or awaits is determined by where it is.
GuardOK(t) ==
  /\ guard[t] = "read" <=> pc[t] \in Reading
  /\ guard[t] = "write" <=> pc[t] \in Writing
  /\ want[t] = "read" <=> pc[t] \in {"lockFirst", "lockRetry"}
  /\ want[t] = "write" <=> pc[t] = "lockWrite"

\* So is the kind of exchange it has with Keeper.
WireOK(t) ==
  /\ wire[t] \in {"request", "success", "error", "401"} => pc[t] \in Reading
  /\ wire[t] \in {"login", "204", "refused"} => pc[t] = "login"

\* Calls that have not sent a login request, or whose login is not answered.
BeforeLogin == {"idle", "lockFirst", "first", "rejected", "lockWrite"}

\* A session that t could hand to Keeper has been stored in the jar by its call.
Stored(s) == s \in Tasks => pc[s] \notin BeforeLogin \cup {"login"}

SessionsOK ==
  /\ Stored(jar)
  /\ \A t \in Tasks : Stored(cookie[t])
  /\ \A s \in valid : pc[s] \notin BeforeLogin
  /\ \A s \in attempts : pc[s] \notin BeforeLogin
  /\ \A t \in Tasks : pc[t] \in {"login", "loggedIn", "loginFailed"} => t \in attempts

\* What a call has observed is still so while its guard says that it must be.
FreshOK(t) ==
  /\ observed[t] <= generation
  /\ pc[t] \in Reading => cookie[t] = jar
  /\ pc[t] = "first" => observed[t] = generation
  /\ pc[t] \in Writing => observed[t] = generation
  /\ pc[t] = "lockRetry" => observed[t] < generation
  /\ pc[t] = "loggedIn" => jar = t /\ \A u \in Tasks : cookie[u] # t

\* A rejected cookie stays dead ...
DeadOK(t) ==
  /\ wire[t] = "401" => cookie[t] \notin valid
  /\ pc[t] \in {"rejected", "lockWrite", "login"} => cookie[t] \notin valid

\* ... and it stays in the jar until the generation moves or a login stores
\* its session.
PinnedOK(t) ==
  pc[t] \in {"rejected", "lockWrite", "login"} /\ observed[t] = generation
    => \/ jar = cookie[t]
       \/ jar \in Tasks /\ pc[jar] \in {"loggedIn", "cancelled"}

\* Once the generation has moved, the jar holds another session.
RenewedOK(t) ==
  pc[t] \in AwaitingRetry /\ observed[t] < generation
    => jar # cookie[t] \/ LoginFailedFor(t)

\* A login that is over has been counted, unless it was cancelled.
CountedOK(t) ==
  t \in attempts /\ pc[t] \notin {"login", "loggedIn", "cancelled"}
    => observed[t] < generation

LockInv     == LockExclusion /\ \A t \in Tasks : GuardOK(t)
WireInv     == \A t \in Tasks : WireOK(t)
FreshInv    == \A t \in Tasks : FreshOK(t)
DeadInv     == \A t \in Tasks : DeadOK(t)
PinnedInv   == \A t \in Tasks : PinnedOK(t)
RenewedInv  == \A t \in Tasks : RenewedOK(t)
CountedInv  == \A t \in Tasks : CountedOK(t)

IInv ==
  /\ TypeOK
  /\ LockInv
  /\ WireInv
  /\ SessionsOK
  /\ FreshInv
  /\ DeadInv
  /\ PinnedInv
  /\ RenewedInv
  /\ CountedInv
  /\ OneLoginPerGeneration

-----------------------------------------------------------------------------
LEMMA TypeStep ==
  ASSUME TypeOK, [Next]_vars
  PROVE  TypeOK'
<1>. USE NoSessionAssumption DEF TypeOK, LockTypeOK, Mode, Session, Phase, Active, Queued, Reading, Writing, Returned, Wire, Goto, Transmit
<1>1. ASSUME NEW t \in Tasks, Start(t) PROVE TypeOK'
  BY <1>1 DEF Start, Request, LockStep, Waiting
<1>2. ASSUME NEW t \in Tasks, Cancel(t) PROVE TypeOK'
  BY <1>2 DEF Cancel, Release, LockStep, Waiting
<1>3. ASSUME NEW t \in Tasks, KeeperForgets(t) PROVE TypeOK'
  BY <1>3 DEF KeeperForgets
<1>4. ASSUME NEW t \in Tasks, FirstAttempt(t) PROVE TypeOK'
  BY <1>4 DEF FirstAttempt, MayRead, Acquire, Send, LockStep, Waiting
<1>5. ASSUME NEW t \in Tasks, Rejected(t) PROVE TypeOK'
  BY <1>5 DEF Rejected, Release, LockStep, Waiting
<1>6. ASSUME NEW t \in Tasks, Finish(t) PROVE TypeOK'
  BY <1>6 DEF Finish, Release, LockStep, Waiting
<1>7. ASSUME NEW t \in Tasks, RefreshAuth(t) PROVE TypeOK'
  BY <1>7 DEF RefreshAuth, Request, LockStep, Waiting
<1>8. ASSUME NEW t \in Tasks, AlreadyRefreshed(t) PROVE TypeOK'
  BY <1>8 DEF AlreadyRefreshed, MayWrite, Request, LockStep, Waiting
<1>9. ASSUME NEW t \in Tasks, Login(t) PROVE TypeOK'
  BY <1>9 DEF Login, MayWrite, Acquire, LockStep, Waiting
<1>10. ASSUME NEW t \in Tasks, LoginAccepted(t) PROVE TypeOK'
  BY <1>10 DEF LoginAccepted
<1>11. ASSUME NEW t \in Tasks, LoginDone(t) PROVE TypeOK'
  BY <1>11 DEF LoginDone, Request, LockStep, Waiting
<1>12. ASSUME NEW t \in Tasks, LoginFails(t) PROVE TypeOK'
  BY <1>12 DEF LoginFails, Release, LockStep, Waiting
<1>13. ASSUME NEW t \in Tasks, RetryAttempt(t) PROVE TypeOK'
  BY <1>13 DEF RetryAttempt, MayRead, Acquire, Send, LockStep, Waiting
<1>14. ASSUME NEW t \in Tasks, KeeperAnswers(t) PROVE TypeOK'
  BY <1>14 DEF KeeperAnswers
<1>15. ASSUME NEW t \in Tasks, KeeperLogsIn(t) PROVE TypeOK'
  BY <1>15 DEF KeeperLogsIn
<1>16. CASE UNCHANGED vars
  BY <1>16 DEF vars
<1>. QED
  BY <1>1, <1>2, <1>3, <1>4, <1>5, <1>6, <1>7, <1>8, <1>9, <1>10, <1>11, <1>12, <1>13, <1>14, <1>15, <1>16 DEF Next, Progress, ClientSteps, AllReturned

LEMMA LockStepInv ==
  ASSUME TypeOK, LockInv, [Next]_vars
  PROVE  LockInv'
<1>. USE DEF TypeOK, LockTypeOK, Goto, Transmit, Queued, Reading, Writing, Active, Returned, Mode, LockInv, LockExclusion, GuardOK
<1>1. ASSUME NEW t \in Tasks, Start(t) PROVE LockInv'
  BY <1>1 DEF Start, Request, LockStep, Waiting
<1>2. ASSUME NEW t \in Tasks, Cancel(t) PROVE LockInv'
  BY <1>2 DEF Cancel, Release, LockStep, Waiting
<1>3. ASSUME NEW t \in Tasks, KeeperForgets(t) PROVE LockInv'
  BY <1>3 DEF KeeperForgets
<1>4. ASSUME NEW t \in Tasks, FirstAttempt(t) PROVE LockInv'
  BY <1>4 DEF FirstAttempt, MayRead, Acquire, Send, LockStep, Waiting
<1>5. ASSUME NEW t \in Tasks, Rejected(t) PROVE LockInv'
  BY <1>5 DEF Rejected, Release, LockStep, Waiting
<1>6. ASSUME NEW t \in Tasks, Finish(t) PROVE LockInv'
  BY <1>6 DEF Finish, Release, LockStep, Waiting
<1>7. ASSUME NEW t \in Tasks, RefreshAuth(t) PROVE LockInv'
  BY <1>7 DEF RefreshAuth, Request, LockStep, Waiting
<1>8. ASSUME NEW t \in Tasks, AlreadyRefreshed(t) PROVE LockInv'
  BY <1>8 DEF AlreadyRefreshed, MayWrite, Request, LockStep, Waiting
<1>9. ASSUME NEW t \in Tasks, Login(t) PROVE LockInv'
  BY <1>9 DEF Login, MayWrite, Acquire, LockStep, Waiting
<1>10. ASSUME NEW t \in Tasks, LoginAccepted(t) PROVE LockInv'
  BY <1>10 DEF LoginAccepted
<1>11. ASSUME NEW t \in Tasks, LoginDone(t) PROVE LockInv'
  BY <1>11 DEF LoginDone, Request, LockStep, Waiting
<1>12. ASSUME NEW t \in Tasks, LoginFails(t) PROVE LockInv'
  BY <1>12 DEF LoginFails, Release, LockStep, Waiting
<1>13. ASSUME NEW t \in Tasks, RetryAttempt(t) PROVE LockInv'
  BY <1>13 DEF RetryAttempt, MayRead, Acquire, Send, LockStep, Waiting
<1>14. ASSUME NEW t \in Tasks, KeeperAnswers(t) PROVE LockInv'
  BY <1>14 DEF KeeperAnswers
<1>15. ASSUME NEW t \in Tasks, KeeperLogsIn(t) PROVE LockInv'
  BY <1>15 DEF KeeperLogsIn
<1>16. CASE UNCHANGED vars
  BY <1>16 DEF vars
<1>. QED
  BY <1>1, <1>2, <1>3, <1>4, <1>5, <1>6, <1>7, <1>8, <1>9, <1>10, <1>11, <1>12, <1>13, <1>14, <1>15, <1>16 DEF Next, Progress, ClientSteps, AllReturned

LEMMA WireStep ==
  ASSUME TypeOK, LockInv, WireInv, [Next]_vars
  PROVE  WireInv'
<1>. USE DEF TypeOK, LockTypeOK, Goto, Transmit, Queued, Reading, Writing, Active, Returned, WireInv, WireOK
<1>1. ASSUME NEW t \in Tasks, Start(t) PROVE WireInv'
  BY <1>1 DEF Start
<1>2. ASSUME NEW t \in Tasks, Cancel(t) PROVE WireInv'
  BY <1>2 DEF Cancel
<1>3. ASSUME NEW t \in Tasks, KeeperForgets(t) PROVE WireInv'
  BY <1>3 DEF KeeperForgets
<1>4. ASSUME NEW t \in Tasks, FirstAttempt(t) PROVE WireInv'
  BY <1>4 DEF FirstAttempt, Send, MayRead
<1>5. ASSUME NEW t \in Tasks, Rejected(t) PROVE WireInv'
  BY <1>5 DEF Rejected
<1>6. ASSUME NEW t \in Tasks, Finish(t) PROVE WireInv'
  BY <1>6 DEF Finish
<1>7. ASSUME NEW t \in Tasks, RefreshAuth(t) PROVE WireInv'
  BY <1>7 DEF RefreshAuth
<1>8. ASSUME NEW t \in Tasks, AlreadyRefreshed(t) PROVE WireInv'
  BY <1>8 DEF AlreadyRefreshed, MayWrite
<1>9. ASSUME NEW t \in Tasks, Login(t) PROVE WireInv'
  BY <1>9 DEF Login, MayWrite
<1>10. ASSUME NEW t \in Tasks, LoginAccepted(t) PROVE WireInv'
  BY <1>10 DEF LoginAccepted
<1>11. ASSUME NEW t \in Tasks, LoginDone(t) PROVE WireInv'
  BY <1>11 DEF LoginDone
<1>12. ASSUME NEW t \in Tasks, LoginFails(t) PROVE WireInv'
  BY <1>12 DEF LoginFails
<1>13. ASSUME NEW t \in Tasks, RetryAttempt(t) PROVE WireInv'
  BY <1>13 DEF RetryAttempt, Send, MayRead
<1>14. ASSUME NEW t \in Tasks, KeeperAnswers(t) PROVE WireInv'
  BY <1>14 DEF KeeperAnswers
<1>15. ASSUME NEW t \in Tasks, KeeperLogsIn(t) PROVE WireInv'
  BY <1>15 DEF KeeperLogsIn
<1>16. CASE UNCHANGED vars
  BY <1>16 DEF vars
<1>. QED
  BY <1>1, <1>2, <1>3, <1>4, <1>5, <1>6, <1>7, <1>8, <1>9, <1>10, <1>11, <1>12, <1>13, <1>14, <1>15, <1>16 DEF Next, Progress, ClientSteps, AllReturned

LEMMA SessionsStep ==
  ASSUME TypeOK, LockInv, WireInv, SessionsOK, [Next]_vars
  PROVE  SessionsOK'
<1>. USE NoSessionAssumption DEF TypeOK, LockTypeOK, Goto, Transmit, Queued, Reading, Writing, Active, Returned, Session, WireInv, WireOK, SessionsOK, Stored, BeforeLogin
<1>1. ASSUME NEW t \in Tasks, Start(t) PROVE SessionsOK'
  BY <1>1 DEF Start
<1>2. ASSUME NEW t \in Tasks, Cancel(t) PROVE SessionsOK'
  BY <1>2 DEF Cancel
<1>3. ASSUME NEW t \in Tasks, KeeperForgets(t) PROVE SessionsOK'
  BY <1>3 DEF KeeperForgets
<1>4. ASSUME NEW t \in Tasks, FirstAttempt(t) PROVE SessionsOK'
  BY <1>4 DEF FirstAttempt, Send, MayRead
<1>5. ASSUME NEW t \in Tasks, Rejected(t) PROVE SessionsOK'
  BY <1>5 DEF Rejected
<1>6. ASSUME NEW t \in Tasks, Finish(t) PROVE SessionsOK'
  BY <1>6 DEF Finish
<1>7. ASSUME NEW t \in Tasks, RefreshAuth(t) PROVE SessionsOK'
  BY <1>7 DEF RefreshAuth
<1>8. ASSUME NEW t \in Tasks, AlreadyRefreshed(t) PROVE SessionsOK'
  BY <1>8 DEF AlreadyRefreshed, MayWrite
<1>9. ASSUME NEW t \in Tasks, Login(t) PROVE SessionsOK'
  BY <1>9 DEF Login, MayWrite
<1>10. ASSUME NEW t \in Tasks, LoginAccepted(t) PROVE SessionsOK'
  BY <1>10 DEF LoginAccepted
<1>11. ASSUME NEW t \in Tasks, LoginDone(t) PROVE SessionsOK'
  BY <1>11 DEF LoginDone
<1>12. ASSUME NEW t \in Tasks, LoginFails(t) PROVE SessionsOK'
  BY <1>12 DEF LoginFails
<1>13. ASSUME NEW t \in Tasks, RetryAttempt(t) PROVE SessionsOK'
  BY <1>13 DEF RetryAttempt, Send, MayRead
<1>14. ASSUME NEW t \in Tasks, KeeperAnswers(t) PROVE SessionsOK'
  BY <1>14 DEF KeeperAnswers
<1>15. ASSUME NEW t \in Tasks, KeeperLogsIn(t) PROVE SessionsOK'
  BY <1>15 DEF KeeperLogsIn
<1>16. CASE UNCHANGED vars
  BY <1>16 DEF vars
<1>. QED
  BY <1>1, <1>2, <1>3, <1>4, <1>5, <1>6, <1>7, <1>8, <1>9, <1>10, <1>11, <1>12, <1>13, <1>14, <1>15, <1>16 DEF Next, Progress, ClientSteps, AllReturned

LEMMA FreshStep ==
  ASSUME TypeOK, LockInv, WireInv, SessionsOK, FreshInv, [Next]_vars
  PROVE  FreshInv'
<1>. USE NoSessionAssumption DEF TypeOK, LockTypeOK, Goto, Transmit, Queued, Reading, Writing, Active, Returned, Session, LockInv, LockExclusion, GuardOK, FreshInv, FreshOK, SessionsOK, Stored, BeforeLogin
<1>1. ASSUME NEW t \in Tasks, Start(t) PROVE FreshInv'
  BY <1>1 DEF Start
<1>2. ASSUME NEW t \in Tasks, Cancel(t) PROVE FreshInv'
  BY <1>2 DEF Cancel
<1>3. ASSUME NEW t \in Tasks, KeeperForgets(t) PROVE FreshInv'
  BY <1>3 DEF KeeperForgets
<1>4. ASSUME NEW t \in Tasks, FirstAttempt(t) PROVE FreshInv'
  BY <1>4 DEF FirstAttempt, Send, MayRead
<1>5. ASSUME NEW t \in Tasks, Rejected(t) PROVE FreshInv'
  BY <1>5 DEF Rejected
<1>6. ASSUME NEW t \in Tasks, Finish(t) PROVE FreshInv'
  BY <1>6 DEF Finish
<1>7. ASSUME NEW t \in Tasks, RefreshAuth(t) PROVE FreshInv'
  BY <1>7 DEF RefreshAuth
<1>8. ASSUME NEW t \in Tasks, AlreadyRefreshed(t) PROVE FreshInv'
  BY <1>8 DEF AlreadyRefreshed, MayWrite
<1>9. ASSUME NEW t \in Tasks, Login(t) PROVE FreshInv'
  BY <1>9 DEF Login, MayWrite
<1>10. ASSUME NEW t \in Tasks, LoginAccepted(t) PROVE FreshInv'
  BY <1>10 DEF LoginAccepted
<1>11. ASSUME NEW t \in Tasks, LoginDone(t) PROVE FreshInv'
  BY <1>11 DEF LoginDone
<1>12. ASSUME NEW t \in Tasks, LoginFails(t) PROVE FreshInv'
  BY <1>12 DEF LoginFails
<1>13. ASSUME NEW t \in Tasks, RetryAttempt(t) PROVE FreshInv'
  BY <1>13 DEF RetryAttempt, Send, MayRead
<1>14. ASSUME NEW t \in Tasks, KeeperAnswers(t) PROVE FreshInv'
  BY <1>14 DEF KeeperAnswers
<1>15. ASSUME NEW t \in Tasks, KeeperLogsIn(t) PROVE FreshInv'
  BY <1>15 DEF KeeperLogsIn
<1>16. CASE UNCHANGED vars
  BY <1>16 DEF vars
<1>. QED
  BY <1>1, <1>2, <1>3, <1>4, <1>5, <1>6, <1>7, <1>8, <1>9, <1>10, <1>11, <1>12, <1>13, <1>14, <1>15, <1>16 DEF Next, Progress, ClientSteps, AllReturned

LEMMA DeadStep ==
  ASSUME TypeOK, WireInv, SessionsOK, DeadInv, [Next]_vars
  PROVE  DeadInv'
<1>. USE NoSessionAssumption DEF TypeOK, LockTypeOK, Goto, Transmit, Queued, Reading, Writing, Active, Returned, Session, WireInv, WireOK, DeadInv, DeadOK, SessionsOK, Stored, BeforeLogin
<1>1. ASSUME NEW t \in Tasks, Start(t) PROVE DeadInv'
  BY <1>1 DEF Start
<1>2. ASSUME NEW t \in Tasks, Cancel(t) PROVE DeadInv'
  BY <1>2 DEF Cancel
<1>3. ASSUME NEW t \in Tasks, KeeperForgets(t) PROVE DeadInv'
  BY <1>3 DEF KeeperForgets
<1>4. ASSUME NEW t \in Tasks, FirstAttempt(t) PROVE DeadInv'
  BY <1>4 DEF FirstAttempt, Send, MayRead
<1>5. ASSUME NEW t \in Tasks, Rejected(t) PROVE DeadInv'
  BY <1>5 DEF Rejected
<1>6. ASSUME NEW t \in Tasks, Finish(t) PROVE DeadInv'
  BY <1>6 DEF Finish
<1>7. ASSUME NEW t \in Tasks, RefreshAuth(t) PROVE DeadInv'
  BY <1>7 DEF RefreshAuth
<1>8. ASSUME NEW t \in Tasks, AlreadyRefreshed(t) PROVE DeadInv'
  BY <1>8 DEF AlreadyRefreshed, MayWrite
<1>9. ASSUME NEW t \in Tasks, Login(t) PROVE DeadInv'
  BY <1>9 DEF Login, MayWrite
<1>10. ASSUME NEW t \in Tasks, LoginAccepted(t) PROVE DeadInv'
  BY <1>10 DEF LoginAccepted
<1>11. ASSUME NEW t \in Tasks, LoginDone(t) PROVE DeadInv'
  BY <1>11 DEF LoginDone
<1>12. ASSUME NEW t \in Tasks, LoginFails(t) PROVE DeadInv'
  BY <1>12 DEF LoginFails
<1>13. ASSUME NEW t \in Tasks, RetryAttempt(t) PROVE DeadInv'
  BY <1>13 DEF RetryAttempt, Send, MayRead
<1>14. ASSUME NEW t \in Tasks, KeeperAnswers(t) PROVE DeadInv'
  BY <1>14 DEF KeeperAnswers
<1>15. ASSUME NEW t \in Tasks, KeeperLogsIn(t) PROVE DeadInv'
  BY <1>15 DEF KeeperLogsIn
<1>16. CASE UNCHANGED vars
  BY <1>16 DEF vars
<1>. QED
  BY <1>1, <1>2, <1>3, <1>4, <1>5, <1>6, <1>7, <1>8, <1>9, <1>10, <1>11, <1>12, <1>13, <1>14, <1>15, <1>16 DEF Next, Progress, ClientSteps, AllReturned

LEMMA PinnedStep ==
  ASSUME TypeOK, LockInv, WireInv, SessionsOK, FreshInv, PinnedInv, [Next]_vars
  PROVE  PinnedInv'
<1>. USE NoSessionAssumption DEF TypeOK, LockTypeOK, Goto, Transmit, Queued, Reading, Writing, Active, Returned, Session, LockInv, LockExclusion, GuardOK, FreshInv, FreshOK, PinnedInv, PinnedOK, SessionsOK, Stored, BeforeLogin
<1>1. ASSUME NEW t \in Tasks, Start(t) PROVE PinnedInv'
  BY <1>1 DEF Start
<1>2. ASSUME NEW t \in Tasks, Cancel(t) PROVE PinnedInv'
  BY <1>2 DEF Cancel
<1>3. ASSUME NEW t \in Tasks, KeeperForgets(t) PROVE PinnedInv'
  BY <1>3 DEF KeeperForgets
<1>4. ASSUME NEW t \in Tasks, FirstAttempt(t) PROVE PinnedInv'
  BY <1>4 DEF FirstAttempt, Send, MayRead
<1>5. ASSUME NEW t \in Tasks, Rejected(t) PROVE PinnedInv'
  BY <1>5 DEF Rejected
<1>6. ASSUME NEW t \in Tasks, Finish(t) PROVE PinnedInv'
  BY <1>6 DEF Finish
<1>7. ASSUME NEW t \in Tasks, RefreshAuth(t) PROVE PinnedInv'
  BY <1>7 DEF RefreshAuth
<1>8. ASSUME NEW t \in Tasks, AlreadyRefreshed(t) PROVE PinnedInv'
  BY <1>8 DEF AlreadyRefreshed, MayWrite
<1>9. ASSUME NEW t \in Tasks, Login(t) PROVE PinnedInv'
  BY <1>9 DEF Login, MayWrite
<1>10. ASSUME NEW t \in Tasks, LoginAccepted(t) PROVE PinnedInv'
  BY <1>10 DEF LoginAccepted
<1>11. ASSUME NEW t \in Tasks, LoginDone(t) PROVE PinnedInv'
  BY <1>11 DEF LoginDone
<1>12. ASSUME NEW t \in Tasks, LoginFails(t) PROVE PinnedInv'
  BY <1>12 DEF LoginFails
<1>13. ASSUME NEW t \in Tasks, RetryAttempt(t) PROVE PinnedInv'
  BY <1>13 DEF RetryAttempt, Send, MayRead
<1>14. ASSUME NEW t \in Tasks, KeeperAnswers(t) PROVE PinnedInv'
  BY <1>14 DEF KeeperAnswers
<1>15. ASSUME NEW t \in Tasks, KeeperLogsIn(t) PROVE PinnedInv'
  BY <1>15 DEF KeeperLogsIn
<1>16. CASE UNCHANGED vars
  BY <1>16 DEF vars
<1>. QED
  BY <1>1, <1>2, <1>3, <1>4, <1>5, <1>6, <1>7, <1>8, <1>9, <1>10, <1>11, <1>12, <1>13, <1>14, <1>15, <1>16 DEF Next, Progress, ClientSteps, AllReturned

LEMMA RenewedStep ==
  ASSUME TypeOK, LockInv, WireInv, SessionsOK, FreshInv, RenewedInv, [Next]_vars
  PROVE  RenewedInv'
<1>. USE NoSessionAssumption DEF TypeOK, LockTypeOK, Goto, Transmit, Queued, Reading, Writing, Active, Returned, Session, LockInv, LockExclusion, GuardOK, FreshInv, FreshOK, RenewedInv, RenewedOK, LoginFailedFor, AwaitingRetry, SessionsOK, Stored, BeforeLogin
<1>1. ASSUME NEW t \in Tasks, Start(t) PROVE RenewedInv'
  BY <1>1 DEF Start
<1>2. ASSUME NEW t \in Tasks, Cancel(t) PROVE RenewedInv'
  BY <1>2 DEF Cancel
<1>3. ASSUME NEW t \in Tasks, KeeperForgets(t) PROVE RenewedInv'
  BY <1>3 DEF KeeperForgets
<1>4. ASSUME NEW t \in Tasks, FirstAttempt(t) PROVE RenewedInv'
  BY <1>4 DEF FirstAttempt, Send, MayRead
<1>5. ASSUME NEW t \in Tasks, Rejected(t) PROVE RenewedInv'
  BY <1>5 DEF Rejected
<1>6. ASSUME NEW t \in Tasks, Finish(t) PROVE RenewedInv'
  BY <1>6 DEF Finish
<1>7. ASSUME NEW t \in Tasks, RefreshAuth(t) PROVE RenewedInv'
  BY <1>7 DEF RefreshAuth
<1>8. ASSUME NEW t \in Tasks, AlreadyRefreshed(t) PROVE RenewedInv'
  BY <1>8 DEF AlreadyRefreshed, MayWrite
<1>9. ASSUME NEW t \in Tasks, Login(t) PROVE RenewedInv'
  BY <1>9 DEF Login, MayWrite
<1>10. ASSUME NEW t \in Tasks, LoginAccepted(t) PROVE RenewedInv'
  BY <1>10 DEF LoginAccepted
<1>11. ASSUME NEW t \in Tasks, LoginDone(t) PROVE RenewedInv'
  BY <1>11 DEF LoginDone
<1>12. ASSUME NEW t \in Tasks, LoginFails(t) PROVE RenewedInv'
  BY <1>12 DEF LoginFails
<1>13. ASSUME NEW t \in Tasks, RetryAttempt(t) PROVE RenewedInv'
  BY <1>13 DEF RetryAttempt, Send, MayRead
<1>14. ASSUME NEW t \in Tasks, KeeperAnswers(t) PROVE RenewedInv'
  BY <1>14 DEF KeeperAnswers
<1>15. ASSUME NEW t \in Tasks, KeeperLogsIn(t) PROVE RenewedInv'
  BY <1>15 DEF KeeperLogsIn
<1>16. CASE UNCHANGED vars
  BY <1>16 DEF vars
<1>. QED
  BY <1>1, <1>2, <1>3, <1>4, <1>5, <1>6, <1>7, <1>8, <1>9, <1>10, <1>11, <1>12, <1>13, <1>14, <1>15, <1>16 DEF Next, Progress, ClientSteps, AllReturned

LEMMA CountedStep ==
  ASSUME TypeOK, LockInv, SessionsOK, FreshInv, CountedInv, [Next]_vars
  PROVE  CountedInv'
<1>. USE DEF TypeOK, LockTypeOK, Goto, Transmit, Queued, Reading, Writing, Active, Returned, FreshInv, FreshOK, CountedInv, CountedOK, SessionsOK, BeforeLogin
<1>1. ASSUME NEW t \in Tasks, Start(t) PROVE CountedInv'
  BY <1>1 DEF Start
<1>2. ASSUME NEW t \in Tasks, Cancel(t) PROVE CountedInv'
  BY <1>2 DEF Cancel
<1>3. ASSUME NEW t \in Tasks, KeeperForgets(t) PROVE CountedInv'
  BY <1>3 DEF KeeperForgets
<1>4. ASSUME NEW t \in Tasks, FirstAttempt(t) PROVE CountedInv'
  BY <1>4 DEF FirstAttempt, Send, MayRead
<1>5. ASSUME NEW t \in Tasks, Rejected(t) PROVE CountedInv'
  BY <1>5 DEF Rejected
<1>6. ASSUME NEW t \in Tasks, Finish(t) PROVE CountedInv'
  BY <1>6 DEF Finish
<1>7. ASSUME NEW t \in Tasks, RefreshAuth(t) PROVE CountedInv'
  BY <1>7 DEF RefreshAuth
<1>8. ASSUME NEW t \in Tasks, AlreadyRefreshed(t) PROVE CountedInv'
  BY <1>8 DEF AlreadyRefreshed, MayWrite
<1>9. ASSUME NEW t \in Tasks, Login(t) PROVE CountedInv'
  BY <1>9 DEF Login, MayWrite
<1>10. ASSUME NEW t \in Tasks, LoginAccepted(t) PROVE CountedInv'
  BY <1>10 DEF LoginAccepted
<1>11. ASSUME NEW t \in Tasks, LoginDone(t) PROVE CountedInv'
  BY <1>11 DEF LoginDone
<1>12. ASSUME NEW t \in Tasks, LoginFails(t) PROVE CountedInv'
  BY <1>12 DEF LoginFails
<1>13. ASSUME NEW t \in Tasks, RetryAttempt(t) PROVE CountedInv'
  BY <1>13 DEF RetryAttempt, Send, MayRead
<1>14. ASSUME NEW t \in Tasks, KeeperAnswers(t) PROVE CountedInv'
  BY <1>14 DEF KeeperAnswers
<1>15. ASSUME NEW t \in Tasks, KeeperLogsIn(t) PROVE CountedInv'
  BY <1>15 DEF KeeperLogsIn
<1>16. CASE UNCHANGED vars
  BY <1>16 DEF vars
<1>. QED
  BY <1>1, <1>2, <1>3, <1>4, <1>5, <1>6, <1>7, <1>8, <1>9, <1>10, <1>11, <1>12, <1>13, <1>14, <1>15, <1>16 DEF Next, Progress, ClientSteps, AllReturned

LEMMA OneLoginStep ==
  ASSUME TypeOK, LockInv, SessionsOK, FreshInv, CountedInv, OneLoginPerGeneration, [Next]_vars
  PROVE  OneLoginPerGeneration'
<1>. USE DEF TypeOK, LockTypeOK, Goto, Transmit, Queued, Reading, Writing, Active, Returned, LockInv, GuardOK, FreshInv, FreshOK, CountedInv, CountedOK, SessionsOK, BeforeLogin, OneLoginPerGeneration
<1>1. ASSUME NEW t \in Tasks, Start(t) PROVE OneLoginPerGeneration'
  BY <1>1 DEF Start
<1>2. ASSUME NEW t \in Tasks, Cancel(t) PROVE OneLoginPerGeneration'
  BY <1>2 DEF Cancel
<1>3. ASSUME NEW t \in Tasks, KeeperForgets(t) PROVE OneLoginPerGeneration'
  BY <1>3 DEF KeeperForgets
<1>4. ASSUME NEW t \in Tasks, FirstAttempt(t) PROVE OneLoginPerGeneration'
  BY <1>4 DEF FirstAttempt, Send, MayRead
<1>5. ASSUME NEW t \in Tasks, Rejected(t) PROVE OneLoginPerGeneration'
  BY <1>5 DEF Rejected
<1>6. ASSUME NEW t \in Tasks, Finish(t) PROVE OneLoginPerGeneration'
  BY <1>6 DEF Finish
<1>7. ASSUME NEW t \in Tasks, RefreshAuth(t) PROVE OneLoginPerGeneration'
  BY <1>7 DEF RefreshAuth
<1>8. ASSUME NEW t \in Tasks, AlreadyRefreshed(t) PROVE OneLoginPerGeneration'
  BY <1>8 DEF AlreadyRefreshed, MayWrite
<1>9. ASSUME NEW t \in Tasks, Login(t) PROVE OneLoginPerGeneration'
  BY <1>9 DEF Login, MayWrite
<1>10. ASSUME NEW t \in Tasks, LoginAccepted(t) PROVE OneLoginPerGeneration'
  BY <1>10 DEF LoginAccepted
<1>11. ASSUME NEW t \in Tasks, LoginDone(t) PROVE OneLoginPerGeneration'
  BY <1>11 DEF LoginDone
<1>12. ASSUME NEW t \in Tasks, LoginFails(t) PROVE OneLoginPerGeneration'
  BY <1>12 DEF LoginFails
<1>13. ASSUME NEW t \in Tasks, RetryAttempt(t) PROVE OneLoginPerGeneration'
  BY <1>13 DEF RetryAttempt, Send, MayRead
<1>14. ASSUME NEW t \in Tasks, KeeperAnswers(t) PROVE OneLoginPerGeneration'
  BY <1>14 DEF KeeperAnswers
<1>15. ASSUME NEW t \in Tasks, KeeperLogsIn(t) PROVE OneLoginPerGeneration'
  BY <1>15 DEF KeeperLogsIn
<1>16. CASE UNCHANGED vars
  BY <1>16 DEF vars
<1>. QED
  BY <1>1, <1>2, <1>3, <1>4, <1>5, <1>6, <1>7, <1>8, <1>9, <1>10, <1>11, <1>12, <1>13, <1>14, <1>15, <1>16 DEF Next, Progress, ClientSteps, AllReturned

LEMMA InitIInv == Init => IInv
<1>. SUFFICES ASSUME Init PROVE IInv
  OBVIOUS
<1>1. TypeOK
  BY NoSessionAssumption
     DEF Init, LockInit, TypeOK, LockTypeOK, Mode, Session, Phase, Wire
<1>2. LockInv /\ WireInv
  BY DEF Init, LockInit, LockInv, LockExclusion, GuardOK, WireInv, WireOK,
         Reading, Writing
<1>3. SessionsOK /\ FreshInv
  BY NoSessionAssumption
     DEF Init, SessionsOK, Stored, FreshInv, FreshOK, Reading, Writing
<1>4. DeadInv /\ PinnedInv /\ RenewedInv /\ CountedInv
  BY DEF Init, DeadInv, DeadOK, PinnedInv, PinnedOK, RenewedInv, RenewedOK,
         AwaitingRetry, CountedInv, CountedOK
<1>5. OneLoginPerGeneration
  BY DEF Init, OneLoginPerGeneration
<1>. QED
  BY <1>1, <1>2, <1>3, <1>4, <1>5 DEF IInv

LEMMA StepIInv == IInv /\ [Next]_vars => IInv'
<1>. SUFFICES ASSUME IInv, [Next]_vars PROVE IInv'
  OBVIOUS
<1>. USE DEF IInv
<1>1. TypeOK' /\ LockInv' /\ WireInv'
  BY TypeStep, LockStepInv, WireStep
<1>2. SessionsOK' /\ FreshInv'
  BY SessionsStep, FreshStep
<1>3. DeadInv' /\ PinnedInv' /\ RenewedInv'
  BY DeadStep, PinnedStep, RenewedStep
<1>4. CountedInv' /\ OneLoginPerGeneration'
  BY CountedStep, OneLoginStep
<1>. QED
  BY <1>1, <1>2, <1>3, <1>4

LEMMA Invariance == Spec => []IInv
  BY InitIInv, StepIInv, PTL DEF Spec

-----------------------------------------------------------------------------
(* The theorems *)

\* Every variable of the client keeps its type; auth_generation only counts up.
THEOREM TypeCorrect == Spec => []TypeOK
<1>1. IInv => TypeOK
  BY DEF IInv
<1>. QED
  BY <1>1, Invariance, PTL

\* refresh_auth logs in only when the session in the jar is dead (or was left
\* there by a cancelled login), however many calls run concurrently.
THEOREM LoginsAreNeeded == Spec => []NoRedundantLogin
<1>1. IInv => NoRedundantLogin
  <2>. SUFFICES ASSUME IInv, NEW t \in Tasks, pc[t] = "login", jar \in valid
                PROVE  pc[jar] = "cancelled"
    BY DEF NoRedundantLogin
  <2>1. jar \in Tasks /\ cookie[t] \notin valid /\ observed[t] = generation
    BY DEF IInv, TypeOK, DeadInv, DeadOK, FreshInv, FreshOK, Writing
  <2>2. pc[jar] \in {"loggedIn", "cancelled"}
    BY <2>1 DEF IInv, PinnedInv, PinnedOK
  <2>3. pc[jar] # "loggedIn"
    BY <2>1 DEF IInv, LockInv, LockExclusion, GuardOK, Writing
  <2>. QED
    BY <2>2, <2>3
<1>. QED
  BY <1>1, Invariance, PTL

\* Calls rejected in one generation share a login, successful or not.
THEOREM LoginsAreShared == Spec => []OneLoginPerGeneration
<1>1. IInv => OneLoginPerGeneration
  BY DEF IInv
<1>. QED
  BY <1>1, Invariance, PTL

\* The second attempt never repeats the rejected cookie unless the login of
\* that generation failed.
THEOREM RetriesAreRenewed == Spec => RetryUsesNewCookie
<1>. DEFINE A == \A t \in Tasks :
                   pc[t] = "lockRetry" /\ pc'[t] = "retry"
                     => cookie'[t] # cookie[t] \/ LoginFailedFor(t)
<1>1. IInv /\ [Next]_vars => [A]_vars
  <2>. SUFFICES ASSUME IInv, [Next]_vars, NEW t \in Tasks,
                       pc[t] = "lockRetry", pc'[t] = "retry"
                PROVE  cookie'[t] # cookie[t] \/ LoginFailedFor(t)
    OBVIOUS
  <2>1. jar # cookie[t] \/ LoginFailedFor(t)
    BY DEF IInv, RenewedInv, RenewedOK, AwaitingRetry, FreshInv, FreshOK
  <2>2. cookie'[t] = jar
    <3>1. RetryAttempt(t)
      BY DEF Next, AllReturned, vars, Progress, ClientSteps, Start, Cancel, KeeperForgets,
         FirstAttempt, Rejected, Finish, RefreshAuth, AlreadyRefreshed, Login,
         LoginAccepted, LoginDone, LoginFails, RetryAttempt, KeeperAnswers,
         KeeperLogsIn, Goto, IInv, TypeOK
    <3>. QED
      BY <3>1 DEF RetryAttempt, Send, IInv, TypeOK
  <2>. QED
    BY <2>1, <2>2
<1>. QED
  BY <1>1, Invariance, PTL DEF Spec, RetryUsesNewCookie

\* While a request is in flight nobody stores a session or counts a login: the
\* read guard keeps every writer out.
THEOREM RequestsSeeOneSession == Spec => NoLoginDuringRequest
<1>. DEFINE InFlight == \E t \in Tasks :
                          pc[t] \in Reading /\ pc'[t] \in Reading \cup {"rejected"}
            A == InFlight => UNCHANGED <<jar, generation>>
<1>1. IInv /\ [Next]_vars => [A]_vars
  <2>. SUFFICES ASSUME IInv, Next, NEW t \in Tasks, pc[t] \in Reading
                PROVE  UNCHANGED <<jar, generation>>
    BY DEF vars
  <2>1. \A u \in Tasks : pc[u] \notin Writing
    BY DEF IInv, LockInv, LockExclusion, GuardOK, Reading, Writing
  <2>2. \A u \in Tasks : ~LoginAccepted(u) /\ ~LoginDone(u) /\ ~LoginFails(u)
    BY <2>1 DEF LoginAccepted, LoginDone, LoginFails, Writing
  <2>. QED
    BY <2>2 DEF Next, AllReturned, vars, Progress, ClientSteps, Start, Cancel, KeeperForgets,
       FirstAttempt, Rejected, Finish, RefreshAuth, AlreadyRefreshed, Login,
       RetryAttempt, KeeperAnswers, KeeperLogsIn
<1>. QED
  BY <1>1, Invariance, PTL DEF Spec, NoLoginDuringRequest

-----------------------------------------------------------------------------
(* Nobody waits for ever: the queue of the lock has a front, and whoever is  *)
(* there can go on as soon as the guards are dropped.                        *)

\* The queue is one line, and finitely many stand in it.
QueueOK(t) ==
  /\ want[t] = "none" => ahead[t] = {}
  /\ t \notin ahead[t]
  /\ \A u \in ahead[t] : want[u] # "none" /\ ahead[u] \subseteq ahead[t]

Queue == {t \in Tasks : want[t] # "none"}
QueueInv == IsFiniteSet(Queue) /\ \A t \in Tasks : QueueOK(t)

\* A call under a guard always has something in flight, or an answer to it.
BusyOK(t) ==
  /\ pc[t] \in Reading => wire[t] \in {"request", "success", "error", "401"}
  /\ pc[t] = "login" => wire[t] \in {"login", "204", "refused"}

BusyInv == \A t \in Tasks : BusyOK(t)

\* What t needs for a step of its own or of Keeper: the guards of ClientSteps,
\* KeeperAnswers and KeeperLogsIn.
CanGoOn(t) ==
  \/ pc[t] \in {"lockFirst", "lockRetry"} /\ MayRead(t)
  \/ pc[t] = "lockWrite" /\ MayWrite(t)
  \/ pc[t] \in {"rejected", "loggedIn"}
  \/ pc[t] \in Reading /\ wire[t] \in {"request", "success", "error", "401"}
  \/ pc[t] = "login" /\ wire[t] \in {"login", "204", "refused"}

NobodyStuck == (\E t \in Tasks : pc[t] \in Active) => \E t \in Tasks : CanGoOn(t)

LEMMA QueueStep ==
  ASSUME LockTypeOK, QueueInv, NEW t \in Tasks, NEW g \in Mode, NEW m \in Mode,
         LockStep(t, g, m)
  PROVE  QueueInv'
<1>1. /\ want' \in [Tasks -> Mode] /\ want'[t] = m
      /\ \A u \in Tasks \ {t} : want'[u] = want[u]
  BY DEF LockStep, LockTypeOK
<1>2. /\ ahead'[t] = IF m = "none" THEN {} ELSE Waiting(t)
      /\ \A u \in Tasks \ {t} : ahead'[u] = ahead[u] \ {t}
  BY DEF LockStep
<1>3. Queue' \subseteq Queue \cup {t}
  BY <1>1 DEF Queue
<1>4. IsFiniteSet(Queue')
  <2>1. IsFiniteSet(Queue \cup {t})
    BY FS_AddElement DEF QueueInv
  <2>. QED
    BY <2>1, <1>3, FS_Subset
<1>5. ASSUME NEW u \in Tasks, u # t PROVE QueueOK(u)'
  BY <1>1, <1>2, <1>5 DEF QueueInv, QueueOK, LockTypeOK
<1>6. QueueOK(t)'
  BY <1>1, <1>2 DEF QueueInv, QueueOK, LockTypeOK, Waiting
<1>. QED
  BY <1>4, <1>5, <1>6 DEF QueueInv

\* No action touches the lock in any other way.
LEMMA LockMoves ==
  ASSUME TypeOK, [Next]_vars
  PROVE  \/ \E t \in Tasks, g, m \in Mode : LockStep(t, g, m)
         \/ UNCHANGED lockVars
<1>. USE DEF Mode, TypeOK, LockTypeOK
<1>1. ASSUME NEW t \in Tasks,
             Start(t) \/ Cancel(t) \/ Rejected(t) \/ Finish(t) \/ RefreshAuth(t)
               \/ AlreadyRefreshed(t) \/ LoginDone(t) \/ LoginFails(t)
      PROVE  \E g, m \in Mode : LockStep(t, g, m)
  BY <1>1 DEF Start, Cancel, Rejected, Finish, RefreshAuth, AlreadyRefreshed, LoginDone,
     LoginFails, Request, Release
<1>2. ASSUME NEW t \in Tasks, FirstAttempt(t) \/ Login(t) \/ RetryAttempt(t)
      PROVE  \E g, m \in Mode : LockStep(t, g, m)
  BY <1>2 DEF FirstAttempt, Login, RetryAttempt, Acquire
<1>3. ASSUME NEW t \in Tasks,
             KeeperForgets(t) \/ LoginAccepted(t) \/ KeeperAnswers(t) \/ KeeperLogsIn(t)
      PROVE  UNCHANGED lockVars
  BY <1>3 DEF KeeperForgets, LoginAccepted, KeeperAnswers, KeeperLogsIn, lockVars
<1>4. CASE UNCHANGED vars
  BY <1>4 DEF vars, lockVars
<1>. QED
  BY <1>1, <1>2, <1>3, <1>4 DEF Next, Progress, ClientSteps, AllReturned

LEMMA BusyStep ==
  ASSUME TypeOK, BusyInv, [Next]_vars
  PROVE  BusyInv'
<1>. USE DEF TypeOK, Goto, Transmit, Reading, Writing, BusyInv, BusyOK
<1>1. ASSUME NEW t \in Tasks, Start(t) \/ Cancel(t) \/ Rejected(t) \/ RefreshAuth(t)
      PROVE  BusyInv'
  BY <1>1 DEF Start, Cancel, Rejected, RefreshAuth
<1>2. ASSUME NEW t \in Tasks, AlreadyRefreshed(t) \/ LoginDone(t) \/ LoginFails(t)
      PROVE  BusyInv'
  BY <1>2 DEF AlreadyRefreshed, LoginDone, LoginFails
<1>3. ASSUME NEW t \in Tasks, FirstAttempt(t) \/ Login(t) \/ RetryAttempt(t)
      PROVE  BusyInv'
  BY <1>3 DEF FirstAttempt, Login, RetryAttempt, Send
<1>4. ASSUME NEW t \in Tasks, Finish(t) \/ LoginAccepted(t)
      PROVE  BusyInv'
  BY <1>4 DEF Finish, LoginAccepted
<1>5. ASSUME NEW t \in Tasks, KeeperAnswers(t) \/ KeeperLogsIn(t) \/ KeeperForgets(t)
      PROVE  BusyInv'
  BY <1>5 DEF KeeperAnswers, KeeperLogsIn, KeeperForgets
<1>6. CASE UNCHANGED vars
  BY <1>6 DEF vars
<1>. QED
  BY <1>1, <1>2, <1>3, <1>4, <1>5, <1>6 DEF Next, Progress, ClientSteps, AllReturned

\* Of any of those who wait, one has none of them ahead.
LEMMA QueueHasFront ==
  ASSUME LockTypeOK, QueueInv, NEW S, S \subseteq Queue, S # {}
  PROVE  \E t \in S : ahead[t] \cap S = {}
<1>. DEFINE R == {ss \in Nat \X Nat : ss[1] < ss[2]}
            size(t) == Cardinality(ahead[t])
            Sizes == {size(t) : t \in S}
<1>1. ASSUME NEW t \in Queue PROVE IsFiniteSet(ahead[t]) /\ size(t) \in Nat
  <2>1. ahead[t] \subseteq Queue
    BY DEF QueueInv, QueueOK, Queue, LockTypeOK
  <2>2. IsFiniteSet(ahead[t])
    BY <2>1, FS_Subset DEF QueueInv
  <2>. QED
    BY <2>2, FS_CardinalityType
<1>2. IsWellFoundedOn(R, Nat)
  BY NatLessThanWellFounded, Zenon DEF OpToRel
<1>3. Sizes \subseteq Nat /\ Sizes # {}
  BY <1>1
<1>4. \A y, z \in Nat : <<y, z>> \notin R => z <= y
  OBVIOUS
<1>. HIDE DEF R, Sizes
<1>5. PICK n \in Sizes : \A y \in Sizes : <<y, n>> \notin R
  BY <1>2, <1>3, WFMin
<1>6. PICK t \in S : n = size(t)
  BY <1>5 DEF Sizes
<1>7. ahead[t] \cap S = {}
  <2>. SUFFICES ASSUME NEW u \in ahead[t], u \in S PROVE FALSE
    OBVIOUS
  <2>1. u \in Queue /\ ahead[u] \subseteq ahead[t] /\ u \notin ahead[u]
    BY DEF QueueInv, QueueOK, Queue, LockTypeOK
  <2>2. size(u) \in Sizes
    BY <2>1 DEF Sizes
  <2>3. size(t) <= size(u)
    BY <2>1, <2>2, <1>1, <1>4, <1>5, <1>6
  <2>4. size(u) <= size(t) /\ (size(t) = size(u) => ahead[t] = ahead[u])
    BY <2>1, <1>1, FS_Subset
  <2>. QED
    BY <2>1, <2>3, <2>4, <1>1
<1>. QED
  BY <1>7

WaitInv == QueueInv /\ BusyInv

LEMMA WaitInvariance == Spec => []WaitInv
<1>1. Init => WaitInv
  <2>. SUFFICES ASSUME Init PROVE WaitInv
    OBVIOUS
  <2>1. Queue = {} /\ \A t \in Tasks : QueueOK(t)
    BY DEF Init, LockInit, Queue, QueueOK
  <2>. QED
    BY <2>1, FS_EmptySet DEF Init, WaitInv, QueueInv, BusyInv, BusyOK, Reading
<1>2. IInv /\ WaitInv /\ [Next]_vars => WaitInv'
  <2>. SUFFICES ASSUME IInv, WaitInv, [Next]_vars PROVE WaitInv'
    OBVIOUS
  <2>1. TypeOK /\ LockTypeOK
    BY DEF IInv, TypeOK
  <2>2. QueueInv'
    <3>1. CASE UNCHANGED lockVars
      BY <3>1 DEF WaitInv, lockVars, QueueInv, QueueOK, Queue
    <3>2. CASE \E t \in Tasks, g, m \in Mode : LockStep(t, g, m)
      BY <3>2, <2>1, QueueStep DEF WaitInv
    <3>. QED
      BY <3>1, <3>2, <2>1, LockMoves
  <2>. QED
    BY <2>1, <2>2, BusyStep DEF WaitInv
<1>. QED
  BY <1>1, <1>2, Invariance, PTL DEF Spec

\* However many calls share the client, and whatever of them are cancelled: as
\* long as one of them is under way, one of them can take a step, or Keeper owes
\* it an answer.  No order of 401s, logins and dropped calls leaves all of them
\* waiting for the lock (auth_lock, src/clients/keeper/mod.rs).
THEOREM CallsNeverJam == Spec => []NobodyStuck
<1>1. IInv /\ WaitInv => NobodyStuck
  <2>. SUFFICES ASSUME IInv, WaitInv, NEW t \in Tasks, pc[t] \in Active
                PROVE  \E u \in Tasks : CanGoOn(u)
    BY DEF NobodyStuck
  <2>. USE DEF Active, Queued, Reading, Writing
  <2>1. CASE \E u \in Tasks : pc[u] \in Active \ Queued
    BY <2>1 DEF CanGoOn, WaitInv, BusyInv, BusyOK
  <2>2. CASE \A u \in Tasks : pc[u] \notin Active \ Queued
    <3>1. \A u \in Tasks : guard[u] = "none"
      BY <2>2 DEF IInv, LockInv, GuardOK, TypeOK, LockTypeOK, Mode
    <3>2. t \in Queue
      BY <2>2 DEF IInv, LockInv, GuardOK, Queue
    <3>3. PICK u \in Queue : ahead[u] = {}
      <4>1. \E u \in Queue : ahead[u] \cap Queue = {}
        BY <3>2, QueueHasFront DEF IInv, WaitInv, TypeOK
      <4>. QED
        BY <4>1 DEF WaitInv, QueueInv, QueueOK, Queue, IInv, TypeOK, LockTypeOK
    <3>4. u \in Tasks /\ want[u] \in {"read", "write"}
      BY <3>3 DEF Queue, IInv, TypeOK, LockTypeOK, Mode
    <3>5. CanGoOn(u)
      BY <3>1, <3>3, <3>4 DEF CanGoOn, MayRead, MayWrite, IInv, LockInv, GuardOK
    <3>. QED
      BY <3>4, <3>5
  <2>. QED
    BY <2>1, <2>2
<1>. QED
  BY <1>1, Invariance, WaitInvariance, PTL

\* Whoever waits for a read guard waits for writers: when none holds the lock
\* and none is ahead, the guard can be handed over at once, to that call or to
\* a reader ahead of it, whatever requests Keeper has not answered.
ReadersPass ==
  \A t \in Tasks :
    /\ want[t] = "read"
    /\ \A u \in Tasks : guard[u] # "write"
    /\ \A u \in ahead[t] : want[u] # "write"
    => \E u \in ahead[t] \cup {t} : MayRead(u)

\* Requests that Keeper never answers do not keep other requests waiting, unless
\* a login is ahead: readers share auth_lock.
THEOREM ReadersWaitForWritersOnly == Spec => []ReadersPass
<1>1. IInv /\ WaitInv => ReadersPass
  <2>. SUFFICES ASSUME IInv, WaitInv, NEW t \in Tasks, want[t] = "read",
                       \A u \in Tasks : guard[u] # "write",
                       \A u \in ahead[t] : want[u] # "write"
                PROVE  \E u \in ahead[t] \cup {t} : MayRead(u)
    BY DEF ReadersPass
  <2>. DEFINE S == ahead[t] \cup {t}
  <2>1. S \subseteq Queue
    BY DEF WaitInv, QueueInv, QueueOK, Queue, IInv, TypeOK, LockTypeOK
  <2>2. PICK u \in S : ahead[u] \cap S = {}
    BY <2>1, QueueHasFront DEF WaitInv, IInv, TypeOK
  <2>3. ahead[u] = {}
    BY <2>2 DEF WaitInv, QueueInv, QueueOK, IInv, TypeOK, LockTypeOK
  <2>4. want[u] = "read"
    BY <2>1 DEF Queue, IInv, TypeOK, LockTypeOK, Mode
  <2>. QED
    BY <2>3, <2>4 DEF MayRead
<1>. QED
  BY <1>1, Invariance, WaitInvariance, PTL

-----------------------------------------------------------------------------
(* Every step is one of the few that a call has left.                        *)

\* How many steps of its own and of Keeper a call can still take: the longest
\* way, through a 401, a login and a second attempt.
StepsLeft(t) ==
  LET answered == IF wire[t] \in {"request", "login"} THEN 0 ELSE 1
      steps == [idle |-> 12, lockFirst |-> 11, first |-> 10, rejected |-> 8, lockWrite |-> 7,
                login |-> 6, loggedIn |-> 4, lockRetry |-> 3, retry |-> 2]
  IN  IF pc[t] \in Returned THEN 0
      ELSE steps[pc[t]] - (IF pc[t] \in {"first", "login", "retry"} THEN answered ELSE 0)

\* A step brings some call closer to its end and none further from it, if it is
\* not that Keeper forgets a session.
GetsOn ==
  /\ \A t \in Tasks : StepsLeft(t)' <= StepsLeft(t)
  /\ \/ \E t \in Tasks : StepsLeft(t)' < StepsLeft(t)
     \/ UNCHANGED <<pc, wire>>

\* Whatever is answered, lost, forgotten or cancelled, a call is over after twelve
\* steps of its own and of Keeper: a rejected second attempt does not start over.
THEOREM CallsGetOn == Spec => [][GetsOn]_vars
<1>1. ASSUME IInv, WaitInv, [Next]_vars PROVE [GetsOn]_vars
  <2>. USE DEF StepsLeft, Returned, Goto, Transmit, Reading, GetsOn
  <2>0. TypeOK /\ WireInv /\ BusyInv
    BY <1>1 DEF IInv, WaitInv
  <2>. USE <2>0 DEF TypeOK, LockTypeOK, Phase, Active, Queued, Writing, Wire, WireInv, WireOK, BusyInv, BusyOK
  <2>1. ASSUME NEW t \in Tasks, Start(t) PROVE GetsOn
    BY <2>1 DEF Start
  <2>2. ASSUME NEW t \in Tasks, Cancel(t) PROVE GetsOn
    BY <2>2 DEF Cancel
  <2>3. ASSUME NEW t \in Tasks, KeeperForgets(t) PROVE GetsOn
    BY <2>3 DEF KeeperForgets
  <2>4. ASSUME NEW t \in Tasks, FirstAttempt(t) PROVE GetsOn
    BY <2>4 DEF FirstAttempt, Send
  <2>5. ASSUME NEW t \in Tasks, Rejected(t) PROVE GetsOn
    BY <2>5 DEF Rejected
  <2>6. ASSUME NEW t \in Tasks, Finish(t) PROVE GetsOn
    BY <2>6 DEF Finish
  <2>7. ASSUME NEW t \in Tasks, RefreshAuth(t) PROVE GetsOn
    BY <2>7 DEF RefreshAuth
  <2>8. ASSUME NEW t \in Tasks, AlreadyRefreshed(t) PROVE GetsOn
    BY <2>8 DEF AlreadyRefreshed
  <2>9. ASSUME NEW t \in Tasks, Login(t) PROVE GetsOn
    BY <2>9 DEF Login
  <2>10. ASSUME NEW t \in Tasks, LoginAccepted(t) PROVE GetsOn
    BY <2>10 DEF LoginAccepted
  <2>11. ASSUME NEW t \in Tasks, LoginDone(t) PROVE GetsOn
    BY <2>11 DEF LoginDone
  <2>12. ASSUME NEW t \in Tasks, LoginFails(t) PROVE GetsOn
    BY <2>12 DEF LoginFails
  <2>13. ASSUME NEW t \in Tasks, RetryAttempt(t) PROVE GetsOn
    BY <2>13 DEF RetryAttempt, Send
  <2>14. ASSUME NEW t \in Tasks, KeeperAnswers(t) PROVE GetsOn
    BY <2>14 DEF KeeperAnswers
  <2>15. ASSUME NEW t \in Tasks, KeeperLogsIn(t) PROVE GetsOn
    BY <2>15 DEF KeeperLogsIn
  <2>16. CASE UNCHANGED vars
    BY <2>16 DEF vars
  <2>. QED
    BY <1>1, <2>1, <2>2, <2>3, <2>4, <2>5, <2>6, <2>7, <2>8, <2>9, <2>10, <2>11, <2>12, <2>13, <2>14, <2>15, <2>16 DEF Next, Progress, ClientSteps, AllReturned
<1>. QED
  BY <1>1, Invariance, WaitInvariance, PTL DEF Spec

-----------------------------------------------------------------------------
(* What auth_generation counts.                                              *)

\* The login requests whose call no longer waits for them, and of these the ones
\* whose call has not been cancelled since.
Past == {t \in attempts : pc[t] \notin Writing}
Kept == {t \in Past : pc[t] # "cancelled"}

CountsLogins ==
  /\ IsFiniteSet(attempts)
  /\ Cardinality(Kept) <= generation
  /\ generation <= Cardinality(Past)

\* A call sends its login request while it is in Writing, and has not before.
AttemptsOK ==
  \A t \in Tasks :
    /\ pc[t] \in Writing => t \in attempts
    /\ pc[t] \in {"idle", "lockFirst", "first", "rejected", "lockWrite"} => t \notin attempts

LEMMA AttemptsStep == TypeOK /\ AttemptsOK /\ [Next]_vars => AttemptsOK'
<1>. SUFFICES ASSUME TypeOK, AttemptsOK, [Next]_vars PROVE AttemptsOK'
  OBVIOUS
<1>. USE DEF TypeOK, AttemptsOK, Goto, Writing
<1>1. ASSUME NEW t \in Tasks, Start(t) \/ Cancel(t) \/ KeeperForgets(t) PROVE AttemptsOK'
  BY <1>1 DEF Start, Cancel, KeeperForgets, Active, Queued, Reading
<1>2. ASSUME NEW t \in Tasks, FirstAttempt(t) \/ Rejected(t) \/ Finish(t) PROVE AttemptsOK'
  BY <1>2 DEF FirstAttempt, Rejected, Finish, Reading
<1>3. ASSUME NEW t \in Tasks, RefreshAuth(t) \/ AlreadyRefreshed(t) \/ Login(t) PROVE AttemptsOK'
  BY <1>3 DEF RefreshAuth, AlreadyRefreshed, Login
<1>4. ASSUME NEW t \in Tasks, LoginAccepted(t) \/ LoginDone(t) \/ LoginFails(t) \/ RetryAttempt(t)
      PROVE  AttemptsOK'
  BY <1>4 DEF LoginAccepted, LoginDone, LoginFails, RetryAttempt
<1>5. ASSUME NEW t \in Tasks, KeeperAnswers(t) \/ KeeperLogsIn(t) PROVE AttemptsOK'
  BY <1>5 DEF KeeperAnswers, KeeperLogsIn
<1>6. CASE UNCHANGED vars
  BY <1>6 DEF vars
<1>. QED
  BY <1>1, <1>2, <1>3, <1>4, <1>5, <1>6 DEF Next, Progress, ClientSteps, AllReturned

\* A step that leaves the two sets and the generation alone.
LEMMA CountStays ==
  ASSUME CountsLogins, UNCHANGED <<generation, Past, Kept>>, IsFiniteSet(attempts')
  PROVE  CountsLogins'
  BY DEF CountsLogins

LEMMA CountStep ==
  ASSUME TypeOK, AttemptsOK, CountsLogins, [Next]_vars
  PROVE  CountsLogins'
<1>1. IsFiniteSet(Past) /\ IsFiniteSet(Kept) /\ generation \in Nat
  BY FS_Subset DEF Past, Kept, CountsLogins, TypeOK
<1>2. Cardinality(Past) \in Nat /\ Cardinality(Kept) \in Nat
  BY <1>1, FS_CardinalityType
<1>. USE DEF TypeOK, AttemptsOK, Goto, Writing, Past, Kept
<1>3. ASSUME NEW t \in Tasks, Start(t) \/ FirstAttempt(t) \/ Rejected(t) \/ Finish(t)
      PROVE  CountsLogins'
  <2>1. UNCHANGED <<generation, attempts, Past, Kept>>
    BY <1>3 DEF Start, FirstAttempt, Rejected, Finish, Reading
  <2>. QED
    BY <2>1, CountStays DEF CountsLogins
<1>4. ASSUME NEW t \in Tasks, RefreshAuth(t) \/ AlreadyRefreshed(t) \/ LoginAccepted(t) \/ RetryAttempt(t)
      PROVE  CountsLogins'
  <2>1. UNCHANGED <<generation, attempts, Past, Kept>>
    BY <1>4 DEF RefreshAuth, AlreadyRefreshed, LoginAccepted, RetryAttempt
  <2>. QED
    BY <2>1, CountStays DEF CountsLogins
<1>5. ASSUME NEW t \in Tasks, KeeperForgets(t) \/ KeeperAnswers(t) \/ KeeperLogsIn(t)
      PROVE  CountsLogins'
  <2>1. UNCHANGED <<generation, attempts, Past, Kept>>
    BY <1>5 DEF KeeperForgets, KeeperAnswers, KeeperLogsIn
  <2>. QED
    BY <2>1, CountStays DEF CountsLogins
<1>6. ASSUME NEW t \in Tasks, Login(t) PROVE CountsLogins'
  <2>1. attempts' = attempts \cup {t} /\ UNCHANGED <<generation, Past, Kept>>
    BY <1>6 DEF Login
  <2>2. IsFiniteSet(attempts')
    BY <2>1, FS_AddElement DEF CountsLogins
  <2>. QED
    BY <2>1, <2>2, CountStays
<1>7. ASSUME NEW t \in Tasks, LoginDone(t) \/ LoginFails(t) PROVE CountsLogins'
  <2>1. /\ t \notin Past /\ Past' = Past \cup {t} /\ Kept' = Kept \cup {t}
        /\ attempts' = attempts /\ generation' = generation + 1
    BY <1>7 DEF LoginDone, LoginFails
  <2>2. t \notin Kept
    BY <2>1
  <2>. HIDE DEF Past, Kept
  <2>3. Cardinality(Past') = Cardinality(Past) + 1
    BY <1>1, <2>1, FS_AddElement
  <2>4. Cardinality(Kept') = Cardinality(Kept) + 1
    BY <1>1, <2>1, <2>2, FS_AddElement
  <2>. QED
    BY <1>1, <1>2, <2>1, <2>3, <2>4 DEF CountsLogins
<1>8. ASSUME NEW t \in Tasks, Cancel(t) PROVE CountsLogins'
  <2>1. Past \subseteq Past' /\ Kept' \subseteq Kept /\ UNCHANGED <<generation, attempts>>
    BY <1>8 DEF Cancel
  <2>. HIDE DEF Past, Kept
  <2>2. IsFiniteSet(Past') /\ IsFiniteSet(Past)
    <3>1. Past' \subseteq attempts
      BY <2>1 DEF Past
    <3>. QED
      BY <1>1, <3>1, FS_Subset DEF CountsLogins
  <2>3. Cardinality(Past) <= Cardinality(Past') /\ Cardinality(Past') \in Nat
    BY <2>1, <2>2, FS_Subset, FS_CardinalityType
  <2>4. Cardinality(Kept') <= Cardinality(Kept) /\ Cardinality(Kept') \in Nat
    BY <1>1, <2>1, FS_Subset, FS_CardinalityType
  <2>. QED
    BY <1>1, <1>2, <2>1, <2>3, <2>4 DEF CountsLogins
<1>9. CASE UNCHANGED vars
  <2>1. UNCHANGED <<generation, attempts, Past, Kept>>
    BY <1>9 DEF vars
  <2>. QED
    BY <2>1, CountStays DEF CountsLogins
<1>. QED
  BY <1>3, <1>4, <1>5, <1>6, <1>7, <1>8, <1>9 DEF Next, Progress, ClientSteps, AllReturned

\* auth_generation counts the logins, each once: it is at least the number of
\* login requests whose calls have lived to see the answer, failed ones too, and at
\* most that of all the requests that are over.  No call logs in twice, so however
\* many sessions Keeper forgets, n calls make at most n logins.
THEOREM GenerationCountsLogins == Spec => []CountsLogins
<1>1. Init => TypeOK /\ AttemptsOK /\ CountsLogins
  <2>. SUFFICES ASSUME Init PROVE TypeOK /\ AttemptsOK /\ CountsLogins
    OBVIOUS
  <2>1. TypeOK
    BY InitIInv DEF IInv
  <2>2. AttemptsOK
    BY DEF Init, AttemptsOK, Writing
  <2>3. Past = {} /\ Kept = {} /\ attempts = {} /\ generation = 0
    BY DEF Init, Past, Kept
  <2>4. IsFiniteSet({}) /\ Cardinality({}) = 0
    BY FS_EmptySet, Zenon
  <2>5. CountsLogins
    BY <2>3, <2>4 DEF CountsLogins
  <2>. QED
    BY <2>1, <2>2, <2>5
<1>. QED
  BY <1>1, TypeCorrect, AttemptsStep, CountStep, PTL DEF Spec

-----------------------------------------------------------------------------
(* The client implements SharedLogin *)

\* A call's own step is a step of SharedLogin by that caller, or none.
LEMMA CallSimulated ==
  ASSUME IInv, NEW t \in Tasks, Start(t) \/ Cancel(t) \/ Progress(t)
  PROVE  [Shared!AbsNext]_Shared!absVars
<1>. USE DEF Goto, AbstractPhase, AbstractSeen, Returned, Reading, Writing, Queued, Active
<1>1. /\ TypeOK /\ generation \in Nat /\ FreshOK(t)
      /\ pc \in [Tasks -> Phase] /\ observed \in [Tasks -> Nat]
  BY DEF IInv, TypeOK, FreshInv
<1>2. CASE Start(t)
  <2>. Shared!Begin(t)
    BY <1>2, <1>1 DEF Start, Shared!Begin, Shared!Move
  <2>. QED
    BY DEF Shared!AbsNext
<1>3. CASE Rejected(t)
  <2>. Shared!Reject(t)
    BY <1>3, <1>1 DEF Rejected, Shared!Reject, Shared!Move, FreshOK
  <2>. QED
    BY DEF Shared!AbsNext
<1>4. CASE AlreadyRefreshed(t)
  <2>1. Shared!Move(t, "rejected", "retrying")
    BY <1>4, <1>1 DEF AlreadyRefreshed, Shared!Move
  <2>2. /\ AbstractSeen(pc[t], observed[t]) # generation
        /\ UNCHANGED <<generation, [c \in Tasks |-> AbstractSeen(pc[c], observed[c])]>>
    BY <1>4, <1>1 DEF AlreadyRefreshed
  <2>. Shared!Join(t)
    BY <2>1, <2>2, <1>1, <1>4 DEF Shared!Join, AlreadyRefreshed
  <2>. QED
    BY DEF Shared!AbsNext
<1>5. CASE LoginDone(t)
  <2>. Shared!Advance(t)
    BY <1>5, <1>1 DEF LoginDone, Shared!Advance, Shared!Move, FreshOK
  <2>. QED
    BY DEF Shared!AbsNext
<1>6. CASE LoginFails(t)
  <2>. Shared!AdvanceFails(t)
    BY <1>6, <1>1 DEF LoginFails, Shared!AdvanceFails, Shared!Move, FreshOK
  <2>. QED
    BY DEF Shared!AbsNext
<1>7. CASE Finish(t)
  <2>1. PICK r \in {"ok", "failed", "unauthorized"} : pc' = [pc EXCEPT ![t] = r]
    BY <1>7 DEF Finish
  <2>2. pc[t] \in {"first", "retry"} /\ UNCHANGED <<observed, generation>>
    BY <1>7 DEF Finish
  <2>. Shared!Return(t)
    BY <2>1, <2>2, <1>1 DEF Shared!Return
  <2>. QED
    BY DEF Shared!AbsNext
<1>8. CASE Cancel(t)
  <2>. Shared!Return(t)
    BY <1>8, <1>1 DEF Cancel, Shared!Return, Shared!Move
  <2>. QED
    BY DEF Shared!AbsNext
<1>9. CASE FirstAttempt(t)
  BY <1>9, <1>1 DEF FirstAttempt, Shared!absVars
<1>10. CASE RefreshAuth(t)
  BY <1>10, <1>1 DEF RefreshAuth, Shared!absVars
<1>11. CASE Login(t)
  BY <1>11, <1>1 DEF Login, Shared!absVars
<1>12. CASE LoginAccepted(t)
  BY <1>12, <1>1 DEF LoginAccepted, Shared!absVars
<1>13. CASE RetryAttempt(t)
  BY <1>13, <1>1 DEF RetryAttempt, Shared!absVars
<1>14. CASE KeeperAnswers(t) \/ KeeperLogsIn(t)
  BY <1>14 DEF KeeperAnswers, KeeperLogsIn, Shared!absVars
<1>. QED
  BY <1>2, <1>3, <1>4, <1>5, <1>6, <1>7, <1>8, <1>9, <1>10, <1>11, <1>12, <1>13, <1>14 DEF Progress, ClientSteps

\* The client implements SharedLogin: one abstract login per generation, on
\* behalf of a caller that was rejected in it, and no second attempt before it.
THEOREM Implementation == Spec => ImplementsSharedLogin
<1>1. Init => Shared!AbsInit
  BY DEF Init, Shared!AbsInit, AbstractPhase, AbstractSeen
<1>2. IInv /\ [Next]_vars => [Shared!AbsNext]_Shared!absVars
  <2>. SUFFICES ASSUME IInv, [Next]_vars PROVE [Shared!AbsNext]_Shared!absVars
    OBVIOUS
  <2>1. CASE \E t \in Tasks : Start(t) \/ Cancel(t) \/ Progress(t)
    BY <2>1, CallSimulated
  <2>2. CASE \E t \in Tasks : KeeperForgets(t)
    BY <2>2 DEF KeeperForgets, Shared!absVars
  <2>3. CASE UNCHANGED vars
    BY <2>3 DEF vars, Shared!absVars
  <2>. QED
    BY <2>1, <2>2, <2>3 DEF Next, AllReturned
<1>. QED
  BY <1>1, <1>2, Invariance, PTL DEF Spec, ImplementsSharedLogin, Shared!AbsSpec
=============================================================================
