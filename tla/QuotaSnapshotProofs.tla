-------------------------- MODULE QuotaSnapshotProofs --------------------------
(***************************************************************************)
(* Proofs about QuotaSnapshot, for any identities of Keeper.               *)
(*                                                                         *)
(* The invariant IInv joins what a call holds to where it is (FreeOK) and  *)
(* where the calls are to where the handler is (HandlerOK).  What is known *)
(* of the client is not proved again: a snapshot is a behaviour of         *)
(* KeeperClient (ClientIsKept), whose theorems are used through Proved.    *)
(***************************************************************************)
EXTENDS QuotaSnapshot, TLAPS

\* What is proved about the client, with the calls of the snapshot as tasks.
Proved == INSTANCE KeeperClientProofs WITH Tasks <- Calls, NoSession <- "none"

\* A call that is not under way has no guard, waits for none, and has nothing
\* on the wire.
FreeOK ==
  \A t \in Calls : pc[t] \notin Client!Active =>
    guard[t] = "none" /\ want[t] = "none" /\ wire[t] = "none"

\* Nobody has called Keeper, or the three calls have come back ...
NoneYet == \A t \in Calls : pc[t] = "idle"
Answered == \A t \in Joined : pc[t] = "ok"

\* ... which is what the phases of the handler say.
HandlerOK ==
  /\ phase \in {"idle", "unauthorized"} => NoneYet
  /\ phase = "join" => pc["quota_cache"] = "idle" /\ items = {}
  /\ phase = "idle" => items = {}
  /\ phase \in {"quota", "ok"} => Answered /\ posted = AuthIndexes(listed)
  /\ phase = "quota" => posted # {}
  /\ phase = "ok" => pc["quota_cache"] = IF posted = {} THEN "idle" ELSE "ok"
  /\ phase = "failed" => \A t \in Calls : pc[t] \notin Client!Active

IInv == TypeOK /\ FreeOK /\ HandlerOK

-----------------------------------------------------------------------------
(* What a step of a call leaves as it should be *)

\* The calls as KeeperClient has them.
Typed == Client!TypeOK

LEMMA ClientMoves ==
  ASSUME Typed, FreeOK, NEW t \in Calls, Client!Progress(t)
  PROVE  /\ Typed' /\ FreeOK'
         /\ pc[t] \in Client!Active
         /\ \A u \in Calls \ {t} : pc'[u] = pc[u]
<1>. USE DEF Typed, FreeOK, Client!TypeOK, Client!LockTypeOK, Client!Mode, Client!Session, Client!Phase,
       Client!Active, Client!Queued, Client!Reading, Client!Writing, Client!Returned,
       Client!Wire, Client!Goto, Client!Transmit
<1>1. CASE Client!FirstAttempt(t)
  BY <1>1 DEF Client!FirstAttempt, Client!MayRead, Client!Acquire, Client!Send, Client!LockStep, Client!Waiting
<1>2. CASE Client!Rejected(t)
  BY <1>2 DEF Client!Rejected, Client!Release, Client!LockStep, Client!Waiting
<1>3. CASE Client!Finish(t)
  BY <1>3 DEF Client!Finish, Client!Release, Client!LockStep, Client!Waiting
<1>4. CASE Client!RefreshAuth(t)
  BY <1>4 DEF Client!RefreshAuth, Client!Request, Client!LockStep, Client!Waiting
<1>5. CASE Client!AlreadyRefreshed(t)
  BY <1>5 DEF Client!AlreadyRefreshed, Client!MayWrite, Client!Request, Client!LockStep, Client!Waiting
<1>6. CASE Client!Login(t)
  BY <1>6 DEF Client!Login, Client!MayWrite, Client!Acquire, Client!LockStep, Client!Waiting
<1>7. CASE Client!LoginAccepted(t)
  BY <1>7 DEF Client!LoginAccepted
<1>8. CASE Client!LoginDone(t)
  BY <1>8 DEF Client!LoginDone, Client!Request, Client!LockStep, Client!Waiting
<1>9. CASE Client!LoginFails(t)
  BY <1>9 DEF Client!LoginFails, Client!Release, Client!LockStep, Client!Waiting
<1>10. CASE Client!RetryAttempt(t)
  BY <1>10 DEF Client!RetryAttempt, Client!MayRead, Client!Acquire, Client!Send, Client!LockStep, Client!Waiting
<1>11. CASE Client!KeeperAnswers(t)
  BY <1>11 DEF Client!KeeperAnswers
<1>12. CASE Client!KeeperLogsIn(t)
  BY <1>12 DEF Client!KeeperLogsIn
<1>. QED
  BY <1>1, <1>2, <1>3, <1>4, <1>5, <1>6, <1>7, <1>8, <1>9, <1>10, <1>11, <1>12
  DEF Client!Progress, Client!ClientSteps

LEMMA ClientStarts ==
  ASSUME Typed, FreeOK, NEW t \in Calls, Client!Start(t)
  PROVE  /\ Typed' /\ FreeOK'
         /\ pc[t] = "idle"
         /\ \A u \in Calls \ {t} : pc'[u] = pc[u]
BY DEF Typed, FreeOK, Client!TypeOK, Client!LockTypeOK, Client!Mode, Client!Session, Client!Phase,
       Client!Active, Client!Queued, Client!Reading, Client!Writing, Client!Returned,
       Client!Wire, Client!Goto, Client!Start, Client!Request, Client!LockStep, Client!Waiting

LEMMA ClientDropped ==
  ASSUME Typed, FreeOK, NEW t \in Calls, Client!Cancel(t)
  PROVE  Typed' /\ FreeOK'
BY DEF Typed, FreeOK, Client!TypeOK, Client!LockTypeOK, Client!Mode, Client!Session, Client!Phase,
       Client!Active, Client!Queued, Client!Reading, Client!Writing, Client!Returned,
       Client!Wire, Client!Goto, Client!Transmit, Client!Cancel, Client!Release, Client!LockStep, Client!Waiting

LEMMA ClientRests ==
  ASSUME Typed, FreeOK, UNCHANGED clientVars
  PROVE  Typed' /\ FreeOK' /\ UNCHANGED pc
BY DEF Typed, FreeOK, Client!TypeOK, Client!LockTypeOK, Client!Mode, Client!Session, Client!Phase,
       Client!Active, Client!Queued, Client!Reading, Client!Writing, Client!Returned, Client!Wire, clientVars

-----------------------------------------------------------------------------
(* The invariant *)

LEMMA InitIInv == Init => IInv
<1>. SUFFICES ASSUME Init PROVE IInv
  OBVIOUS
<1>1. TypeOK
  BY DEF Init, TypeOK, Client!Init, Client!TypeOK, Client!LockInit, Client!LockTypeOK,
         Client!Mode, Client!Session, Client!Phase, Client!Wire
<1>2. FreeOK
  BY DEF Init, FreeOK, Client!Init, Client!LockInit
<1>3. HandlerOK
  BY DEF Init, HandlerOK, NoneYet, Client!Init
<1>. QED
  BY <1>1, <1>2, <1>3 DEF IInv

\* The steps of the handler that leave its calls where they are.
HandlerMoves ==
  Arrive \/ JoinSucceeds \/ QuotaSucceeds \/ JoinFails \/ Abandon \/ Dropped

LEMMA HandlerStep ==
  ASSUME IInv, HandlerMoves
  PROVE  IInv'
<1>. USE DEF IInv
<1>1. UNCHANGED clientVars /\ UNCHANGED disabled
  BY DEF HandlerMoves, Arrive, JoinSucceeds, QuotaSucceeds, JoinFails, Abandon, Dropped
<1>2. Typed' /\ FreeOK' /\ UNCHANGED pc
  BY <1>1, ClientRests DEF TypeOK, Typed
<1>3. TypeOK'
  <2>. USE <1>1, <1>2 DEF TypeOK, Typed
  <2>1. CASE Arrive        BY <2>1 DEF Arrive
  <2>2. CASE JoinSucceeds
    <3>1. posted' \in SUBSET AuthFiles
      BY <2>2 DEF JoinSucceeds, AuthIndexes
    <3>2. items' = {}
      BY <2>2 DEF JoinSucceeds, HandlerOK
    <3>. QED
      BY <2>2, <3>1, <3>2 DEF JoinSucceeds
  <2>3. CASE QuotaSucceeds BY <2>3 DEF QuotaSucceeds
  <2>4. CASE JoinFails     BY <2>4 DEF JoinFails
  <2>5. CASE Abandon       BY <2>5 DEF Abandon
  <2>6. CASE Dropped       BY <2>6 DEF Dropped
  <2>. QED
    BY <2>1, <2>2, <2>3, <2>4, <2>5, <2>6 DEF HandlerMoves
<1>4. HandlerOK'
  <2>. USE <1>1, <1>2 DEF HandlerOK
  <2>1. CASE Arrive        BY <2>1 DEF Arrive, NoneYet, Calls
  <2>2. CASE JoinSucceeds  BY <2>2 DEF JoinSucceeds, Answered
  <2>3. CASE QuotaSucceeds BY <2>3 DEF QuotaSucceeds, Answered
  <2>4. CASE JoinFails     BY <2>4 DEF JoinFails
  <2>5. CASE Abandon       BY <2>5 DEF Abandon
  <2>6. CASE Dropped       BY <2>6 DEF Dropped
  <2>. QED
    BY <2>1, <2>2, <2>3, <2>4, <2>5, <2>6 DEF HandlerMoves
<1>. QED
  BY <1>2, <1>3, <1>4

\* Calls are polled, and dropped, in the phases that have calls only.
LEMMA CallStep ==
  ASSUME IInv, NEW t \in Calls, Begin(t) \/ Work(t) \/ DropCall(t) \/ KeeperForgets(t)
  PROVE  IInv'
<1>. USE DEF IInv
<1>1. Typed /\ FreeOK
  BY DEF TypeOK, Typed
<1>2. CASE Begin(t)
  <2>1. Typed' /\ FreeOK' /\ pc[t] = "idle" /\ \A u \in Calls \ {t} : pc'[u] = pc[u]
    BY <1>1, <1>2, ClientStarts DEF Begin
  <2>2. UNCHANGED <<phase, listed, posted, items, disabled>>
    BY <1>2 DEF Begin, handlerVars
  <2>3. TypeOK'
    BY <2>1, <2>2 DEF TypeOK, Typed
  <2>4. HandlerOK'
    BY <1>2, <2>1, <2>2 DEF HandlerOK, Begin, Answered, Calls, Joined
  <2>. QED
    BY <2>1, <2>3, <2>4
<1>3. CASE Work(t)
  <2>1. /\ Typed' /\ FreeOK' /\ pc[t] \in Client!Active
        /\ \A u \in Calls \ {t} : pc'[u] = pc[u]
    BY <1>1, <1>3, ClientMoves DEF Work
  <2>2. UNCHANGED <<phase, posted, disabled>> /\ phase \in {"join", "quota"}
    BY <1>3 DEF Work
  <2>3. listed' = listed \/ (t = "identities" /\ listed' = Listing)
    BY <1>3 DEF Work
  <2>4. items' = items \/ (t = "quota_cache" /\ items' \in SUBSET posted)
    BY <1>3 DEF Work
  <2>5. Listing \in SUBSET [identity : Identities, disabled : BOOLEAN]
    <3>1. \A i \in Identities : [identity |-> i, disabled |-> i \in disabled]
                                  \in [identity : Identities, disabled : BOOLEAN]
      OBVIOUS
    <3>. QED
      BY <3>1, Zenon DEF Listing
  <2>6. TypeOK'
    BY <2>1, <2>2, <2>3, <2>4, <2>5 DEF TypeOK, Typed
  <2>7. CASE phase = "join"
    <3>1. t # "quota_cache"
      BY <2>1, <2>7 DEF HandlerOK, Client!Active, Client!Queued, Client!Reading, Client!Writing
    <3>2. pc'["quota_cache"] = "idle" /\ items' = {}
      BY <2>1, <2>4, <2>7, <3>1 DEF HandlerOK, Calls
    <3>3. HandlerOK'
      BY <2>2, <2>7, <3>2 DEF HandlerOK
    <3>. QED
      BY <2>1, <2>6, <3>3
  <2>8. CASE phase = "quota"
    <3>1. t \notin Joined
      BY <2>1, <2>8 DEF HandlerOK, Answered, Client!Active, Client!Queued, Client!Reading, Client!Writing
    <3>2. listed' = listed /\ Answered'
      BY <2>1, <2>3, <3>1, <2>8 DEF HandlerOK, Answered, Joined, Calls
    <3>3. HandlerOK'
      BY <2>2, <2>8, <3>2 DEF HandlerOK
    <3>. QED
      BY <2>1, <2>6, <3>3
  <2>. QED
    BY <2>2, <2>7, <2>8
<1>4. CASE DropCall(t)
  <2>1. Typed' /\ FreeOK'
    BY <1>1, <1>4, ClientDropped DEF DropCall
  <2>2. UNCHANGED <<phase, listed, posted, items, disabled>> /\ phase = "dropping"
    BY <1>4 DEF DropCall, handlerVars
  <2>3. TypeOK'
    BY <2>1, <2>2 DEF TypeOK, Typed
  <2>4. HandlerOK'
    BY <2>2 DEF HandlerOK
  <2>. QED
    BY <2>1, <2>3, <2>4
<1>5. CASE KeeperForgets(t)
  <2>1. UNCHANGED <<guard, want, wire, pc, phase, listed, posted, items, disabled>>
    BY <1>5 DEF KeeperForgets, handlerVars, Client!KeeperForgets
  <2>2. Typed'
    BY <1>1, <1>5 DEF Typed, KeeperForgets, Client!KeeperForgets, Client!TypeOK, Client!LockTypeOK
  <2>3. TypeOK' /\ FreeOK' /\ HandlerOK'
    BY <2>1, <2>2 DEF TypeOK, Typed, FreeOK, HandlerOK, NoneYet, Answered
  <2>. QED
    BY <2>3
<1>. QED
  BY <1>2, <1>3, <1>4, <1>5

LEMMA SwitchStep ==
  ASSUME IInv, NEW i \in Identities, Switch(i)
  PROVE  IInv'
<1>1. UNCHANGED clientVars /\ UNCHANGED <<phase, listed, posted, items>>
  BY DEF Switch, handlerVars
<1>2. Typed' /\ FreeOK' /\ UNCHANGED pc
  BY <1>1, ClientRests DEF IInv, TypeOK, Typed
<1>3. disabled' \in SUBSET Identities
  BY DEF IInv, TypeOK, Switch
<1>4. TypeOK'
  BY <1>1, <1>2, <1>3 DEF IInv, TypeOK, Typed
<1>5. HandlerOK'
  BY <1>1, <1>2 DEF IInv, HandlerOK, NoneYet, Answered
<1>. QED
  BY <1>2, <1>4, <1>5 DEF IInv

LEMMA StepIInv == IInv /\ [Next]_vars => IInv'
<1>. SUFFICES ASSUME IInv, [Next]_vars PROVE IInv'
  OBVIOUS
<1>1. CASE UNCHANGED vars
  <2>1. UNCHANGED clientVars /\ UNCHANGED <<phase, listed, posted, items, disabled>>
    BY <1>1 DEF vars, handlerVars
  <2>2. Typed' /\ FreeOK' /\ UNCHANGED pc
    BY <2>1, ClientRests DEF IInv, TypeOK, Typed
  <2>3. TypeOK' /\ HandlerOK'
    BY <2>1, <2>2 DEF IInv, TypeOK, Typed, HandlerOK, NoneYet, Answered
  <2>. QED
    BY <2>2, <2>3 DEF IInv
<1>2. CASE HandlerMoves
  BY <1>2, HandlerStep
<1>3. ASSUME NEW t \in Calls, Begin(t) \/ Work(t) \/ DropCall(t) \/ KeeperForgets(t) PROVE IInv'
  BY <1>3, CallStep
<1>4. ASSUME NEW i \in Identities, Switch(i) PROVE IInv'
  BY <1>4, SwitchStep
<1>. QED
  BY <1>1, <1>2, <1>3, <1>4 DEF Next, Step, Ended, HandlerMoves

LEMMA Invariance == Spec => []IInv
<1>1. Init => IInv
  BY InitIInv
<1>2. IInv /\ [Next]_vars => IInv'
  BY StepIInv
<1>. QED
  BY <1>1, <1>2, PTL DEF Spec

-----------------------------------------------------------------------------
(* The theorems *)

\* The handler, its four calls and what they share are always well formed, and
\* no quota is shown that was not asked for (src/services/quota.rs).
THEOREM TypeCorrect == Spec => []TypeOK
<1>1. IInv => TypeOK
  BY DEF IInv
<1>. QED
  BY <1>1, Invariance, PTL

\* However the handler ended, by an answer, by the error of one call or because
\* its peer has gone, none of its calls holds or awaits auth_lock.
THEOREM FuturesAreDropped == Spec => []NothingLeftBehind
<1>1. IInv => NothingLeftBehind
  <2>. SUFFICES ASSUME IInv, phase \in {"ok", "failed"}, NEW t \in Calls
                PROVE  pc[t] \notin Client!Active
    BY DEF NothingLeftBehind, IInv, FreeOK
  <2>1. CASE phase = "ok"
    BY <2>1 DEF IInv, HandlerOK, Answered, Calls, Client!Active, Client!Queued,
                Client!Reading, Client!Writing
  <2>2. CASE phase = "failed"
    BY <2>2 DEF IInv, HandlerOK
  <2>. QED
    BY <2>1, <2>2
<1>. QED
  BY <1>1, Invariance, PTL

\* The quotas of a snapshot are of auth files that it lists as enabled, and they
\* were asked for exactly when there is one (auth_indexes in snapshot).
THEOREM SnapshotsAreConsistent == Spec => []QuotasAreOfListed
<1>1. IInv => QuotasAreOfListed
  <2>. SUFFICES ASSUME IInv, phase = "ok" PROVE QuotasAreOfListed
    BY DEF QuotasAreOfListed
  <2>1. posted = AuthIndexes(listed) /\ items \subseteq posted
    BY DEF IInv, TypeOK, HandlerOK
  <2>2. \A i : i \in posted <=> i \in AuthFiles /\ [identity |-> i, disabled |-> FALSE] \in listed
    <3>1. listed \in SUBSET [identity : Identities, disabled : BOOLEAN]
      BY DEF IInv, TypeOK
    <3>2. \A e \in listed : ~e.disabled => e = [identity |-> e.identity, disabled |-> FALSE]
      BY <3>1
    <3>. QED
      BY <2>1, <3>2 DEF AuthIndexes
  <2>3. pc["quota_cache"] = "ok" <=> posted # {}
    BY DEF IInv, HandlerOK
  <2>. QED
    BY <2>1, <2>2, <2>3 DEF QuotasAreOfListed
<1>. QED
  BY <1>1, Invariance, PTL

-----------------------------------------------------------------------------
(* The client in the snapshot *)

\* The handler starts, polls and drops its calls as any caller may: seen from
\* the client, a snapshot is a behaviour of KeeperClient.
THEOREM ClientIsKept == Spec => Client!Spec
<1>1. Init => Client!Init
  BY DEF Init
<1>2. [Next]_vars => [Client!Next]_Client!vars
  <2>. SUFFICES ASSUME [Next]_vars PROVE [Client!Next]_Client!vars
    OBVIOUS
  <2>1. CASE UNCHANGED clientVars
    BY <2>1 DEF clientVars, Client!vars
  <2>2. ASSUME NEW t \in Calls, Begin(t) \/ Work(t) \/ DropCall(t) \/ KeeperForgets(t)
        PROVE  Client!Next
    BY <2>2 DEF Begin, Work, DropCall, KeeperForgets, Client!Next
  <2>. QED
    BY <2>1, <2>2 DEF Next, Step, Ended, vars, Arrive, JoinSucceeds, QuotaSucceeds, JoinFails,
       Abandon, Dropped, Switch
<1>. QED
  BY <1>1, <1>2, PTL DEF Spec, Client!Spec

\* The client that QuotaSnapshot is built on is the one that is proved about.
LEMMA SameNext == [Client!Next]_Client!vars => [Proved!Next]_Proved!vars
<1>. USE DEF Client!Goto, Proved!Goto, Client!Transmit, Proved!Transmit, Client!Request,
             Proved!Request, Client!Release, Proved!Release, Client!Acquire, Proved!Acquire,
             Client!LockStep, Proved!LockStep, Client!Waiting, Proved!Waiting, Client!Send,
             Proved!Send, Client!MayRead, Proved!MayRead, Client!MayWrite, Proved!MayWrite,
             Client!Active, Proved!Active, Client!Queued, Proved!Queued, Client!Reading,
             Proved!Reading, Client!Writing, Proved!Writing
<1>1. \A t \in Calls : Client!Start(t) => Proved!Start(t)
  BY DEF Client!Start, Proved!Start
<1>2. \A t \in Calls : Client!Cancel(t) => Proved!Cancel(t)
  BY DEF Client!Cancel, Proved!Cancel
<1>3. \A t \in Calls : Client!FirstAttempt(t) => Proved!FirstAttempt(t)
  BY DEF Client!FirstAttempt, Proved!FirstAttempt
<1>4. \A t \in Calls : Client!Rejected(t) => Proved!Rejected(t)
  BY DEF Client!Rejected, Proved!Rejected
<1>5. \A t \in Calls : Client!Finish(t) => Proved!Finish(t)
  BY DEF Client!Finish, Proved!Finish
<1>6. \A t \in Calls : Client!RefreshAuth(t) => Proved!RefreshAuth(t)
  BY DEF Client!RefreshAuth, Proved!RefreshAuth
<1>7. \A t \in Calls : Client!AlreadyRefreshed(t) => Proved!AlreadyRefreshed(t)
  BY DEF Client!AlreadyRefreshed, Proved!AlreadyRefreshed
<1>8. \A t \in Calls : Client!Login(t) => Proved!Login(t)
  BY DEF Client!Login, Proved!Login
<1>9. \A t \in Calls : Client!LoginAccepted(t) => Proved!LoginAccepted(t)
  BY DEF Client!LoginAccepted, Proved!LoginAccepted
<1>10. \A t \in Calls : Client!LoginDone(t) => Proved!LoginDone(t)
  BY DEF Client!LoginDone, Proved!LoginDone
<1>11. \A t \in Calls : Client!LoginFails(t) => Proved!LoginFails(t)
  BY DEF Client!LoginFails, Proved!LoginFails
<1>12. \A t \in Calls : Client!RetryAttempt(t) => Proved!RetryAttempt(t)
  BY DEF Client!RetryAttempt, Proved!RetryAttempt
<1>13. \A t \in Calls : Client!KeeperAnswers(t) => Proved!KeeperAnswers(t)
  BY DEF Client!KeeperAnswers, Proved!KeeperAnswers
<1>14. \A t \in Calls : Client!KeeperLogsIn(t) => Proved!KeeperLogsIn(t)
  BY DEF Client!KeeperLogsIn, Proved!KeeperLogsIn
<1>15. \A t \in Calls : Client!KeeperForgets(t) => Proved!KeeperForgets(t)
  BY DEF Client!KeeperForgets, Proved!KeeperForgets
<1>. QED
  BY <1>1, <1>2, <1>3, <1>4, <1>5, <1>6, <1>7, <1>8, <1>9, <1>10, <1>11, <1>12, <1>13, <1>14,
     <1>15
  DEF Client!vars, Proved!vars, Client!Next, Proved!Next, Client!AllReturned,
      Proved!AllReturned, Client!Returned, Proved!Returned, Client!Progress, Proved!Progress, Client!ClientSteps, Proved!ClientSteps

LEMMA SameClient == Client!Spec => Proved!Spec
<1>1. Client!Init => Proved!Init
  BY DEF Client!Init, Proved!Init, Client!LockInit, Proved!LockInit
<1>. QED
  BY <1>1, SameNext, PTL DEF Client!Spec, Proved!Spec

\* The calls of a snapshot that Keeper rejects together, because it has lost the
\* session, send one login between them, and none replaces a session that works.
THEOREM OneLoginPerSnapshot ==
  Spec => [](Client!NoRedundantLogin /\ Client!OneLoginPerGeneration)
<1>1. "none" \notin Calls
  BY DEF Calls, Joined
<1>2. Proved!Spec => []Proved!NoRedundantLogin
  BY <1>1, Proved!LoginsAreNeeded, PTL
<1>3. Proved!Spec => []Proved!OneLoginPerGeneration
  BY <1>1, Proved!LoginsAreShared, PTL
<1>4. Proved!NoRedundantLogin => Client!NoRedundantLogin
  BY DEF Proved!NoRedundantLogin, Client!NoRedundantLogin
<1>5. Proved!OneLoginPerGeneration => Client!OneLoginPerGeneration
  BY DEF Proved!OneLoginPerGeneration, Client!OneLoginPerGeneration
<1>. QED
  BY <1>2, <1>3, <1>4, <1>5, ClientIsKept, SameClient, PTL

\* What the handler needs for a step of Step or Work, by their guards.
CanGoOn ==
  \/ \E t \in Calls : pc[t] = "idle" /\ phase = IF t \in Joined THEN "join" ELSE "quota"
  \/ \E t \in Calls : phase \in {"join", "quota"} /\ Proved!CanGoOn(t)
  \/ phase = "join" /\ \A t \in Joined : pc[t] = "ok"
  \/ phase = "quota" /\ pc["quota_cache"] = "ok"
  \/ phase \in {"join", "quota"} /\ \E t \in Calls : pc[t] \in Broken
  \/ phase = "dropping"

NeverStuck == phase \in {"join", "quota", "dropping"} => CanGoOn

\* A snapshot that is under way can always take a step, or Keeper owes one of
\* its calls an answer: the calls that try_join! runs at once share auth_lock,
\* and neither do they block one another nor does the handler wait for a call
\* that it has not started or that has failed.
THEOREM SnapshotsNeverJam == Spec => []NeverStuck
<1>1. Proved!Spec => []Proved!NobodyStuck
  <2>1. "none" \notin Calls
    BY DEF Calls, Joined
  <2>. QED
    BY <2>1, Proved!CallsNeverJam, PTL
<1>2. TypeOK /\ Proved!NobodyStuck => NeverStuck
  <2>. SUFFICES ASSUME TypeOK, Proved!NobodyStuck, phase \in {"join", "quota"}
                PROVE  CanGoOn
    BY DEF NeverStuck, CanGoOn
  <2>. DEFINE mine == IF phase = "join" THEN Joined ELSE {"quota_cache"}
  <2>1. \A t \in Calls : pc[t] = "idle" \/ pc[t] \in Client!Active \/ pc[t] = "ok"
                           \/ pc[t] \in Broken
    BY DEF TypeOK, Client!TypeOK, Client!Phase, Client!Returned, Broken
  <2>2. CASE \E t \in mine : pc[t] = "idle"
    BY <2>2 DEF CanGoOn, Calls, Joined
  <2>3. CASE \E t \in Calls : pc[t] \in Broken
    BY <2>3 DEF CanGoOn
  <2>4. CASE \E t \in Calls : pc[t] \in Client!Active
    <3>1. \E t \in Calls : Proved!CanGoOn(t)
      BY <2>4 DEF Proved!NobodyStuck, Proved!Active, Client!Active, Proved!Queued, Client!Queued,
         Proved!Reading, Client!Reading, Proved!Writing, Client!Writing
    <3>. QED
      BY <3>1 DEF CanGoOn
  <2>5. CASE \A t \in mine : pc[t] = "ok"
    BY <2>5 DEF CanGoOn
  <2>. QED
    BY <2>1, <2>2, <2>3, <2>4, <2>5 DEF Calls
<1>. QED
  BY <1>1, <1>2, TypeCorrect, ClientIsKept, SameClient, PTL

\* How far the handler is from its end.
PhasesLeft == IF phase = "idle" THEN 4 ELSE IF phase = "join" THEN 3
              ELSE IF phase = "quota" THEN 2 ELSE IF phase = "dropping" THEN 1 ELSE 0

\* A step brings the handler or one of its calls closer to the end and none
\* further from it, if it is not one of Keeper's own.
GetsOn ==
  /\ PhasesLeft' <= PhasesLeft
  /\ \A t \in Calls : Proved!StepsLeft(t)' <= Proved!StepsLeft(t)
  /\ \/ PhasesLeft' < PhasesLeft
     \/ \E t \in Calls : Proved!StepsLeft(t)' < Proved!StepsLeft(t)
     \/ UNCHANGED <<handlerVars, pc, wire>>

\* A snapshot is over after a bounded number of steps of the handler, its calls
\* and Keeper: try_join! and the fourth call never start a call again.
THEOREM SnapshotsGetOn == Spec => [][GetsOn]_vars
<1>1. Proved!Spec => [][Proved!GetsOn]_Proved!vars
  <2>1. "none" \notin Calls
    BY DEF Calls, Joined
  <2>. QED
    BY <2>1, Proved!CallsGetOn, PTL
<1>2. ASSUME TypeOK, [Next]_vars, [Proved!GetsOn]_Proved!vars PROVE [GetsOn]_vars
  <2>1. \A t \in Calls : Proved!StepsLeft(t) \in Nat
    BY <1>2 DEF TypeOK, Client!TypeOK, Client!Phase, Client!Active, Client!Queued, Client!Reading,
       Client!Writing, Client!Returned, Proved!StepsLeft, Proved!Returned
  <2>2. CASE UNCHANGED <<pc, wire>>
    <3>1. \A t \in Calls : Proved!StepsLeft(t)' = Proved!StepsLeft(t)
      BY <2>2 DEF Proved!StepsLeft
    <3>2. \A t \in Calls : Proved!StepsLeft(t)' <= Proved!StepsLeft(t)
      BY <2>1, <3>1
    <3>3. PhasesLeft' <= PhasesLeft /\ (PhasesLeft' < PhasesLeft \/ UNCHANGED handlerVars)
      <4>1. CASE Arrive \/ JoinSucceeds \/ QuotaSucceeds \/ JoinFails \/ Abandon \/ Dropped
        BY <4>1 DEF PhasesLeft, Arrive, JoinSucceeds, QuotaSucceeds, JoinFails, Abandon, Dropped
      <4>2. ASSUME NEW t \in Calls, Begin(t) \/ DropCall(t) PROVE UNCHANGED handlerVars
        BY <4>2 DEF Begin, DropCall
      <4>3. ASSUME NEW t \in Calls, Work(t) PROVE UNCHANGED handlerVars
        BY <2>2, <4>3 DEF Work, handlerVars
      <4>4. ASSUME NEW t \in Calls, KeeperForgets(t) PROVE UNCHANGED handlerVars
        BY <4>4 DEF KeeperForgets
      <4>5. ASSUME NEW i \in Identities, Switch(i) PROVE UNCHANGED handlerVars
        BY <4>5 DEF Switch
      <4>6. ASSUME UNCHANGED vars PROVE UNCHANGED handlerVars
        BY <4>6 DEF vars
      <4>7. UNCHANGED handlerVars => PhasesLeft' = PhasesLeft /\ PhasesLeft \in Nat
        BY DEF handlerVars, PhasesLeft
      <4>. QED
        BY <1>2, <4>1, <4>2, <4>3, <4>4, <4>5, <4>6, <4>7 DEF Next, Step, Ended
    <3>. QED
      BY <2>2, <3>2, <3>3 DEF GetsOn
  <2>3. CASE ~ UNCHANGED <<pc, wire>>
    <3>1. Proved!GetsOn
      BY <1>2, <2>3 DEF Proved!vars
    <3>2. UNCHANGED phase
      BY <1>2, <2>3 DEF Next, Step, Arrive, JoinSucceeds, QuotaSucceeds, JoinFails, Abandon, Dropped,
         Begin, DropCall, Work, KeeperForgets, Switch, Ended, vars, clientVars, handlerVars
    <3>. QED
      BY <2>3, <3>1, <3>2 DEF GetsOn, Proved!GetsOn, PhasesLeft
  <2>. QED
    BY <2>2, <2>3
<1>. QED
  BY <1>1, <1>2, TypeCorrect, ClientIsKept, SameClient, PTL DEF Spec
=============================================================================
