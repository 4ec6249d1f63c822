-------------------------- MODULE OAuthStatesProofs --------------------------
(***************************************************************************)
(* Proofs about OAuthStates, for any number of requests, any TTL and any   *)
(* clock.  The inductive invariant IInv holds because of two facts: while  *)
(* a callback holds its SHARED lock nobody removes the row that it has     *)
(* read (Isolated), and a row disappears only when its state has expired   *)
(* or a callback has used it (Missing).                                    *)
(***************************************************************************)
EXTENDS OAuthStates, TLAPS

\* A callback presents a state that was sent to a browser.
PresentsOK ==
  \A c \in Callbacks : step[c] # "idle" /\ step[c] # "failed"
    => presents[c] \in Starts /\ step[presents[c]] = "redirected"

\* Only states that were sent have a row.
RowsOK == \A s \in Starts : Hash(s) \in rows => step[s] = "redirected"

\* What the SELECT has found is still there.
Isolated ==
  \A c \in Callbacks : step[c] \in Holding /\ verifier[c] # None
    => verifier[c] = presents[c] /\ Hash(presents[c]) \in rows

\* A state that was used has no row.
UsedGone ==
  \A c \in Callbacks : step[c] = "verified" => Hash(presents[c]) \notin rows

Over(s) == expires[s] <= now \/ Used(s)

\* A state that was sent and has no row has expired or was used.
Missing == \A s \in Starts : step[s] = "redirected" /\ Hash(s) \notin rows => Over(s)

\* So has the state of a callback whose SELECT found nothing.
NothingFound ==
  \A c \in Callbacks : \/ step[c] \in Holding /\ verifier[c] = None
                       \/ step[c] = "rejected"
    => Over(presents[c])

StampsOK == \A r \in Requests : stamp[r] <= now

IInv ==
  /\ TypeOK
  /\ PresentsOK
  /\ RowsOK
  /\ Isolated
  /\ UsedGone
  /\ Missing
  /\ NothingFound
  /\ StampsOK
  /\ StateUsedOnce

-----------------------------------------------------------------------------
LEMMA HashInjective == \A s, u : Hash(s) = Hash(u) => s = u
  BY DEF Hash

LEMMA TypeStep ==
  ASSUME TypeOK, [Next]_vars
  PROVE  TypeOK'
<1>. USE TTLAssumption, MaxTimeAssumption
     DEF TypeOK, Move, StartStep, CallbackStep, ReadClock, Remove, Requests
<1>. USE RequestsAssumption
<1>1. ASSUME NEW s \in Starts, Start(s) \/ DbCleans(s) \/ BuildOAuthStart(s) PROVE TypeOK'
  BY <1>1 DEF Start, DbCleans, BuildOAuthStart
<1>2. ASSUME NEW s \in Starts, DbInserts(s) PROVE TypeOK'
  <2>1. stamp[s] + TTL \in 0..(MaxTime + TTL)
    OBVIOUS
  <2>. QED
    BY <1>2, <2>1 DEF DbInserts
<1>3. ASSUME NEW c \in Callbacks, NEW s \in Starts, Callback(c, s) PROVE TypeOK'
  BY <1>3 DEF Callback
<1>4. ASSUME NEW c \in Callbacks, DbSelects(c) \/ DbDeletes(c) \/ DbCommits(c) PROVE TypeOK'
  BY <1>4 DEF DbSelects, DbDeletes, DbCommits
<1>5. ASSUME NEW r \in Requests, Fails(r) PROVE TypeOK'
  BY <1>5 DEF Fails
<1>6. CASE Tick \/ UNCHANGED vars
  BY <1>6 DEF Tick, vars
<1>. QED
  BY <1>1, <1>2, <1>3, <1>4, <1>5, <1>6 DEF Next, AllEnded

\* What no step undoes: a state that was sent or used stays so, and its
\* expiry and the callback's query do not change.
LEMMA Frame ==
  ASSUME TypeOK, [Next]_vars
  PROVE  /\ now \in Nat /\ now' \in Nat /\ now <= now'
         /\ \A s \in Starts : step[s] = "redirected"
              => step'[s] = "redirected" /\ expires'[s] = expires[s]
         /\ \A c \in Callbacks : step[c] # "idle" => presents'[c] = presents[c]
         /\ \A c \in Callbacks : step[c] = "verified" => step'[c] = "verified"
<1>. USE RequestsAssumption DEF TypeOK, Move, StartStep, CallbackStep, Requests
<1>1. ASSUME NEW s \in Starts, Start(s) \/ DbCleans(s) \/ BuildOAuthStart(s) \/ DbInserts(s)
      PROVE  /\ now' = now /\ presents' = presents
             /\ \A u \in Starts : step[u] = "redirected"
                  => step'[u] = "redirected" /\ expires'[u] = expires[u]
             /\ \A c \in Callbacks : step'[c] = step[c]
  BY <1>1 DEF Start, DbCleans, BuildOAuthStart, DbInserts
<1>2. ASSUME NEW c \in Callbacks, \/ \E s \in Starts : Callback(c, s)
                               \/ DbSelects(c) \/ DbDeletes(c) \/ DbCommits(c)
      PROVE  /\ now' = now /\ expires' = expires
             /\ \A u \in Starts : step'[u] = step[u]
             /\ \A d \in Callbacks : step[d] # "idle" => presents'[d] = presents[d]
             /\ \A d \in Callbacks : step[d] = "verified" => step'[d] = "verified"
  BY <1>2 DEF Callback, DbSelects, DbDeletes, DbCommits
<1>3. ASSUME NEW r \in Requests, Fails(r)
      PROVE  /\ UNCHANGED <<now, expires, presents>>
             /\ \A q \in Requests : step[q] \in {"redirected", "verified"} => step'[q] = step[q]
  BY <1>3 DEF Fails
<1>4. CASE Tick \/ UNCHANGED vars
  BY <1>4, MaxTimeAssumption DEF Tick, vars
<1>5. now \in Nat
  BY MaxTimeAssumption
<1>6. CASE \E s \in Starts : Start(s) \/ DbCleans(s) \/ BuildOAuthStart(s) \/ DbInserts(s)
  BY <1>1, <1>5, <1>6
<1>7. CASE \E c \in Callbacks : \/ \E s \in Starts : Callback(c, s)
                               \/ DbSelects(c) \/ DbDeletes(c) \/ DbCommits(c)
  BY <1>2, <1>5, <1>7
<1>8. CASE \E r \in Requests : Fails(r)
  BY <1>3, <1>5, <1>8
<1>. QED
  BY <1>4, <1>6, <1>7, <1>8 DEF Next, AllEnded

LEMMA OverStays ==
  ASSUME TypeOK, [Next]_vars, NEW s \in Starts, step[s] = "redirected", Over(s)
  PROVE  Over(s)'
<1>1. expires[s] \in Int
  BY TTLAssumption, MaxTimeAssumption DEF TypeOK
<1>. QED
  BY <1>1, Frame DEF Over, Used

\* The same for the state that a callback presents.
LEMMA PresentedStays ==
  ASSUME TypeOK, [Next]_vars, NEW c \in Callbacks, presents[c] \in Starts,
         step[presents[c]] = "redirected", Over(presents[c]), presents'[c] = presents[c]
  PROVE  Over(presents[c])'
<1>. PICK s \in Starts : s = presents[c]
  OBVIOUS
<1>1. Over(s)'
  BY OverStays
<1>. QED
  BY <1>1 DEF Over, Used

\* Rows are removed by a clean-up, if they have expired, and by a COMMIT.
LEMMA RowsStep ==
  ASSUME TypeOK, StampsOK, [Next]_vars
  PROVE  \/ rows' = rows
         \/ \E s \in Starts :
              DbCleans(s) /\ \A u \in Starts : Hash(u) \in rows \ rows' => expires[u] <= now
         \/ \E s \in Starts : DbInserts(s) /\ rows' = rows \cup {Hash(s)}
         \/ \E c \in Callbacks : DbCommits(c) /\ rows' = rows \ {Hash(presents[c])}
<1>1. ASSUME NEW s \in Starts, DbCleans(s)
      PROVE  \A u \in Starts : Hash(u) \in rows \ rows' => expires[u] <= now
  <2>1. stamp[s] \in Int /\ now \in Int /\ stamp[s] <= now
        /\ \A u \in Starts : expires[u] \in Int
    BY TTLAssumption, MaxTimeAssumption DEF TypeOK, StampsOK, Requests
  <2>2. \A u \in Starts : Hash(u) \in rows \ rows' => expires[u] <= stamp[s]
    BY <1>1, HashInjective DEF DbCleans, Remove, Expired
  <2>. QED
    BY <2>1, <2>2
<1>2. \/ rows' = rows
      \/ \E s \in Starts : DbCleans(s) \/ DbInserts(s)
      \/ \E c \in Callbacks : DbCommits(c)
  BY DEF Next, AllEnded, vars, Start, BuildOAuthStart, Callback, DbSelects, DbDeletes,
     Fails, Tick
<1>3. \A s \in Starts : DbInserts(s) => rows' = rows \cup {Hash(s)}
  BY DEF DbInserts
<1>4. \A c \in Callbacks : DbCommits(c) => rows' = rows \ {Hash(presents[c])}
  BY DEF DbCommits, Remove
<1>. QED
  BY <1>1, <1>2, <1>3, <1>4

-----------------------------------------------------------------------------
LEMMA PresentsStep ==
  ASSUME TypeOK, PresentsOK, [Next]_vars
  PROVE  PresentsOK'
<1>. USE RequestsAssumption DEF TypeOK, Move, StartStep, CallbackStep, Requests
<1>1. \A c \in Callbacks : step'[c] \notin {"idle", "failed"} =>
        \/ step[c] \notin {"idle", "failed"} /\ presents'[c] = presents[c]
        \/ \E s \in Starts : step[s] = "redirected" /\ presents'[c] = s
  BY DEF Next, AllEnded, vars, Start, DbCleans, BuildOAuthStart, DbInserts, Callback,
     DbSelects, DbDeletes, DbCommits, Fails, Tick
<1>. QED
  BY <1>1, Frame DEF PresentsOK

LEMMA RowsOKStep ==
  ASSUME TypeOK, StampsOK, RowsOK, [Next]_vars
  PROVE  RowsOK'
<1>1. ASSUME NEW s \in Starts, DbInserts(s) PROVE step'[s] = "redirected"
  BY <1>1 DEF DbInserts, Move, TypeOK, Requests
<1>2. \A u \in Starts : Hash(u) \in rows' => Hash(u) \in rows \/ DbInserts(u)
  BY RowsStep, HashInjective DEF DbCleans, Remove
<1>. QED
  BY <1>1, <1>2, Frame DEF RowsOK

LEMMA StampsStep ==
  ASSUME TypeOK, StampsOK, [Next]_vars
  PROVE  StampsOK'
<1>1. \A r \in Requests : stamp'[r] \in {stamp[r], now}
  BY DEF TypeOK, Next, AllEnded, vars, Start, DbCleans, BuildOAuthStart, DbInserts,
     Callback, DbSelects, DbDeletes, DbCommits, Fails, Tick, ReadClock, Requests
<1>2. now <= now' /\ now \in Int /\ now' \in Int /\ \A r \in Requests : stamp[r] \in Int
  BY Frame, MaxTimeAssumption DEF TypeOK
<1>. QED
  BY <1>1, <1>2 DEF StampsOK

\* A row that a callback has read under its lock stays until its own COMMIT.
LEMMA IsolatedStep ==
  ASSUME TypeOK, StampsOK, PresentsOK, Isolated, [Next]_vars
  PROVE  Isolated'
<1>. USE RequestsAssumption DEF TypeOK, Move, StartStep, CallbackStep, Requests, Holding
<1>1. ASSUME NEW c \in Callbacks, step'[c] \in Holding, verifier'[c] # None,
             step[c] \in Holding
      PROVE  verifier'[c] = presents'[c] /\ Hash(presents'[c]) \in rows'
  <2>1. verifier'[c] = verifier[c] /\ presents'[c] = presents[c]
    BY <1>1 DEF Next, AllEnded, vars, Start, DbCleans, BuildOAuthStart, DbInserts,
       Callback, DbSelects, DbDeletes, DbCommits, Fails, Tick
  <2>2. verifier[c] = presents[c] /\ Hash(presents[c]) \in rows
    BY <1>1, <2>1 DEF Isolated
  <2>3. \A s \in Starts : DbCleans(s) => rows' = rows
    <3>1. ASSUME NEW s \in Starts, DbCleans(s) PROVE rows \cap Expired(stamp[s]) = {}
      BY <1>1, <3>1 DEF DbCleans, Unlocked
    <3>. QED
      BY <3>1 DEF DbCleans, Remove
  <2>4. ASSUME NEW d \in Callbacks, DbCommits(d), rows' = rows \ {Hash(presents[d])}
        PROVE  Hash(presents[c]) \in rows'
    <3>1. d # c
      BY <1>1, <2>4 DEF DbCommits
    <3>2. Hash(presents[d]) \notin rows
      BY <1>1, <2>4, <3>1 DEF DbCommits, Unlocked
    <3>. QED
      BY <2>2, <2>4, <3>2
  <2>. QED
    BY <2>1, <2>2, <2>3, <2>4, RowsStep
<1>2. ASSUME NEW c \in Callbacks, step'[c] \in Holding, verifier'[c] # None,
             step[c] \notin Holding
      PROVE  verifier'[c] = presents'[c] /\ Hash(presents'[c]) \in rows'
  <2>1. DbSelects(c)
    BY <1>2 DEF Next, AllEnded, vars, Start, DbCleans, BuildOAuthStart, DbInserts,
       Callback, DbSelects, DbDeletes, DbCommits, Fails, Tick
  <2>. QED
    BY <1>2, <2>1 DEF DbSelects
<1>. QED
  BY <1>1, <1>2 DEF Isolated

LEMMA UsedGoneStep ==
  ASSUME TypeOK, StampsOK, PresentsOK, UsedGone, [Next]_vars
  PROVE  UsedGone'
<1>. USE RequestsAssumption DEF TypeOK, Move, StartStep, CallbackStep, Requests
<1>1. ASSUME NEW c \in Callbacks, step[c] = "verified" PROVE Hash(presents'[c]) \notin rows'
  <2>1. presents'[c] = presents[c] /\ presents[c] \in Starts /\ step[presents[c]] = "redirected"
        /\ Hash(presents[c]) \notin rows
    BY <1>1, Frame DEF PresentsOK, UsedGone
  <2>2. \A s \in Starts : DbInserts(s) => Hash(s) # Hash(presents[c])
    BY <2>1, HashInjective DEF DbInserts
  <2>3. \A s \in Starts : DbCleans(s) => rows' \subseteq rows
    BY DEF DbCleans, Remove
  <2>. QED
    BY <2>1, <2>2, <2>3, RowsStep
<1>2. ASSUME NEW c \in Callbacks, step'[c] = "verified", step[c] # "verified"
      PROVE  Hash(presents'[c]) \notin rows'
  <2>1. DbCommits(c)
    BY <1>2 DEF Next, AllEnded, vars, Start, DbCleans, BuildOAuthStart, DbInserts,
       Callback, DbSelects, DbDeletes, DbCommits, Fails, Tick
  <2>. QED
    BY <2>1 DEF DbCommits, Remove
<1>. QED
  BY <1>1, <1>2 DEF UsedGone

\* A callback that goes on with a verifier removes its row.
LEMMA CommitUses ==
  ASSUME TypeOK, PresentsOK, Isolated, NEW c \in Callbacks, DbCommits(c)
  PROVE  /\ presents[c] \in Starts /\ step[presents[c]] = "redirected"
         /\ presents' = presents
         /\ verifier[c] # None => Hash(presents[c]) \in rows /\ step'[c] = "verified"
         /\ verifier[c] = None => step'[c] = "rejected"
  BY DEF TypeOK, DbCommits, Move, PresentsOK, Isolated, Holding, Requests

LEMMA MissingStep ==
  ASSUME TypeOK, StampsOK, PresentsOK, RowsOK, Isolated, Missing, NothingFound, [Next]_vars
  PROVE  Missing'
<1>. USE RequestsAssumption DEF Move, StartStep, CallbackStep, Requests
<1>1. ASSUME NEW s \in Starts, step'[s] = "redirected", step[s] # "redirected"
      PROVE  Hash(s) \in rows'
  <2>1. DbInserts(s)
    BY <1>1 DEF TypeOK, Next, AllEnded, vars, Start, DbCleans, BuildOAuthStart, DbInserts,
       Callback, DbSelects, DbDeletes, DbCommits, Fails, Tick
  <2>. QED
    BY <2>1 DEF DbInserts
<1>2. ASSUME NEW s \in Starts, step[s] = "redirected", Hash(s) \in rows, Hash(s) \notin rows'
      PROVE  Over(s)'
  <2>1. CASE \E u \in Starts : DbCleans(u)
    <3>1. expires[s] <= now
      BY <1>2, <2>1, RowsStep DEF DbCommits, DbCleans, DbInserts, TypeOK
    <3>. QED
      BY <1>2, <3>1, OverStays DEF Over
  <2>2. ASSUME NEW c \in Callbacks, DbCommits(c), rows' = rows \ {Hash(presents[c])}
        PROVE  Over(s)'
    <3>1. presents[c] = s
      BY <1>2, <2>2, HashInjective
    <3>2. CASE verifier[c] # None
      BY <2>2, <3>1, <3>2, CommitUses DEF Over, Used
    <3>3. CASE verifier[c] = None
      BY <1>2, <2>2, <3>1, <3>3, OverStays DEF NothingFound, DbCommits, Holding
    <3>. QED
      BY <3>2, <3>3
  <2>. QED
    BY <1>2, <2>1, <2>2, RowsStep
<1>. QED
  BY <1>1, <1>2, OverStays DEF Missing

LEMMA NothingFoundStep ==
  ASSUME TypeOK, StampsOK, PresentsOK, Missing, NothingFound, [Next]_vars
  PROVE  NothingFound'
<1>. USE RequestsAssumption DEF Move, StartStep, CallbackStep, Requests, Holding
<1>1. ASSUME NEW c \in Callbacks,
             \/ step'[c] \in Holding /\ verifier'[c] = None
             \/ step'[c] = "rejected"
      PROVE  Over(presents[c])' /\ presents'[c] = presents[c]
  <2>1. CASE DbSelects(c)
    <3>1. /\ presents[c] \in Starts /\ step[presents[c]] = "redirected"
          /\ presents[c] # None /\ presents' = presents
      BY <2>1, NoneAssumption DEF DbSelects, PresentsOK
    <3>2. Hash(presents[c]) \notin rows \/ Hash(presents[c]) \in Expired(stamp[c])
      BY <1>1, <2>1, <3>1 DEF DbSelects, TypeOK
    <3>3. stamp[c] <= now /\ stamp[c] \in Int /\ now \in Int /\ expires[presents[c]] \in Int
      BY <3>1, TTLAssumption, MaxTimeAssumption DEF StampsOK, TypeOK
    <3>4. Hash(presents[c]) \in Expired(stamp[c]) => expires[presents[c]] <= stamp[c]
      BY HashInjective DEF Expired
    <3>5. Over(presents[c])
      BY <3>1, <3>2, <3>3, <3>4 DEF Missing, Over
    <3>. QED
      BY <3>1, <3>5, PresentedStays
  <2>2. CASE ~DbSelects(c)
    <3>1. /\ (step[c] \in Holding /\ verifier[c] = None) \/ step[c] = "rejected"
          /\ presents'[c] = presents[c]
      BY <1>1, <2>2 DEF TypeOK, Next, AllEnded, vars, Start, DbCleans, BuildOAuthStart,
         DbInserts, Callback, DbSelects, DbDeletes, DbCommits, Fails, Tick
    <3>2. Over(presents[c]) /\ presents[c] \in Starts /\ step[presents[c]] = "redirected"
      BY <3>1 DEF NothingFound, PresentsOK
    <3>. QED
      BY <3>1, <3>2, PresentedStays
  <2>. QED
    BY <2>1, <2>2
<1>. QED
  BY <1>1 DEF NothingFound, Over, Used

LEMMA OnceStep ==
  ASSUME TypeOK, PresentsOK, Isolated, UsedGone, StateUsedOnce, [Next]_vars
  PROVE  StateUsedOnce'
<1>. USE RequestsAssumption DEF Move, StartStep, CallbackStep, Requests
<1>1. ASSUME NEW c \in Callbacks, step'[c] = "verified"
      PROVE  \/ step[c] = "verified" /\ presents'[c] = presents[c]
             \/ /\ DbCommits(c) /\ verifier[c] # None /\ presents'[c] = presents[c]
                /\ Hash(presents[c]) \in rows
  <2>1. step[c] = "verified" \/ DbCommits(c)
    BY <1>1 DEF TypeOK, Next, AllEnded, vars, Start, DbCleans, BuildOAuthStart, DbInserts,
       Callback, DbSelects, DbDeletes, DbCommits, Fails, Tick
  <2>. QED
    BY <1>1, <2>1, CommitUses, Frame
<1>2. ASSUME NEW c \in Callbacks, NEW d \in Callbacks, DbCommits(c), DbCommits(d) PROVE c = d
  BY <1>2 DEF DbCommits, TypeOK
<1>. QED
  BY <1>1, <1>2 DEF StateUsedOnce, UsedGone

LEMMA InitIInv == Init => IInv
<1>. SUFFICES ASSUME Init PROVE IInv
  OBVIOUS
<1>1. TypeOK
  BY TTLAssumption, MaxTimeAssumption
     DEF Init, TypeOK, Requests, StartStep, CallbackStep
<1>2. PresentsOK /\ Isolated /\ UsedGone /\ NothingFound /\ StateUsedOnce
  BY DEF Init, PresentsOK, Isolated, UsedGone, NothingFound, StateUsedOnce, Holding, Requests
<1>3. RowsOK /\ Missing /\ StampsOK
  BY DEF Init, RowsOK, Missing, StampsOK, Requests
<1>. QED
  BY <1>1, <1>2, <1>3 DEF IInv

LEMMA StepIInv == IInv /\ [Next]_vars => IInv'
  BY TypeStep, PresentsStep, RowsOKStep, IsolatedStep, UsedGoneStep, MissingStep,
     NothingFoundStep, StampsStep, OnceStep DEF IInv

LEMMA Invariance == Spec => []IInv
  BY InitIInv, StepIInv, PTL DEF Spec

-----------------------------------------------------------------------------
(* The theorems *)

\* Every variable keeps its type; an expiry is never later than clock plus TTL.
THEOREM TypeCorrect == Spec => []TypeOK
<1>1. IInv => TypeOK
  BY DEF IInv
<1>. QED
  BY <1>1, Invariance, PTL

\* A state lets one callback through, however many present it at once.
THEOREM StatesAreOneTime == Spec => []StateUsedOnce
<1>1. IInv => StateUsedOnce
  BY DEF IInv
<1>. QED
  BY <1>1, Invariance, PTL

\* A callback is refused only if its state has expired or was used.
THEOREM LiveStatesWork == Spec => []LiveStateHonoured
<1>1. IInv => LiveStateHonoured
  BY DEF IInv, NothingFound, Over, LiveStateHonoured
<1>. QED
  BY <1>1, Invariance, PTL

-----------------------------------------------------------------------------
(* The table implements OneTimeTokens *)

StatusOf(s) == IF step[s] # "redirected" THEN "new"
               ELSE IF Hash(s) \in rows THEN "live" ELSE "gone"

HoldsOf(c) == IF step[c] = "verified" THEN presents[c] ELSE None

LEMMA Simulated ==
  ASSUME IInv, IInv', [Next]_vars
  PROVE  [Tokens!TokNext]_Tokens!tokVars
<1>. USE RequestsAssumption DEF Move, StartStep, CallbackStep, Requests
<1>1. TypeOK /\ StampsOK /\ PresentsOK /\ RowsOK /\ Isolated
  BY DEF IInv
<1>2. ASSUME NEW s \in Starts, DbInserts(s) PROVE Tokens!Issue(s)
  <2>1. \A u \in Starts : StatusOf(u)' = IF u = s THEN "live" ELSE StatusOf(u)
    BY <1>1, <1>2, HashInjective DEF DbInserts, TypeOK, StatusOf
  <2>2. \A c \in Callbacks : HoldsOf(c)' = HoldsOf(c)
    BY <1>1, <1>2 DEF DbInserts, TypeOK, HoldsOf
  <2>3. StatusOf(s) = "new"
    BY <1>2 DEF DbInserts, StatusOf
  <2>. QED
    BY <2>1, <2>2, <2>3 DEF Tokens!Issue, Tokens!Move, StatusOf, HoldsOf
<1>3. ASSUME NEW s \in Starts, DbCleans(s)
      PROVE  \E T \in SUBSET Starts : Tokens!Expire(T)
  <2>. DEFINE T == {u \in Starts : Hash(u) \in rows \ rows'}
  <2>1. \A u \in T : StatusOf(u) = "live"
    BY <1>1 DEF RowsOK, StatusOf
  <2>2. \A u \in Starts : StatusOf(u)' = IF u \in T THEN "gone" ELSE StatusOf(u)
    BY <1>1, <1>3 DEF DbCleans, Remove, TypeOK, RowsOK, StatusOf
  <2>3. \A c \in Callbacks : HoldsOf(c)' = HoldsOf(c)
    BY <1>1, <1>3 DEF DbCleans, TypeOK, HoldsOf
  <2>. QED
    BY <2>1, <2>2, <2>3 DEF Tokens!Expire, StatusOf, HoldsOf
<1>4. ASSUME NEW c \in Callbacks, NEW s \in Starts, s = presents[c],
             DbCommits(c), verifier[c] # None
      PROVE  Tokens!Use(s, c)
  <2>1. /\ step[s] = "redirected" /\ presents' = presents
        /\ Hash(s) \in rows /\ step'[c] = "verified" /\ step[c] = "deleted"
    BY <1>1, <1>4, CommitUses DEF DbCommits
  <2>2. StatusOf(s) = "live" /\ HoldsOf(c) = None
    BY <2>1 DEF StatusOf, HoldsOf
  <2>3. \A u \in Starts : StatusOf(u)' = IF u = s THEN "gone" ELSE StatusOf(u)
    BY <1>1, <1>4, <2>1, HashInjective DEF DbCommits, Remove, TypeOK, StatusOf
  <2>4. \A d \in Callbacks : HoldsOf(d)' = IF d = c THEN s ELSE HoldsOf(d)
    BY <1>1, <1>4, <2>1 DEF DbCommits, TypeOK, HoldsOf
  <2>. QED
    BY <2>1, <2>2, <2>3, <2>4 DEF Tokens!Use, Tokens!Move, StatusOf, HoldsOf
<1>5. ASSUME NEW c \in Callbacks, DbCommits(c), verifier[c] = None
      PROVE  \E T \in SUBSET Starts : Tokens!Expire(T)
  <2>. PICK T \in SUBSET Starts : T = {u \in Starts : u = presents[c] /\ Hash(u) \in rows}
    OBVIOUS
  <2>1. /\ presents[c] \in Starts /\ step[presents[c]] = "redirected" /\ presents' = presents
        /\ step'[c] = "rejected" /\ step[c] = "deleted"
    BY <1>1, <1>5, CommitUses DEF DbCommits
  <2>2. \A u \in T : StatusOf(u) = "live"
    BY <2>1 DEF StatusOf
  <2>3. \A u \in Starts : StatusOf(u)' = IF u \in T THEN "gone" ELSE StatusOf(u)
    BY <1>1, <1>5, <2>1, HashInjective DEF DbCommits, Remove, TypeOK, StatusOf
  <2>4. \A d \in Callbacks : HoldsOf(d)' = HoldsOf(d)
    BY <1>1, <1>5, <2>1 DEF DbCommits, TypeOK, HoldsOf
  <2>5. Tokens!Expire(T)
    BY <2>2, <2>3, <2>4 DEF Tokens!Expire, StatusOf, HoldsOf
  <2>. QED
    BY <2>5
<1>6. ASSUME UNCHANGED rows, \A s \in Starts : step'[s] = "redirected" <=> step[s] = "redirected",
             \A c \in Callbacks : /\ step'[c] = "verified" <=> step[c] = "verified"
                                  /\ step[c] = "verified" => presents'[c] = presents[c]
      PROVE  UNCHANGED Tokens!tokVars
  <2>1. \A s \in Starts : StatusOf(s)' = StatusOf(s)
    BY <1>6 DEF StatusOf
  <2>2. \A c \in Callbacks : HoldsOf(c)' = HoldsOf(c)
    BY <1>6 DEF HoldsOf
  <2>. QED
    BY <2>1, <2>2 DEF Tokens!tokVars, StatusOf, HoldsOf
<1>7. ASSUME NEW s \in Starts, Start(s) \/ BuildOAuthStart(s) PROVE UNCHANGED Tokens!tokVars
  BY <1>1, <1>6, <1>7 DEF Start, BuildOAuthStart, TypeOK
<1>8. ASSUME NEW c \in Callbacks, NEW s \in Starts, Callback(c, s) PROVE UNCHANGED Tokens!tokVars
  BY <1>1, <1>6, <1>8 DEF Callback, TypeOK
<1>9. ASSUME NEW c \in Callbacks, DbSelects(c) \/ DbDeletes(c) PROVE UNCHANGED Tokens!tokVars
  BY <1>1, <1>6, <1>9 DEF DbSelects, DbDeletes, TypeOK
<1>10. ASSUME NEW r \in Requests, Fails(r) PROVE UNCHANGED Tokens!tokVars
  BY <1>1, <1>6, <1>10 DEF Fails, TypeOK
<1>11. CASE Tick \/ UNCHANGED vars
  BY <1>6, <1>11 DEF Tick, vars
<1>12. CASE \E s \in Starts : Start(s) \/ DbCleans(s) \/ BuildOAuthStart(s) \/ DbInserts(s)
  BY <1>2, <1>3, <1>7, <1>12 DEF Tokens!TokNext
<1>13. ASSUME NEW c \in Callbacks, DbCommits(c) PROVE Tokens!TokNext
  <2>1. PICK s \in Starts : s = presents[c]
    BY <1>1, <1>13, CommitUses
  <2>2. CASE verifier[c] # None
    <3>. Tokens!Use(s, c)
      BY <1>4, <1>13, <2>1, <2>2
    <3>. QED
      BY DEF Tokens!TokNext
  <2>3. CASE verifier[c] = None
    BY <1>5, <1>13, <2>3 DEF Tokens!TokNext
  <2>. QED
    BY <2>2, <2>3
<1>. QED
  BY <1>8, <1>9, <1>10, <1>11, <1>12, <1>13 DEF Next, AllEnded

\* Every execution is one of OneTimeTokens: consume_oauth_state is atomic.
THEOREM Implementation == Spec => ImplementsOneTimeTokens
<1>1. Init => Tokens!TokInit
  BY DEF Init, Tokens!TokInit, Requests
<1>2. IInv /\ IInv' /\ [Next]_vars => [Tokens!TokNext]_Tokens!tokVars
  BY Simulated
<1>. QED
  BY <1>1, <1>2, Invariance, PTL DEF Spec, ImplementsOneTimeTokens, Tokens!TokSpec
=============================================================================
