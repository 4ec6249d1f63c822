------------------------------ MODULE SignInProofs ------------------------------
(***************************************************************************)
(* Proofs about SignIn and SignOut, for any browsers, identities and       *)
(* requests.                                                               *)
(*                                                                         *)
(* A session is named after the callback that created it, so it belongs to *)
(* the browser of that callback: BelongsOK says that a session id goes     *)
(* back and forth between that browser and the portal only.  Whom a        *)
(* session names was confirmed to a callback of its browser and has a row  *)
(* (StoreOK), because the callback that wrote it had got that far          *)
(* (CallbacksOK).                                                          *)
(*                                                                         *)
(* At the end: SignIn keeps to OneTimeTokens and UserDirectory, so what    *)
(* these promise (HeldAlone, AnswersStand) holds of its logins.            *)
(***************************************************************************)
EXTENDS SignOut, TLAPS

Steps == CallbackStep \cup VisitStep \cup LogoutStep

StepsOK == step \in [Requests -> Steps]

\* A session id is in the cookie or in a request of its own browser only.
BelongsOK ==
  /\ \A r \in Requests : step[r] = "idle" <=> from[r] = None
  /\ \A r \in Requests : step[r] = "idle" => carries[r] = None
  /\ \A b \in Browsers : cookie[b] # None => from[cookie[b]] = b
  /\ \A r \in Requests : carries[r] # None => from[carries[r]] = from[r]

StoreOK ==
  \A i \in Sessions :
    store[i] # None => <<from[i], store[i]>> \in confirmed /\ account[store[i]] # None

\* What a callback knows by where it is.
CallbackOK(c) ==
  /\ step[c] = "idle" => asks[c] = None
  /\ asks[c] # None => <<from[c], asks[c]>> \in confirmed
  /\ step[c] \in {"account", "remember", "save", "unchanged", "saved"} => asks[c] # None
  /\ step[c] \in {"remember", "save", "unchanged", "saved"} => account[asks[c]] # None
  /\ step[c] \in {"save", "unchanged", "saved"} => user[c] = asks[c]
  /\ step[c] \in {"unchanged", "saved"} => carries[c] # None

CallbacksOK == \A c \in Callbacks : CallbackOK(c)

VisitsOK ==
  \A v \in Visits : step[v] \in {"page", "shown"} => <<from[v], user[v]>> \in confirmed

IInv == TypeOK /\ StepsOK /\ BelongsOK /\ StoreOK /\ CallbacksOK /\ VisitsOK

-----------------------------------------------------------------------------
(* The steps *)

LEMMA Routes ==
  /\ None \notin Browsers /\ None \notin Identities /\ None \notin Callbacks
  /\ \A c \in Callbacks : c \notin Visits /\ c \notin Logouts
  /\ \A v \in Visits : v \notin Logouts
  BY NoneAssumption, RoutesAssumption

\* What a step does to step, and what moves with it.
LEMMA TypeStep ==
  ASSUME TypeOK, StepsOK, BelongsOK, [Next]_vars
  PROVE  TypeOK' /\ StepsOK'
<1>. USE Routes DEF TypeOK, StepsOK, Requests, Sessions, Steps, CallbackStep, VisitStep, LogoutStep,
         Move, tokens, directory, request, history
<1>1. ASSUME NEW s \in States, StartLogin(s) PROVE TypeOK' /\ StepsOK'
  BY <1>1 DEF StartLogin, Tokens!Issue, Tokens!Move
<1>2. ASSUME NEW T \in SUBSET States, StatesExpire(T) PROVE TypeOK' /\ StepsOK'
  BY <1>2 DEF StatesExpire, Tokens!Expire
<1>3. ASSUME NEW c \in Callbacks, NEW b \in Browsers, Callback(c, b) PROVE TypeOK' /\ StepsOK'
  BY <1>3 DEF Callback, Send
<1>4. ASSUME NEW c \in Callbacks, NEW i \in Identities, Confirm(c, i) PROVE TypeOK' /\ StepsOK'
  <2>1. from[c] \in Browsers
    BY <1>4 DEF Confirm, BelongsOK
  <2>. QED
    BY <1>4, <2>1 DEF Confirm, Directory!Ask
<1>5. ASSUME NEW c \in Callbacks, Consume(c) PROVE TypeOK' /\ StepsOK'
  <2>1. PICK s \in States : Tokens!Use(s, c)
    BY <1>5 DEF Consume
  <2>2. status' \in [States -> {"new", "live", "gone"}]
    BY <2>1 DEF Tokens!Use, Tokens!Move
  <2>3. holds' \in [Callbacks -> States \cup {None}]
    BY <2>1 DEF Tokens!Use
  <2>. QED
    BY <1>5, <2>2, <2>3 DEF Consume
<1>6. ASSUME NEW c \in Callbacks, Reject(c) \/ Exchange(c) PROVE TypeOK' /\ StepsOK'
  BY <1>6 DEF Reject, Exchange
<1>7. ASSUME NEW c \in Callbacks, Provide(c) PROVE TypeOK' /\ StepsOK'
  BY <1>7 DEF Provide, Directory!Activate, Directory!Open
<1>8. ASSUME NEW c \in Callbacks, Account(c) PROVE TypeOK' /\ StepsOK'
  BY <1>8 DEF Account, Directory!Answer
<1>9. ASSUME NEW c \in Callbacks, Remember(c) PROVE TypeOK' /\ StepsOK'
  BY <1>9 DEF Remember, Loaded
<1>10. ASSUME NEW c \in Callbacks, Save(c) PROVE TypeOK' /\ StepsOK'
  BY <1>10 DEF Save
<1>11. ASSUME NEW c \in Callbacks, Reply(c) PROVE TypeOK' /\ StepsOK'
  <2>1. cookie' \in [Browsers -> Sessions \cup {None}]
    BY <1>11 DEF Reply
  <2>2. expect' \in [Browsers -> Identities \cup {None}]
    BY <1>11 DEF Reply
  <2>3. step' = [step EXCEPT ![c] = "done"]
    BY <1>11 DEF Reply
  <2>. QED
    BY <1>11, <2>1, <2>2, <2>3 DEF Reply
<1>12. ASSUME NEW v \in Visits, Load(v) \/ Show(v) PROVE TypeOK' /\ StepsOK'
  <2>1. CASE Load(v)
    BY <2>1 DEF Load, Loaded
  <2>2. CASE Show(v)
    BY <2>2 DEF Show
  <2>. QED
    BY <1>12, <2>1, <2>2
<1>13. ASSUME NEW v \in Visits, NEW b \in Browsers, Visit(v, b) PROVE TypeOK' /\ StepsOK'
  BY <1>13 DEF Visit, Send
<1>14. ASSUME NEW o \in Logouts, Flush(o) PROVE TypeOK' /\ StepsOK'
  BY <1>14 DEF Flush
<1>15. ASSUME NEW o \in Logouts, NEW b \in Browsers, Logout(o, b) PROVE TypeOK' /\ StepsOK'
  BY <1>15 DEF Logout, Send
<1>16. ASSUME NEW r \in Requests, Removal(r) PROVE TypeOK' /\ StepsOK'
  <2>1. cookie' \in [Browsers -> Sessions \cup {None}]
    BY <1>16 DEF Removal
  <2>2. r \in Visits \cup Logouts /\ step' = [step EXCEPT ![r] = "done"]
    BY <1>16 DEF Removal
  <2>. QED
    BY <1>16, <2>1, <2>2 DEF Removal
<1>17. ASSUME NEW r \in Requests, Fails(r) PROVE TypeOK' /\ StepsOK'
  BY <1>17 DEF Fails
<1>18. ASSUME NEW i \in Sessions, SessionExpires(i) PROVE TypeOK' /\ StepsOK'
  BY <1>18 DEF SessionExpires
<1>19. CASE UNCHANGED vars
  BY <1>19 DEF vars
<1>. HIDE DEF TypeOK, StepsOK, Steps, CallbackStep, VisitStep, LogoutStep, Move
<1>. QED
  BY <1>1, <1>2, <1>3, <1>4, <1>5, <1>6, <1>7, <1>8, <1>9, <1>10, <1>11, <1>12, <1>13, <1>14,
     <1>15, <1>16, <1>17, <1>18, <1>19 DEF Next, Quiet

\* The steps that send nothing new.
Continues ==
  \/ \E c \in Callbacks :
       \/ Consume(c) \/ Reject(c) \/ Exchange(c) \/ Provide(c) \/ Account(c)
       \/ \E i \in Identities : Confirm(c, i)
  \/ \E v \in Visits : Load(v) \/ Show(v)
  \/ \E o \in Logouts : Flush(o)
  \/ \E r \in Requests : Fails(r)

LEMMA ContinuesMoves ==
  ASSUME TypeOK, StepsOK, Continues
  PROVE  /\ UNCHANGED <<from, carries, cookie>>
         /\ \A r \in Requests : step'[r] = "idle" <=> step[r] = "idle"
<1>. USE DEF StepsOK, Move, Requests, request, history
<1>1. ASSUME NEW c \in Callbacks,
             Consume(c) \/ Reject(c) \/ Exchange(c) \/ Provide(c) \/ Account(c)
      PROVE  /\ UNCHANGED <<from, carries, cookie>>
             /\ \A r \in Requests : step'[r] = "idle" <=> step[r] = "idle"
  BY <1>1 DEF Consume, Reject, Exchange, Provide, Account
<1>2. ASSUME NEW c \in Callbacks, NEW i \in Identities, Confirm(c, i)
      PROVE  /\ UNCHANGED <<from, carries, cookie>>
             /\ \A r \in Requests : step'[r] = "idle" <=> step[r] = "idle"
  BY <1>2 DEF Confirm
<1>3. ASSUME NEW v \in Visits, Load(v) \/ Show(v)
      PROVE  /\ UNCHANGED <<from, carries, cookie>>
             /\ \A r \in Requests : step'[r] = "idle" <=> step[r] = "idle"
  BY <1>3 DEF Load, Show
<1>4. ASSUME NEW o \in Logouts, Flush(o)
      PROVE  /\ UNCHANGED <<from, carries, cookie>>
             /\ \A r \in Requests : step'[r] = "idle" <=> step[r] = "idle"
  BY <1>4 DEF Flush
<1>5. ASSUME NEW q \in Requests, Fails(q)
      PROVE  /\ UNCHANGED <<from, carries, cookie>>
             /\ \A r \in Requests : step'[r] = "idle" <=> step[r] = "idle"
  BY <1>5 DEF Fails
<1>. QED
  BY <1>1, <1>2, <1>3, <1>4, <1>5 DEF Continues

\* The rest of the steps, and what they do to requests and cookies.
Sends ==
  \E b \in Browsers :
    \/ \E c \in Callbacks : Callback(c, b)
    \/ \E v \in Visits : Visit(v, b)
    \/ \E o \in Logouts : Logout(o, b)

Apart ==
  \/ \E s \in States : StartLogin(s)
  \/ \E T \in SUBSET States : StatesExpire(T)
  \/ \E i \in Sessions : SessionExpires(i)
  \/ UNCHANGED vars

LEMMA Cases ==
  ASSUME [Next]_vars
  PROVE  \/ Continues \/ Sends \/ Apart
         \/ \E c \in Callbacks : Remember(c) \/ Save(c) \/ Reply(c)
         \/ \E r \in Requests : Removal(r)
  BY DEF Next, Continues, Sends, Apart, Quiet

LEMMA ApartMoves ==
  ASSUME Apart
  PROVE  UNCHANGED <<step, from, carries, user, cookie, asks, account, confirmed, alone, expect, hope>>
  BY DEF Apart, StartLogin, StatesExpire, SessionExpires, vars, directory, request, history

LEMMA SendsMove ==
  ASSUME Sends
  PROVE  /\ \E r \in Requests, b \in Browsers, s \in Steps \ {"idle"} : Send(r, b, s)
         /\ UNCHANGED <<user, cookie, asks, account, store, confirmed>>
  BY DEF Sends, Callback, Visit, Logout, Send, Requests, Steps, CallbackStep, VisitStep, LogoutStep,
     directory

LEMMA BelongsStep ==
  ASSUME TypeOK, StepsOK, BelongsOK, CallbacksOK, [Next]_vars
  PROVE  BelongsOK'
<1>. USE Routes DEF TypeOK, BelongsOK, Sessions
<1>1. CASE Continues
  BY <1>1, ContinuesMoves DEF Requests
<1>2. CASE Sends
  <2>1. PICK r \in Requests, b \in Browsers, s \in Steps \ {"idle"} : Send(r, b, s)
    BY <1>2, SendsMove
  <2>2. /\ step[r] = "idle" /\ step' = [step EXCEPT ![r] = s]
        /\ from' = [from EXCEPT ![r] = b]
        /\ carries' = [carries EXCEPT ![r] = cookie[b]]
        /\ cookie' = cookie
    BY <2>1 DEF Send, Move
  <2>3. \A q \in Requests : from[q] # None => q # r /\ from'[q] = from[q]
    BY <2>2
  <2>. QED
    BY <2>2, <2>3 DEF StepsOK, Requests
<1>3. CASE Apart
  BY <1>3, ApartMoves
<1>4. ASSUME NEW c \in Callbacks, Remember(c) PROVE BelongsOK'
  BY <1>4 DEF Remember, Loaded, Move, StepsOK, Requests
<1>5. ASSUME NEW c \in Callbacks, Save(c) PROVE BelongsOK'
  BY <1>5 DEF Save, Move, StepsOK, Requests
<1>6. ASSUME NEW c \in Callbacks, Reply(c) PROVE BelongsOK'
  BY <1>6 DEF Reply, Move, StepsOK, Requests, CallbacksOK, CallbackOK
<1>7. ASSUME NEW r \in Requests, Removal(r) PROVE BelongsOK'
  BY <1>7 DEF Removal, Move, StepsOK, Requests
<1>. QED
  BY <1>1, <1>2, <1>3, <1>4, <1>5, <1>6, <1>7, Cases

\* Accounts and confirmations stay, and what a callback asked for does.
LEMMA Grows ==
  ASSUME TypeOK, StepsOK, [Next]_vars
  PROVE  /\ confirmed \subseteq confirmed'
         /\ \A i \in Identities : account[i] # None => account'[i] # None
         /\ \A c \in Callbacks : asks[c] # None => asks'[c] = asks[c]
<1>. USE Routes DEF TypeOK
<1>1. CASE UNCHANGED <<confirmed, asks, account>>
  BY <1>1
<1>2. ASSUME NEW c \in Callbacks, Provide(c)
      PROVE  /\ UNCHANGED <<confirmed, asks>>
             /\ \A i \in Identities : account[i] # None => account'[i] # None
  BY <1>2 DEF Provide, Directory!Activate, Directory!Open, history
<1>3. ASSUME NEW c \in Callbacks, NEW i \in Identities, Confirm(c, i)
      PROVE  /\ confirmed \subseteq confirmed' /\ account' = account
             /\ \A d \in Callbacks : asks[d] # None => asks'[d] = asks[d]
  BY <1>3 DEF Confirm, Directory!Ask
<1>4. \/ UNCHANGED <<confirmed, asks, account>>
      \/ \E c \in Callbacks : Provide(c) \/ \E i \in Identities : Confirm(c, i)
  BY DEF Next, StartLogin, StatesExpire, Callback, Send, Consume, Reject, Exchange, Account,
     Directory!Answer, Remember, Save, Reply, Visit, Load, Show, Logout, Flush, Removal,
     SessionExpires, Fails, Quiet, vars, directory, history
<1>. QED
  BY <1>1, <1>2, <1>3, <1>4

\* The steps of a request change no row but by a save, or to delete it.
LEMMA StoreChanges ==
  ASSUME TypeOK, [Next]_vars
  PROVE  \/ \A i \in Sessions : store'[i] # None => store'[i] = store[i]
         \/ \E c \in Callbacks : Save(c)
<1>. USE DEF TypeOK
<1>1. CASE store' = store
  BY <1>1
<1>2. ASSUME NEW o \in Logouts, Flush(o)
      PROVE  \A i \in Sessions : store'[i] # None => store'[i] = store[i]
  BY <1>2 DEF Flush
<1>3. ASSUME NEW j \in Sessions, SessionExpires(j)
      PROVE  \A i \in Sessions : store'[i] # None => store'[i] = store[i]
  BY <1>3 DEF SessionExpires
<1>4. \/ store' = store
      \/ \E c \in Callbacks : Save(c)
      \/ \E o \in Logouts : Flush(o)
      \/ \E j \in Sessions : SessionExpires(j)
  BY DEF Next, StartLogin, StatesExpire, Callback, Send, Consume, Reject, Exchange, Account,
     Confirm, Provide, Remember, Reply, Visit, Load, Show, Logout, Removal, Fails, Quiet, vars
<1>. QED
  BY <1>1, <1>2, <1>3, <1>4

\* Where a request comes from never changes.
LEMMA FromStays ==
  ASSUME TypeOK, StepsOK, BelongsOK, [Next]_vars
  PROVE  \A r \in Requests : from[r] # None => from'[r] = from[r]
<1>1. CASE from' = from
  BY <1>1
<1>2. CASE Sends
  <2>1. PICK r \in Requests, b \in Browsers, s \in Steps \ {"idle"} : Send(r, b, s)
    BY <1>2, SendsMove
  <2>. QED
    BY <2>1 DEF Send, Move, BelongsOK, TypeOK
<1>3. from' = from \/ Sends
  BY Cases, ContinuesMoves, ApartMoves DEF Remember, Save, Reply, Removal
<1>. QED
  BY <1>1, <1>2, <1>3

LEMMA StoreStep ==
  ASSUME TypeOK, StepsOK, BelongsOK, StoreOK, CallbacksOK, [Next]_vars
  PROVE  StoreOK'
<1>. USE Routes DEF TypeOK, StoreOK, Sessions
<1>1. ASSUME NEW i \in Sessions, store[i] # None, store'[i] = store[i]
      PROVE  <<from[i], store[i]>>' \in confirmed' /\ account'[store'[i]] # None
  <2>1. <<from[i], store[i]>> \in confirmed /\ account[store[i]] # None
    BY <1>1
  <2>2. from[i] # None /\ i \in Requests /\ store[i] \in Identities
    BY <1>1, <2>1 DEF Requests
  <2>3. from'[i] = from[i]
    BY <2>2, FromStays
  <2>. QED
    BY <1>1, <2>1, <2>2, <2>3, Grows
<1>2. CASE \A i \in Sessions : store'[i] # None => store'[i] = store[i]
  BY <1>1, <1>2
<1>3. ASSUME NEW c \in Callbacks, Save(c) PROVE StoreOK'
  <2>. DEFINE id == IF carries[c] = None THEN c ELSE carries[c]
  <2>1. /\ id \in Callbacks /\ from[id] = from[c] /\ from' = from
        /\ store' = [store EXCEPT ![id] = user[c]]
        /\ UNCHANGED <<confirmed, account>>
    BY <1>3 DEF Save, BelongsOK, Requests, history, directory
  <2>2. <<from[c], user[c]>> \in confirmed /\ account[user[c]] # None
    BY <1>3 DEF Save, Move, CallbacksOK, CallbackOK
  <2>. HIDE DEF id
  <2>. QED
    BY <2>1, <2>2
<1>. QED
  BY <1>2, <1>3, StoreChanges

LEMMA CallbacksStep ==
  ASSUME TypeOK, StepsOK, BelongsOK, CallbacksOK, [Next]_vars
  PROVE  CallbacksOK'
<1>. SUFFICES ASSUME NEW c \in Callbacks PROVE CallbackOK(c)'
  BY DEF CallbacksOK
<1>. DEFINE Same == /\ step'[c] = step[c] /\ asks'[c] = asks[c]
                    /\ user'[c] = user[c] /\ carries'[c] = carries[c]
<1>0. CallbackOK(c) /\ c \in Requests /\ asks[c] \in Identities \cup {None}
  BY DEF CallbacksOK, Requests, TypeOK
<1>1. CASE Same
  <2>1. asks[c] # None => from'[c] = from[c]
    BY <1>0, FromStays DEF CallbackOK, BelongsOK
  <2>. QED
    BY <1>0, <1>1, <2>1, Grows, Routes DEF CallbackOK
<1>2. CASE Sends
  <2>1. PICK r \in Requests, b \in Browsers, s \in Steps \ {"idle"} : Send(r, b, s)
    BY <1>2, SendsMove
  <2>2. CASE r # c
    BY <1>0, <1>1, <1>2, <2>1, <2>2, SendsMove DEF Send, Move, StepsOK, TypeOK
  <2>3. CASE r = c
    <3>1. step[c] = "idle" /\ step'[c] = s
      BY <1>0, <2>1, <2>3 DEF Send, Move, StepsOK
    <3>2. \E d \in Requests, t \in {"consume", "load", "flush"} :
            /\ step' = [step EXCEPT ![d] = t]
            /\ t # "consume" => d \notin Callbacks
      BY <1>2, Routes DEF Sends, Callback, Visit, Logout, Send, Move, Requests
    <3>3. step'[c] = "consume"
      BY <1>0, <3>1, <3>2 DEF StepsOK
    <3>4. asks[c] = None /\ asks' = asks
      BY <1>0, <1>2, <3>1, SendsMove DEF CallbackOK
    <3>. QED
      BY <3>3, <3>4 DEF CallbackOK
  <2>. QED
    BY <2>2, <2>3
<1>3. CASE Apart
  BY <1>1, <1>3, ApartMoves
<1>4. ASSUME NEW d \in Callbacks, Consume(d) \/ Reject(d) \/ Exchange(d) PROVE CallbackOK(c)'
  <2>1. /\ UNCHANGED <<asks, user, carries, from, confirmed, account>>
        /\ step[d] \in {"consume", "exchange"}
        /\ \E s \in {"exchange", "identity", "failed"} : step' = [step EXCEPT ![d] = s]
    BY <1>4 DEF Consume, Reject, Exchange, Move, directory, history
  <2>. QED
    BY <1>0, <2>1 DEF CallbackOK, StepsOK
<1>5. ASSUME NEW d \in Callbacks, NEW i \in Identities, Confirm(d, i) PROVE CallbackOK(c)'
  <2>1. /\ UNCHANGED <<user, carries, from, account>> /\ step' = [step EXCEPT ![d] = "account"]
        /\ asks' = [asks EXCEPT ![d] = i] /\ confirmed' = confirmed \cup {<<from[d], i>>}
    BY <1>5 DEF Confirm, Move, Directory!Ask
  <2>. QED
    BY <1>0, <2>1, Routes DEF CallbackOK, StepsOK, TypeOK, Requests
<1>6. ASSUME NEW d \in Callbacks, Provide(d) PROVE CallbackOK(c)'
  BY <1>1, <1>6 DEF Provide, Directory!Activate, Directory!Open, request
<1>7. ASSUME NEW d \in Callbacks, Account(d) PROVE CallbackOK(c)'
  <2>1. /\ UNCHANGED <<asks, user, carries, from, account, confirmed>>
        /\ step' = [step EXCEPT ![d] = "remember"]
        /\ asks[d] # None /\ account[asks[d]] # None
    BY <1>7 DEF Account, Move, Directory!Answer, history
  <2>. QED
    BY <1>0, <2>1 DEF CallbackOK, StepsOK
<1>8. ASSUME NEW d \in Callbacks, Remember(d) PROVE CallbackOK(c)'
  <2>1. /\ UNCHANGED <<asks, from, account, confirmed>>
        /\ step[d] = "remember"
        /\ step' = [step EXCEPT ![d] = IF Loaded(d) = asks[d] THEN "unchanged" ELSE "save"]
        /\ carries' = [carries EXCEPT ![d] = IF Loaded(d) = None THEN None ELSE carries[d]]
        /\ user' = [user EXCEPT ![d] = asks[d]]
    BY <1>8 DEF Remember, Move, directory, history
  <2>2. CASE d = c
    <3>1. asks[c] # None /\ account[asks[c]] # None
      BY <1>0, <2>1, <2>2 DEF CallbackOK
    <3>2. Loaded(c) # None => carries[c] # None
      BY DEF Loaded
    <3>3. user'[c] = asks[c] /\ (Loaded(c) # None => carries'[c] = carries[c])
      BY <1>0, <2>1, <2>2 DEF TypeOK
    <3>4. step'[c] = IF Loaded(c) = asks[c] THEN "unchanged" ELSE "save"
      BY <1>0, <2>1, <2>2 DEF StepsOK
    <3>. QED
      BY <1>0, <2>1, <3>1, <3>2, <3>3, <3>4 DEF CallbackOK
  <2>3. CASE d # c
    BY <1>1, <2>1, <2>3, <1>0 DEF StepsOK, TypeOK
  <2>. QED
    BY <2>2, <2>3
<1>9. ASSUME NEW d \in Callbacks, Save(d) PROVE CallbackOK(c)'
  <2>1. /\ UNCHANGED <<asks, user, from, account, confirmed>>
        /\ step[d] = "save" /\ step' = [step EXCEPT ![d] = "saved"]
        /\ carries' = [carries EXCEPT ![d] = IF carries[d] = None THEN d ELSE carries[d]]
    BY <1>9 DEF Save, Move, directory, history
  <2>2. CASE d = c
    <3>1. carries'[c] # None /\ step'[c] = "saved"
      BY <1>0, <2>1, <2>2, Routes DEF StepsOK, TypeOK
    <3>. QED
      BY <1>0, <2>1, <2>2, <3>1 DEF CallbackOK
  <2>3. CASE d # c
    BY <1>0, <1>1, <2>1, <2>3 DEF StepsOK, TypeOK
  <2>. QED
    BY <2>2, <2>3
<1>10. ASSUME NEW d \in Callbacks, Reply(d) PROVE CallbackOK(c)'
  <2>1. /\ UNCHANGED <<asks, user, from, account, confirmed, carries>>
        /\ step[d] \in {"saved", "unchanged"} /\ step' = [step EXCEPT ![d] = "done"]
    BY <1>10 DEF Reply, Move, directory
  <2>. QED
    BY <1>0, <2>1 DEF CallbackOK, StepsOK
<1>11. ASSUME NEW v \in Visits, Load(v) \/ Show(v) PROVE CallbackOK(c)'
  BY <1>0, <1>1, <1>11, Routes DEF Load, Show, Move, StepsOK, TypeOK, directory
<1>12. ASSUME NEW o \in Logouts, Flush(o) PROVE CallbackOK(c)'
  BY <1>0, <1>1, <1>12, Routes DEF Flush, Move, StepsOK, directory
<1>13. ASSUME NEW r \in Requests, Removal(r) PROVE CallbackOK(c)'
  <2>1. r # c
    BY <1>13 DEF Removal, Move, TypeOK, CallbackStep
  <2>. QED
    BY <1>0, <1>1, <1>13, <2>1 DEF Removal, Move, StepsOK, directory
<1>14. ASSUME NEW r \in Requests, Fails(r) PROVE CallbackOK(c)'
  <2>1. /\ UNCHANGED <<asks, user, from, account, confirmed, carries>>
        /\ step' = [step EXCEPT ![r] = "failed"]
    BY <1>14 DEF Fails, directory, history
  <2>. QED
    BY <1>0, <2>1 DEF CallbackOK, StepsOK
<1>. QED
  BY <1>2, <1>3, <1>4, <1>5, <1>6, <1>7, <1>8, <1>9, <1>10, <1>11, <1>12, <1>13, <1>14, Cases
     DEF Continues

LEMMA VisitsStep ==
  ASSUME TypeOK, StepsOK, BelongsOK, StoreOK, VisitsOK, [Next]_vars
  PROVE  VisitsOK'
<1>. SUFFICES ASSUME NEW v \in Visits, step'[v] \in {"page", "shown"}
              PROVE  <<from[v], user[v]>>' \in confirmed'
  BY DEF VisitsOK
<1>0. v \in Requests /\ v \notin Callbacks
  BY Routes DEF Requests
<1>1. CASE step[v] \in {"page", "shown"} /\ user'[v] = user[v]
  BY <1>0, <1>1, FromStays, Grows DEF VisitsOK, BelongsOK
<1>2. ASSUME NEW w \in Visits, Load(w) \/ Show(w)
      PROVE  <<from[v], user[v]>>' \in confirmed'
  <2>1. CASE w = v /\ Load(v)
    <3>1. /\ user'[v] = Loaded(v) /\ Loaded(v) # None /\ UNCHANGED <<from, confirmed>>
      BY <1>2, <2>1, <1>0 DEF Load, Move, StepsOK, TypeOK, history
    <3>2. carries[v] \in Callbacks /\ from[carries[v]] = from[v] /\ Loaded(v) = store[carries[v]]
      BY <1>0, <3>1 DEF Loaded, BelongsOK, TypeOK, Sessions
    <3>. QED
      BY <3>1, <3>2 DEF StoreOK, Sessions
  <2>2. CASE w = v /\ Show(v)
    BY <1>1, <2>2 DEF Show, Move
  <2>3. CASE w # v
    BY <1>0, <1>1, <1>2, <2>3 DEF Load, Show, Move, StepsOK, TypeOK, Requests
  <2>. QED
    BY <1>2, <2>1, <2>2, <2>3
<1>3. CASE Sends
  <2>1. PICK r \in Requests, b \in Browsers, s \in Steps \ {"idle"} : Send(r, b, s)
    BY <1>3, SendsMove
  <2>2. CASE r = v
    <3>1. step'[v] \in {"consume", "load", "flush"}
      BY <1>0, <1>3, <2>1, <2>2 DEF Sends, Callback, Visit, Logout, Send, Move, StepsOK, Requests
    <3>. QED
      BY <3>1
  <2>3. CASE r # v
    BY <1>0, <1>1, <2>1, <2>3 DEF Send, Move, StepsOK
  <2>. QED
    BY <2>2, <2>3
<1>4. CASE Apart
  BY <1>1, <1>4, ApartMoves
<1>5. ASSUME NEW c \in Callbacks,
             \/ Consume(c) \/ Reject(c) \/ Exchange(c) \/ Provide(c) \/ Account(c)
             \/ Remember(c) \/ Save(c) \/ Reply(c) \/ \E i \in Identities : Confirm(c, i)
      PROVE  <<from[v], user[v]>>' \in confirmed'
  <2>1. step'[v] = step[v] /\ user'[v] = user[v]
    BY <1>0, <1>5 DEF Consume, Reject, Exchange, Provide, Account, Remember, Save, Reply, Confirm,
       Move, StepsOK, TypeOK, Requests, request
  <2>. QED
    BY <1>1, <2>1
<1>6. ASSUME NEW o \in Requests, Flush(o) \/ Removal(o) \/ Fails(o)
      PROVE  <<from[v], user[v]>>' \in confirmed'
  <2>1. step[v] \in {"page", "shown"} /\ user'[v] = user[v]
    BY <1>0, <1>6 DEF Flush, Removal, Fails, Move, StepsOK
  <2>. QED
    BY <1>1, <2>1
<1>. QED
  BY <1>2, <1>3, <1>4, <1>5, <1>6, Cases DEF Continues, Requests

LEMMA InitIInv == Init => IInv
  BY Routes DEF Init, IInv, TypeOK, StepsOK, Steps, CallbackStep, VisitStep, LogoutStep, BelongsOK,
     StoreOK, CallbacksOK, CallbackOK, VisitsOK, Tokens!TokInit, Directory!DirInit, Requests, Sessions

LEMMA StepIInv == IInv /\ [Next]_vars => IInv'
  BY TypeStep, BelongsStep, StoreStep, CallbacksStep, VisitsStep DEF IInv

LEMMA Invariance == Spec => []IInv
  BY InitIInv, StepIInv, PTL DEF Spec

-----------------------------------------------------------------------------
(* The theorems *)

\* Tokens, accounts, sessions, cookies and requests are always well formed.
THEOREM TypeCorrect == Spec => []TypeOK
<1>1. IInv => TypeOK
  BY DEF IInv
<1>. QED
  BY <1>1, Invariance, PTL

\* No browser is shown an account that GitHub has not confirmed to a callback
\* of its own.
THEOREM ShownAreConfirmed == Spec => []ShownIsConfirmed
<1>1. IInv => ShownIsConfirmed
  BY DEF IInv, VisitsOK, ShownIsConfirmed
<1>. QED
  BY <1>1, Invariance, PTL

\* No session names a user that has no row.
THEOREM SessionsHaveRows == Spec => []SessionsHaveAccounts
<1>1. IInv => SessionsHaveAccounts
  BY DEF IInv, StoreOK, SessionsHaveAccounts
<1>. QED
  BY <1>1, Invariance, PTL

-----------------------------------------------------------------------------
(* A change of account.  While nobody else of its browser is signing in, a *)
(* callback finds the cookie that it came with, or none, and the row of    *)
(* its session is written by nobody else (AloneOK); so what its reply      *)
(* leaves behind stays (ExpectOK), also for a visit on its way (HopeOK).   *)

ExpectOK ==
  \A b \in Browsers : expect[b] # None =>
    /\ Running(b) = {}
    /\ cookie[b] # None => store[cookie[b]] \in {None, expect[b]}

AloneOK ==
  \A c \in alone :
    /\ step[c] # "idle"
    /\ step[c] \notin Ended =>
         /\ Running(from[c]) = {c}
         /\ step[c] \notin {"save", "saved"} => cookie[from[c]] \in {None, carries[c]}
         /\ step[c] \in {"unchanged", "saved"} => store[carries[c]] \in {None, asks[c]}

HopeOK ==
  \A v \in Visits : hope[v] # None =>
    /\ step[v] # "idle"
    /\ Running(from[v]) = {}
    /\ step[v] = "load" /\ carries[v] # None => store[carries[v]] \in {None, hope[v]}

SwitchInv == IInv /\ ExpectOK /\ AloneOK /\ HopeOK

\* Only a callback of its own makes a browser's logins more.
LEMMA RunningShrinks ==
  ASSUME IInv, [Next]_vars, NEW b \in Browsers, ~ \E c \in Callbacks : Callback(c, b)
  PROVE  Running(b)' \subseteq Running(b)
<1>. SUFFICES ASSUME NEW c \in Callbacks, from'[c] = b, step'[c] \notin Ended
              PROVE  from[c] = b /\ step[c] \notin Ended
  BY DEF Running
<1>0. c \in Requests /\ TypeOK /\ StepsOK /\ BelongsOK
  BY DEF IInv, Requests
<1>1. CASE from' = from /\ step'[c] = step[c]
  BY <1>1
<1>2. CASE Sends
  <2>1. PICK r \in Requests, a \in Browsers, s \in Steps :
          /\ Send(r, a, s)
          /\ r \in Callbacks => Callback(r, a)
    <3>1. ASSUME NEW d \in Callbacks, NEW e \in Browsers, Callback(d, e)
          PROVE  Send(d, e, "consume") /\ d \in Requests /\ "consume" \in Steps
      BY <3>1 DEF Callback, Requests, Steps, CallbackStep
    <3>2. ASSUME NEW v \in Visits, NEW e \in Browsers, Visit(v, e)
          PROVE  Send(v, e, "load") /\ v \in Requests /\ v \notin Callbacks /\ "load" \in Steps
      BY <3>2, Routes DEF Visit, Requests, Steps, VisitStep
    <3>3. ASSUME NEW o \in Logouts, NEW e \in Browsers, Logout(o, e)
          PROVE  Send(o, e, "flush") /\ o \in Requests /\ o \notin Callbacks /\ "flush" \in Steps
      BY <3>3, Routes DEF Logout, Requests, Steps, LogoutStep
    <3>. QED
      BY <1>2, <3>1, <3>2, <3>3 DEF Sends
  <2>2. r # c
    BY <1>0, <2>1 DEF Send, TypeOK
  <2>. QED
    BY <1>0, <2>1, <2>2 DEF Send, Move, StepsOK, TypeOK
<1>3. CASE Apart
  BY <1>3, <1>1, ApartMoves
<1>4. CASE Continues
  <2>1. from' = from
    BY <1>0, <1>4, ContinuesMoves
  <2>2. step[c] \in Ended => step'[c] = step[c]
    BY <1>0, <1>4 DEF Continues, Consume, Reject, Exchange, Provide, Account, Confirm, Load, Show,
       Flush, Fails, Move, StepsOK, Ended, request
  <2>. QED
    BY <2>1, <2>2
<1>5. ASSUME NEW d \in Callbacks, Remember(d) \/ Save(d) \/ Reply(d)
      PROVE  from[c] = b /\ step[c] \notin Ended
  BY <1>0, <1>5 DEF Remember, Save, Reply, Move, StepsOK, Ended
<1>6. ASSUME NEW r \in Requests, Removal(r)
      PROVE  from[c] = b /\ step[c] \notin Ended
  BY <1>0, <1>6 DEF Removal, Move, StepsOK, Ended
<1>. QED
  BY <1>2, <1>3, <1>4, <1>5, <1>6, Cases

\* A row is written on behalf of its own browser only.
LEMMA RowKept ==
  ASSUME IInv, [Next]_vars, NEW i \in Sessions,
         \A c \in Callbacks : Save(c) => from[c] # from[i]
  PROVE  store'[i] \in {None, store[i]}
<1>1. ASSUME NEW c \in Callbacks, Save(c) PROVE store'[i] = store[i]
  <2>. DEFINE id == IF carries[c] = None THEN c ELSE carries[c]
  <2>1. id \in Callbacks /\ from[id] = from[c] /\ store' = [store EXCEPT ![id] = user[c]]
    BY <1>1 DEF Save, BelongsOK, Requests, IInv, TypeOK, Sessions
  <2>2. id # i
    BY <1>1, <2>1
  <2>. HIDE DEF id
  <2>. QED
    BY <2>1, <2>2 DEF IInv, TypeOK
<1>. QED
  BY <1>1, StoreChanges DEF IInv

\* Who changes cookies.
LEMMA CookieKept ==
  ASSUME IInv, [Next]_vars, NEW b \in Browsers,
         \A c \in Callbacks : Reply(c) => from[c] # b
  PROVE  cookie'[b] \in {None, cookie[b]}
<1>1. ASSUME NEW c \in Callbacks, Reply(c) PROVE cookie'[b] = cookie[b]
  BY <1>1 DEF Reply, IInv, TypeOK
<1>2. ASSUME NEW r \in Requests, Removal(r) PROVE cookie'[b] \in {None, cookie[b]}
  BY <1>2 DEF Removal, IInv, TypeOK
<1>3. ASSUME NEW c \in Callbacks, Remember(c) \/ Save(c) PROVE cookie' = cookie
  BY <1>3 DEF Remember, Save
<1>. QED
  BY <1>1, <1>2, <1>3, Cases, ContinuesMoves, SendsMove, ApartMoves DEF IInv

LEMMA IdsBelong ==
  ASSUME IInv
  PROVE  /\ \A b \in Browsers : cookie[b] # None => cookie[b] \in Sessions /\ from[cookie[b]] = b
         /\ \A r \in Requests : carries[r] # None =>
              carries[r] \in Sessions /\ from[carries[r]] = from[r]
         /\ \A c \in Callbacks : c \in Requests /\ (step[c] # "idle" => from[c] \in Browsers)
         /\ \A v \in Visits : v \in Requests /\ (step[v] # "idle" => from[v] \in Browsers)
  BY DEF IInv, BelongsOK, TypeOK, Requests

LEMMA Savers ==
  ASSUME IInv, NEW c \in Callbacks, Save(c) \/ Reply(c)
  PROVE  c \in Running(from[c])
  BY DEF Save, Reply, Move, Running, Ended

LEMMA ExpectStep ==
  ASSUME SwitchInv, [Next]_vars, NEW b \in Browsers, expect'[b] # None
  PROVE  /\ Running(b)' = {}
         /\ cookie'[b] # None => store'[cookie'[b]] \in {None, expect'[b]}
<1>0. IInv /\ TypeOK /\ StepsOK /\ None \notin Sessions
  BY Routes DEF SwitchInv, IInv, Sessions
<1>1. ~ \E c \in Callbacks : Callback(c, b)
  BY <1>0 DEF Callback, TypeOK
<1>2. Running(b)' \subseteq Running(b)
  BY <1>0, <1>1, RunningShrinks
<1>3. CASE expect'[b] = expect[b] /\ Running(b) = {}
  <2>1. \A c \in Callbacks : Save(c) \/ Reply(c) => from[c] # b
    BY <1>0, <1>3, Savers
  <2>2. cookie'[b] \in {None, cookie[b]}
    BY <1>0, <2>1, CookieKept
  <2>3. cookie[b] # None => store'[cookie[b]] \in {None, store[cookie[b]]}
    BY <1>0, <2>1, IdsBelong, RowKept
  <2>4. cookie[b] # None => store[cookie[b]] \in {None, expect[b]}
    BY <1>3 DEF SwitchInv, ExpectOK
  <2>. QED
    BY <1>2, <1>3, <2>2, <2>3, <2>4
<1>4. ASSUME NEW c \in Callbacks, Reply(c), from[c] = b
      PROVE  /\ Running(b)' = {}
             /\ cookie'[b] # None => store'[cookie'[b]] \in {None, expect'[b]}
  <2>1. /\ c \in alone /\ expect'[b] = asks[c] /\ store' = store
        /\ step' = [step EXCEPT ![c] = "done"] /\ step[c] \in {"saved", "unchanged"}
    BY <1>0, <1>4 DEF Reply, Move, TypeOK
  <2>2. /\ Running(b) = {c} /\ store[carries[c]] \in {None, asks[c]}
        /\ step[c] = "unchanged" => cookie[b] \in {None, carries[c]}
    BY <1>4, <2>1 DEF SwitchInv, AloneOK, Ended
  <2>3. Running(b)' = {}
    BY <1>0, <1>2, <2>1, <2>2 DEF Running, Ended, StepsOK, Requests
  <2>4. cookie'[b] \in {None, carries[c]}
    BY <1>0, <1>4, <2>1, <2>2 DEF Reply, Move, TypeOK
  <2>. QED
    BY <2>1, <2>2, <2>3, <2>4
<1>5. \/ expect'[b] = expect[b]
      \/ \E c \in Callbacks : Reply(c) /\ from[c] = b
  <2>1. ASSUME NEW c \in Callbacks, Reply(c), from[c] # b PROVE expect'[b] = expect[b]
    BY <1>0, <2>1 DEF Reply, TypeOK
  <2>2. ASSUME NEW c \in Callbacks, NEW a \in Browsers, Callback(c, a) PROVE expect'[b] = expect[b]
    BY <1>0, <1>1, <2>2 DEF Callback, TypeOK
  <2>3. \/ expect' = expect
        \/ \E c \in Callbacks : Reply(c) \/ \E a \in Browsers : Callback(c, a)
    BY DEF Next, StartLogin, StatesExpire, Consume, Reject, Exchange, Account,
       Confirm, Provide, Remember, Save, Visit, Load, Show, Logout, Flush, Removal,
       SessionExpires, Fails, Quiet, vars, history
  <2>. QED
    BY <2>1, <2>2, <2>3
<1>6. expect[b] # None => Running(b) = {}
  BY DEF SwitchInv, ExpectOK
<1>. QED
  BY <1>3, <1>4, <1>5, <1>6

LEMMA HopeStep ==
  ASSUME SwitchInv, [Next]_vars, NEW v \in Visits, hope'[v] # None
  PROVE  /\ step'[v] # "idle"
         /\ Running(from[v])' = {}
         /\ step'[v] = "load" /\ carries'[v] # None => store'[carries'[v]] \in {None, hope'[v]}
<1>0. IInv /\ TypeOK /\ StepsOK /\ v \in Requests /\ v \notin Callbacks
  BY Routes DEF SwitchInv, IInv, Requests
<1>1. ASSUME NEW b \in Browsers, Visit(v, b)
      PROVE  /\ step'[v] # "idle"
             /\ Running(from[v])' = {}
             /\ carries'[v] # None => store'[carries'[v]] \in {None, hope'[v]}
  <2>1. /\ step' = [step EXCEPT ![v] = "load"] /\ from' = [from EXCEPT ![v] = b]
        /\ carries'[v] = cookie[b] /\ hope'[v] = expect[b] /\ store' = store
    BY <1>0, <1>1 DEF Visit, Send, Move, TypeOK
  <2>2. Running(b) = {} /\ (cookie[b] # None => store[cookie[b]] \in {None, expect[b]})
    BY <2>1 DEF SwitchInv, ExpectOK
  <2>3. Running(b)' = Running(b)
    BY <1>0, <2>1, Routes DEF Running, StepsOK, TypeOK, Requests
  <2>4. step'[v] = "load" /\ from'[v] = b
    BY <1>0, <2>1 DEF StepsOK, TypeOK
  <2>. QED
    BY <2>1, <2>2, <2>3, <2>4
<1>2. CASE hope[v] = hope'[v] /\ ~ \E b \in Browsers : Visit(v, b)
  <2>1. step[v] # "idle" /\ from[v] \in Browsers /\ Running(from[v]) = {}
    BY <1>0, <1>2, IdsBelong DEF SwitchInv, HopeOK
  <2>2. from'[v] = from[v]
    BY <1>0, <2>1, FromStays DEF IInv, BelongsOK
  <2>3. \A c \in Callbacks : ~Callback(c, from[v])
    BY <1>0 DEF Callback
  <2>4. Running(from[v])' = {}
    BY <1>0, <2>1, <2>2, <2>3, RunningShrinks
  <2>5. step'[v] # "idle"
    BY <1>0, <2>1, <2>2, StepIInv DEF IInv, BelongsOK
  <2>6. step'[v] = "load" => step[v] = "load"
    <3>1. ASSUME NEW r \in Requests, NEW b \in Browsers, NEW s \in Steps, Send(r, b, s)
          PROVE  step'[v] = step[v]
      BY <1>0, <2>1, <3>1 DEF Send, Move, StepsOK
    <3>2. ASSUME NEW c \in Callbacks,
                 \/ Consume(c) \/ Reject(c) \/ Exchange(c) \/ Provide(c) \/ Account(c)
                 \/ Remember(c) \/ Save(c) \/ Reply(c) \/ \E i \in Identities : Confirm(c, i)
          PROVE  step'[v] = step[v]
      BY <1>0, <3>2 DEF Consume, Reject, Exchange, Provide, Account, Remember, Save, Reply, Confirm,
         Move, StepsOK, request
    <3>3. ASSUME NEW r \in Requests, Load(r) \/ Show(r) \/ Flush(r) \/ Removal(r) \/ Fails(r)
          PROVE  step'[v] \in {step[v], "login", "page", "shown", "flushed", "done", "failed"}
      BY <1>0, <3>3 DEF Load, Show, Flush, Removal, Fails, Move, StepsOK
    <3>. QED
      BY <3>1, <3>2, <3>3, Cases, SendsMove, ApartMoves DEF Continues, Requests
  <2>7. carries'[v] = carries[v]
    <3>1. ASSUME NEW r \in Requests, NEW b \in Browsers, NEW s \in Steps, Send(r, b, s)
          PROVE  carries'[v] = carries[v]
      BY <1>0, <2>1, <3>1 DEF Send, Move, TypeOK
    <3>2. ASSUME NEW c \in Callbacks, Remember(c) \/ Save(c) \/ Reply(c)
          PROVE  carries'[v] = carries[v]
      BY <1>0, <3>2 DEF Remember, Save, Reply, TypeOK
    <3>3. ASSUME NEW r \in Requests, Removal(r) PROVE carries' = carries
      BY <3>3 DEF Removal
    <3>. QED
      BY <1>0, <3>1, <3>2, <3>3, Cases, ContinuesMoves, SendsMove, ApartMoves
  <2>8. carries[v] # None => store'[carries[v]] \in {None, store[carries[v]]}
    BY <1>0, <2>1, IdsBelong, RowKept, Savers
  <2>. QED
    BY <1>2, <2>2, <2>4, <2>5, <2>6, <2>7, <2>8 DEF SwitchInv, HopeOK
<1>3. hope'[v] = hope[v] \/ \E b \in Browsers : Visit(v, b)
  <2>1. ASSUME NEW c \in Callbacks, NEW a \in Browsers, Callback(c, a) PROVE hope'[v] = hope[v]
    BY <1>0, <2>1 DEF Callback
  <2>2. ASSUME NEW w \in Visits, NEW a \in Browsers, Visit(w, a), w # v PROVE hope'[v] = hope[v]
    BY <1>0, <2>2 DEF Visit, TypeOK
  <2>3. \/ hope' = hope
        \/ \E a \in Browsers : \/ \E c \in Callbacks : Callback(c, a)
                              \/ \E w \in Visits : Visit(w, a)
    BY DEF Next, StartLogin, StatesExpire, Consume, Reject, Exchange, Account,
       Confirm, Provide, Remember, Save, Reply, Load, Show, Logout, Flush, Removal,
       SessionExpires, Fails, Quiet, vars, history
  <2>. QED
    BY <2>1, <2>2, <2>3
<1>. QED
  BY <1>1, <1>2, <1>3

LEMMA AloneStep ==
  ASSUME SwitchInv, [Next]_vars, NEW c \in Callbacks, c \in alone', step'[c] \notin Ended
  PROVE  /\ Running(from[c])' = {c}
         /\ step'[c] \notin {"save", "saved"} => cookie'[from'[c]] \in {None, carries'[c]}
         /\ step'[c] \in {"unchanged", "saved"} => store'[carries'[c]] \in {None, asks'[c]}
<1>0. /\ IInv /\ TypeOK /\ StepsOK /\ c \in Requests /\ None \notin Sessions
      /\ IInv'
  BY Routes, StepIInv DEF SwitchInv, IInv, Requests, Sessions
<1>1. ASSUME NEW b \in Browsers, Callback(c, b)
      PROVE  /\ Running(from[c])' = {c}
             /\ cookie'[from'[c]] \in {None, carries'[c]}
             /\ step'[c] = "consume"
  <2>1. /\ step' = [step EXCEPT ![c] = "consume"] /\ from' = [from EXCEPT ![c] = b]
        /\ carries' = [carries EXCEPT ![c] = cookie[b]] /\ cookie' = cookie
    BY <1>1 DEF Callback, Send, Move
  <2>2. Running(b) = {}
    <3>1. alone' = alone \ Running(b) \/ Running(b) = {}
      BY <1>1 DEF Callback
    <3>2. c \notin alone
      <4>1. step[c] = "idle" /\ from[c] = None
        BY <1>0, <1>1 DEF Callback, Send, Move, IInv, BelongsOK
      <4>. QED
        BY <4>1 DEF SwitchInv, AloneOK
    <3>. QED
      BY <3>1, <3>2
  <2>3. Running(b)' = {c}
    BY <1>0, <2>1, <2>2 DEF Running, StepsOK, TypeOK, Requests, Ended
  <2>. QED
    BY <1>0, <2>1, <2>3 DEF StepsOK, TypeOK
<1>2. CASE c \in alone /\ ~ \E d \in Callbacks : Callback(d, from[c])
  <2>. DEFINE b == from[c]
  <2>1. step[c] \notin Ended /\ b \in Browsers
    <3>1. step[c] # "idle"
      BY <1>2 DEF SwitchInv, AloneOK
    <3>2. b \in Browsers /\ from'[c] = b
      BY <1>0, <3>1, IdsBelong, FromStays DEF IInv, BelongsOK
    <3>3. c \in Running(b)'
      BY <3>2 DEF Running
    <3>. QED
      BY <1>0, <1>2, <3>2, <3>3, RunningShrinks DEF Running
  <2>2. from'[c] = b /\ Running(b) = {c}
    BY <1>0, <1>2, <2>1, FromStays DEF SwitchInv, AloneOK, IInv, BelongsOK
  <2>3. Running(from[c])' = {c}
    BY <1>0, <1>2, <2>1, <2>2, RunningShrinks DEF Running
  <2>4. \A d \in Callbacks : Save(d) \/ Reply(d) => d = c \/ from[d] # b
    BY <1>0, <2>2, Savers
  <2>5. ~Reply(c)
    BY <1>0 DEF Reply, Move, StepsOK, Ended
  <2>6. cookie'[b] \in {None, cookie[b]}
    BY <1>0, <2>1, <2>4, <2>5, CookieKept
  <2>7. CASE Save(c)
    <3>1. /\ step'[c] = "saved" /\ asks'[c] = user[c] /\ carries'[c] \in Sessions
          /\ store'[carries'[c]] = user[c]
      <4>. DEFINE id == IF carries[c] = None THEN c ELSE carries[c]
      <4>1. /\ step[c] = "save" /\ step' = [step EXCEPT ![c] = "saved"]
            /\ store' = [store EXCEPT ![id] = user[c]]
            /\ carries' = [carries EXCEPT ![c] = id] /\ asks' = asks
        BY <2>7 DEF Save, Move, directory
      <4>2. user[c] = asks[c]
        BY <4>1 DEF SwitchInv, IInv, CallbacksOK, CallbackOK
      <4>3. id \in Sessions
        BY <1>0 DEF TypeOK, Sessions
      <4>4. store'[id] = user[c]
        BY <1>0, <4>1, <4>3 DEF TypeOK
      <4>5. step'[c] = "saved" /\ carries'[c] = id
        BY <1>0, <4>1 DEF StepsOK, TypeOK, Requests
      <4>. QED
        BY <4>1, <4>2, <4>3, <4>4, <4>5
    <3>. QED
      BY <2>3, <3>1
  <2>8. CASE Remember(c)
    <3>1. /\ step[c] = "remember" /\ store' = store /\ asks' = asks /\ cookie' = cookie
          /\ step'[c] = IF Loaded(c) = asks[c] THEN "unchanged" ELSE "save"
          /\ carries'[c] = IF Loaded(c) = None THEN None ELSE carries[c]
      BY <1>0, <2>8 DEF Remember, Move, StepsOK, TypeOK, directory
    <3>2. asks[c] # None /\ cookie[b] \in {None, carries[c]}
      BY <1>0, <1>2, <2>1, <3>1 DEF SwitchInv, AloneOK, IInv, CallbacksOK, CallbackOK
    <3>. QED
      BY <2>2, <2>3, <3>1, <3>2 DEF Loaded
  <2>9. CASE ~Save(c) /\ ~Remember(c)
    <3>1. carries'[c] = carries[c]
      <4>1. ASSUME NEW r \in Requests, NEW a \in Browsers, NEW s \in Steps, Send(r, a, s)
            PROVE  carries'[c] = carries[c]
        BY <1>0, <2>1, <4>1, Routes DEF Send, Move, TypeOK, IInv, BelongsOK
      <4>2. ASSUME NEW d \in Callbacks, Remember(d) \/ Save(d) \/ Reply(d)
            PROVE  carries'[c] = carries[c]
        BY <1>0, <2>9, <4>2 DEF Remember, Save, Reply, TypeOK
      <4>3. ASSUME NEW r \in Requests, Removal(r) PROVE carries' = carries
        BY <4>3 DEF Removal
      <4>. QED
        BY <1>0, <4>1, <4>2, <4>3, Cases, ContinuesMoves, SendsMove, ApartMoves
    <3>2. step'[c] \in {"unchanged", "saved"} => step'[c] = step[c]
      <4>1. ASSUME NEW r \in Requests, NEW a \in Browsers, NEW s \in Steps, Send(r, a, s)
            PROVE  step'[c] = step[c]
        BY <1>0, <2>1, <4>1, Routes DEF Send, Move, StepsOK, IInv, BelongsOK
      <4>2. ASSUME NEW d \in Callbacks,
                   \/ Consume(d) \/ Reject(d) \/ Exchange(d) \/ Provide(d) \/ Account(d)
                   \/ \E i \in Identities : Confirm(d, i)
            PROVE  step'[c] \in {step[c], "exchange", "failed", "identity", "remember", "account"}
        BY <1>0, <4>2 DEF Consume, Reject, Exchange, Provide, Account, Confirm, Move, StepsOK, request
      <4>3. ASSUME NEW d \in Callbacks, Remember(d) \/ Save(d) \/ Reply(d)
            PROVE  step'[c] \in {step[c], "done"}
        BY <1>0, <2>9, <4>3 DEF Remember, Save, Reply, Move, StepsOK
      <4>4. ASSUME NEW r \in Requests, Load(r) \/ Show(r) \/ Flush(r) \/ Removal(r) \/ Fails(r)
            PROVE  step'[c] \in {step[c], "login", "page", "shown", "flushed", "done", "failed"}
        BY <1>0, <4>4 DEF Load, Show, Flush, Removal, Fails, Move, StepsOK
      <4>. QED
        BY <4>1, <4>2, <4>3, <4>4, Cases, SendsMove, ApartMoves DEF Continues, Requests
    <3>3. step'[c] \notin {"save", "saved"} => step[c] \notin {"save", "saved"}
      <4>1. ASSUME NEW d \in Callbacks,
                   \/ Consume(d) \/ Reject(d) \/ Exchange(d) \/ Provide(d) \/ Account(d)
                   \/ Remember(d) \/ Save(d) \/ Reply(d) \/ \E i \in Identities : Confirm(d, i)
            PROVE  step'[c] = step[c] \/ step[c] \notin {"save", "saved"}
        BY <1>0, <2>5, <2>9, <4>1 DEF Consume, Reject, Exchange, Provide, Account, Confirm, Remember,
           Save, Reply, Move, StepsOK, request
      <4>2. ASSUME NEW r \in Requests, Load(r) \/ Show(r) \/ Flush(r) \/ Removal(r) \/ Fails(r)
            PROVE  step'[c] = step[c] \/ step'[c] \in Ended \/ step[c] \notin {"save", "saved"}
        BY <1>0, <4>2 DEF Load, Show, Flush, Removal, Fails, Move, StepsOK, Ended
      <4>3. ASSUME NEW r \in Requests, NEW a \in Browsers, NEW s \in Steps, Send(r, a, s)
            PROVE  step'[c] = step[c]
        BY <1>0, <2>1, <4>3, Routes DEF Send, Move, StepsOK, IInv, BelongsOK
      <4>. QED
        BY <4>1, <4>2, <4>3, Cases, SendsMove, ApartMoves DEF Continues, Requests
    <3>4. step[c] \in {"unchanged", "saved"} =>
            /\ carries[c] \in Sessions /\ from[carries[c]] = b
            /\ asks'[c] = asks[c] /\ store[carries[c]] \in {None, asks[c]}
      BY <1>0, <1>2, <2>1, IdsBelong, Grows DEF SwitchInv, AloneOK, IInv, CallbacksOK, CallbackOK
    <3>5. carries[c] \in Sessions /\ from[carries[c]] = b
            => store'[carries[c]] \in {None, store[carries[c]]}
      BY <1>0, <2>4, <2>9, RowKept
    <3>6. step[c] \notin {"save", "saved"} => cookie[b] \in {None, carries[c]}
      BY <1>2, <2>1 DEF SwitchInv, AloneOK
    <3>. QED
      BY <2>2, <2>3, <2>6, <3>1, <3>2, <3>3, <3>4, <3>5, <3>6
  <2>. QED
    BY <2>7, <2>8, <2>9
<1>3. \/ \E b \in Browsers : Callback(c, b)
      \/ c \in alone /\ ~ \E d \in Callbacks : Callback(d, from[c])
  <2>1. c \in alone => from[c] \in Browsers
    BY <1>0, IdsBelong DEF SwitchInv, AloneOK
  <2>2. ASSUME NEW d \in Callbacks, NEW b \in Browsers, Callback(d, b), d # c
        PROVE  c \in alone /\ from[c] # b
    <3>1. step'[c] = step[c] /\ step[d] = "idle" /\ alone' \subseteq alone \cup {d}
      BY <1>0, <2>2 DEF Callback, Send, Move, StepsOK
    <3>2. c \in alone /\ (Running(b) # {} => c \notin Running(b))
      BY <2>2, <3>1 DEF Callback
    <3>. QED
      BY <3>1, <3>2 DEF Running
  <2>3. \/ alone' = alone
        \/ \E d \in Callbacks, b \in Browsers : Callback(d, b)
    BY DEF Next, StartLogin, StatesExpire, Consume, Reject, Exchange, Account,
       Confirm, Provide, Remember, Save, Reply, Visit, Load, Show, Logout, Flush, Removal,
       SessionExpires, Fails, Quiet, vars, history
  <2>. QED
    BY <2>1, <2>2, <2>3
<1>. QED
  BY <1>1, <1>2, <1>3

\* A callback is one that runs alone only once it has been sent.
LEMMA AloneSent ==
  ASSUME SwitchInv, [Next]_vars, NEW c \in Callbacks, c \in alone'
  PROVE  step'[c] # "idle"
<1>0. IInv /\ IInv' /\ TypeOK /\ StepsOK /\ c \in Requests
  BY StepIInv DEF SwitchInv, IInv, Requests
<1>1. CASE c \in alone
  BY <1>0, <1>1, FromStays DEF SwitchInv, AloneOK, IInv, BelongsOK
<1>2. CASE c \notin alone
  <2>1. \E b \in Browsers : Callback(c, b)
    BY <1>2 DEF Next, StartLogin, StatesExpire, Callback, Consume, Reject, Exchange, Account,
       Confirm, Provide, Remember, Save, Reply, Visit, Load, Show, Logout, Flush, Removal,
       SessionExpires, Fails, Quiet, vars, history
  <2>. QED
    BY <1>0, <2>1 DEF Callback, Send, Move, StepsOK
<1>. QED
  BY <1>1, <1>2

LEMMA SwitchInvariance == Spec => []SwitchInv
<1>1. Init => SwitchInv
  <2>1. Init => ExpectOK /\ AloneOK /\ HopeOK
    BY DEF Init, ExpectOK, AloneOK, HopeOK
  <2>. QED
    BY <2>1, InitIInv DEF SwitchInv
<1>2. SwitchInv /\ [Next]_vars => SwitchInv'
  <2>. SUFFICES ASSUME SwitchInv, [Next]_vars PROVE SwitchInv'
    OBVIOUS
  <2>1. IInv' /\ TypeOK'
    BY StepIInv DEF SwitchInv, IInv
  <2>2. ExpectOK'
    BY ExpectStep DEF ExpectOK
  <2>3. HopeOK'
    BY HopeStep DEF HopeOK
  <2>4. AloneOK'
    BY <2>1, AloneStep, AloneSent DEF AloneOK, TypeOK
  <2>. QED
    BY <2>1, <2>2, <2>3, <2>4 DEF SwitchInv
<1>. QED
  BY <1>1, <1>2, PTL DEF Spec

\* Whoever signs in with another account sees that one from then on, unless
\* logins of one browser overlap.
THEOREM AccountsSwitch == Spec => AccountSwitches
<1>. DEFINE Sees == \A v \in Visits :
              step[v] = "load" /\ step'[v] = "page" /\ hope[v] # None => user'[v] = hope[v]
<1>1. ASSUME SwitchInv, [Next]_vars, NEW v \in Visits,
             step[v] = "load", step'[v] = "page", hope[v] # None
      PROVE  user'[v] = hope[v]
  <2>1. TypeOK /\ StepsOK /\ v \in Requests
    BY <1>1 DEF SwitchInv, IInv, Requests
  <2>2. Load(v)
    <3>1. ASSUME NEW r \in Requests, NEW b \in Browsers, NEW s \in Steps, Send(r, b, s)
          PROVE  FALSE
      <4>1. s = "page" /\ r = v
        BY <1>1, <2>1, <3>1 DEF Send, Move, StepsOK
      <4>. QED
        BY <1>1, <3>1, <4>1 DEF Send, Move
    <3>2. ASSUME NEW c \in Callbacks,
                 \/ Consume(c) \/ Reject(c) \/ Exchange(c) \/ Provide(c) \/ Account(c)
                 \/ Remember(c) \/ Save(c) \/ Reply(c) \/ \E i \in Identities : Confirm(c, i)
          PROVE  FALSE
      BY <1>1, <2>1, <3>2 DEF Consume, Reject, Exchange, Provide, Account, Remember, Save, Reply,
         Confirm, Move, StepsOK, request
    <3>3. ASSUME NEW r \in Requests, Show(r) \/ Flush(r) \/ Removal(r) \/ Fails(r)
          PROVE  FALSE
      BY <1>1, <2>1, <3>3 DEF Show, Flush, Removal, Fails, Move, StepsOK
    <3>4. ASSUME NEW w \in Visits, Load(w) PROVE w = v
      BY <1>1, <2>1, <3>4 DEF Load, Move, StepsOK
    <3>. QED
      BY <1>1, <3>1, <3>2, <3>3, <3>4, Cases, SendsMove, ApartMoves DEF Continues, Requests
  <2>3. user'[v] = Loaded(v) /\ Loaded(v) # None
    BY <1>1, <2>1, <2>2 DEF Load, Move, StepsOK, TypeOK
  <2>. QED
    BY <1>1, <2>3 DEF SwitchInv, HopeOK, Loaded
<1>2. SwitchInv /\ [Next]_vars => [Sees]_vars
  BY <1>1
<1>. QED
  BY <1>2, SwitchInvariance, PTL DEF Spec, AccountSwitches

-----------------------------------------------------------------------------
(* The end of a session.  An id that is in a cookie or a request has been  *)
(* saved by the callback that it is named after (KnownOK), so no callback  *)
(* creates it again; and one that finds its row gone gives it up, so once  *)
(* nobody has a copy in hand nobody gets one (FinalOK).                    *)

After == {"saved", "done", "failed"}

KnownOK ==
  /\ \A b \in Browsers : cookie[b] # None => step[cookie[b]] \in After
  /\ \A r \in Requests : carries[r] # None => step[carries[r]] \in After

FinalOK ==
  \A o \in final :
    /\ o \in Logouts /\ step[o] \notin {"idle", "flush"}
    /\ carries[o] # None /\ store[carries[o]] = None /\ ~InHand(carries[o])

SignOutInv == IInv /\ KnownOK /\ FinalOK

\* How a step moves the requests that it does not send, save or remember.
LEMMA Moves ==
  ASSUME IInv, [Next]_vars, NEW r \in Requests, step[r] # "idle"
  PROVE  /\ step[r] \in After => step'[r] \in After
         /\ step'[r] \notin {"idle"}
         /\ step'[r] = "flush" => step[r] = "flush"
         /\ step'[r] = "flushed" => step[r] = "flushed" \/ Flush(r)
         /\ step'[r] = "save" => step[r] = "save" \/ Remember(r)
         /\ carries'[r] = carries[r] \/ Remember(r) \/ Save(r)
<1>0. TypeOK /\ StepsOK
  BY DEF IInv
<1>1. CASE UNCHANGED <<step, carries>>
  BY <1>1
<1>2. ASSUME NEW q \in Requests, NEW b \in Browsers, NEW s \in Steps, Send(q, b, s)
      PROVE  step'[r] = step[r] /\ carries'[r] = carries[r]
  BY <1>0, <1>2 DEF Send, Move, StepsOK, TypeOK
<1>3. ASSUME NEW c \in Callbacks,
             \/ Consume(c) \/ Reject(c) \/ Exchange(c) \/ Account(c)
             \/ \E i \in Identities : Confirm(c, i)
      PROVE  /\ carries' = carries
             /\ step'[r] = step[r] \/ (/\ step[r] \notin After
                                       /\ step'[r] \in {"exchange", "failed", "identity", "account", "remember"})
  BY <1>0, <1>3 DEF Consume, Reject, Exchange, Account, Confirm, Move, StepsOK, After, request
<1>4. ASSUME NEW c \in Callbacks, Provide(c) PROVE UNCHANGED <<step, carries>>
  BY <1>4 DEF Provide, request
<1>5. ASSUME NEW c \in Callbacks, Remember(c) \/ Save(c) \/ Reply(c), c # r
      PROVE  step'[r] = step[r] /\ carries'[r] = carries[r]
  BY <1>0, <1>5 DEF Remember, Save, Reply, Move, StepsOK, TypeOK
<1>6. CASE Remember(r)
  BY <1>0, <1>6 DEF Remember, Move, StepsOK, After
<1>7. CASE Save(r)
  BY <1>0, <1>7 DEF Save, Move, StepsOK, After
<1>8. CASE Reply(r)
  BY <1>0, <1>8 DEF Reply, Move, StepsOK, After
<1>9. ASSUME NEW q \in Requests, Load(q) \/ Show(q) \/ Removal(q) \/ Fails(q)
      PROVE  /\ carries' = carries
             /\ step'[r] = step[r] \/ (/\ step[r] \notin {"done"}
                                       /\ step'[r] \in {"login", "page", "shown", "done", "failed"}
                                       /\ step[r] \in After => step'[r] \in After)
  BY <1>0, <1>9 DEF Load, Show, Removal, Fails, Move, StepsOK, After, Ended
<1>10. ASSUME NEW q \in Requests, Flush(q)
       PROVE  /\ carries' = carries
              /\ step'[r] = step[r] \/ (q = r /\ step[r] = "flush" /\ step'[r] = "flushed")
  BY <1>0, <1>10 DEF Flush, Move, StepsOK
<1>. QED
  BY <1>1, <1>2, <1>3, <1>4, <1>5, <1>6, <1>7, <1>8, <1>9, <1>10, Cases, SendsMove, ApartMoves
     DEF Continues, Requests, After

LEMMA KnownStep ==
  ASSUME IInv, KnownOK, [Next]_vars
  PROVE  KnownOK'
<1>0. TypeOK /\ StepsOK /\ BelongsOK /\ None \notin Sessions /\ Sessions \subseteq Requests
  BY Routes DEF IInv, Sessions, Requests
<1>1. \A i \in Sessions : step[i] \in After => step'[i] \in After
  BY <1>0, Moves DEF After
<1>2. ASSUME NEW i \in Sessions,
             \/ \E b \in Browsers : cookie[b] = i
             \/ \E r \in Requests : carries[r] = i
      PROVE  step'[i] \in After
  BY <1>0, <1>1, <1>2 DEF KnownOK
<1>3. \A r \in Requests : carries'[r] # None =>
        \/ \E b \in Browsers : cookie[b] = carries'[r]
        \/ \E q \in Requests : carries[q] = carries'[r]
        \/ step'[carries'[r]] \in After
  <2>. TAKE r \in Requests
  <2>1. CASE carries'[r] = carries[r]
    BY <2>1
  <2>2. CASE Remember(r)
    BY <1>0, <2>2 DEF Remember, TypeOK
  <2>3. CASE Save(r)
    <3>1. carries'[r] \in {carries[r], r} /\ step'[r] = "saved"
      BY <1>0, <2>3 DEF Save, Move, TypeOK, StepsOK
    <3>. QED
      BY <3>1 DEF After
  <2>4. CASE step[r] = "idle"
    <3>1. ASSUME NEW q \in Requests, NEW b \in Browsers, NEW s \in Steps, Send(q, b, s)
          PROVE  carries'[r] \in {carries[r], cookie[b]}
      BY <1>0, <3>1 DEF Send, TypeOK
    <3>2. ASSUME NEW c \in Callbacks, Remember(c) \/ Save(c) \/ Reply(c) PROVE carries'[r] = carries[r]
      BY <1>0, <2>4, <3>2 DEF Remember, Save, Reply, Move, TypeOK
    <3>3. ASSUME NEW q \in Requests, Removal(q) PROVE carries' = carries
      BY <3>3 DEF Removal
    <3>. QED
      BY <1>0, <3>1, <3>2, <3>3, Cases, ContinuesMoves, SendsMove, ApartMoves
  <2>. QED
    BY <2>1, <2>2, <2>3, <2>4, Moves
<1>4. \A b \in Browsers : cookie'[b] # None =>
        \/ cookie'[b] = cookie[b]
        \/ \E q \in Requests : carries[q] = cookie'[b]
  <2>1. ASSUME NEW b \in Browsers, NEW c \in Callbacks, Reply(c)
        PROVE  cookie'[b] \in {cookie[b], carries[c]}
    BY <1>0, <2>1 DEF Reply, TypeOK
  <2>2. \A b \in Browsers : (\A c \in Callbacks : Reply(c) => from[c] # b)
                              => cookie'[b] \in {None, cookie[b]}
    BY CookieKept
  <2>. QED
    BY <1>0, <2>1, <2>2 DEF Requests
<1>5. TypeOK'
  BY <1>0, TypeStep
<1>. QED
  BY <1>2, <1>3, <1>4, <1>5 DEF KnownOK, TypeOK

LEMMA FinalStep ==
  ASSUME SignOutInv, SignOutNext
  PROVE  FinalOK'
<1>0. /\ IInv /\ TypeOK /\ StepsOK /\ [Next]_vars /\ None \notin Sessions
      /\ Logouts \subseteq Requests /\ Callbacks \subseteq Requests /\ Sessions = Callbacks
      /\ \A o \in Logouts : o \notin Callbacks
  BY Routes DEF SignOutInv, IInv, SignOutNext, Sessions, Requests
<1>1. ASSUME NEW o \in final
      PROVE  /\ o \in Logouts /\ step'[o] \notin {"idle", "flush"}
             /\ carries'[o] # None /\ store'[carries'[o]] = None /\ ~InHand(carries[o])'
  <2>. DEFINE i == carries[o]
  <2>1. /\ o \in Logouts /\ o \in Requests /\ step[o] \notin {"idle", "flush"}
        /\ i \in Sessions /\ store[i] = None /\ step[i] \in After
        /\ \A c \in Callbacks : step[c] = "save" => carries[c] # i
    BY <1>0, <1>1 DEF SignOutInv, FinalOK, KnownOK, InHand, TypeOK
  <2>2. step'[o] \notin {"idle", "flush"} /\ carries'[o] = i
    <3>1. ~Remember(o) /\ ~Save(o)
      BY <1>0, <2>1 DEF Remember, Save, Move, TypeOK, LogoutStep
    <3>. QED
      BY <1>0, <2>1, <3>1, Moves
  <2>3. store'[i] = None
    <3>1. ASSUME NEW c \in Callbacks, Save(c) PROVE store'[i] = store[i]
      <4>1. step[c] = "save" /\ carries[c] # i /\ c # i
        BY <2>1, <3>1 DEF Save, Move, After
      <4>. QED
        BY <1>0, <2>1, <3>1, <4>1 DEF Save, TypeOK
    <3>. QED
      BY <1>0, <2>1, <3>1, StoreChanges
  <2>4. \A c \in Callbacks : step'[c] = "save" => carries'[c] # i
    <3>. SUFFICES ASSUME NEW c \in Callbacks, step'[c] = "save", carries'[c] = i
                  PROVE  FALSE
      OBVIOUS
    <3>1. CASE Remember(c)
      <4>1. carries'[c] = IF Loaded(c) = None THEN None ELSE carries[c]
        BY <1>0, <3>1 DEF Remember, TypeOK
      <4>. QED
        BY <1>0, <2>1, <4>1 DEF Loaded
    <3>2. CASE Save(c)
      BY <1>0, <3>2 DEF Save, Move, StepsOK
    <3>3. CASE step[c] = "idle"
      <4>1. ASSUME NEW q \in Requests, NEW b \in Browsers, NEW s \in Steps, Send(q, b, s), s # "save"
            PROVE  FALSE
        BY <1>0, <3>3, <4>1 DEF Send, Move, StepsOK
      <4>2. ASSUME NEW b \in Browsers, NEW q \in Requests,
                   Callback(q, b) \/ Visit(q, b) \/ Logout(q, b)
            PROVE  FALSE
        BY <1>0, <3>3, <4>2 DEF Callback, Visit, Logout, Send, Move, StepsOK
      <4>3. ASSUME NEW d \in Callbacks,
                   \/ Consume(d) \/ Reject(d) \/ Exchange(d) \/ Provide(d) \/ Account(d)
                   \/ Save(d) \/ Reply(d) \/ Remember(d) \/ \E j \in Identities : Confirm(d, j)
            PROVE  FALSE
        BY <1>0, <3>3, <4>3 DEF Consume, Reject, Exchange, Provide, Account, Save, Reply, Remember,
           Confirm, Move, StepsOK, request
      <4>4. ASSUME NEW q \in Requests, Load(q) \/ Show(q) \/ Flush(q) \/ Removal(q) \/ Fails(q)
            PROVE  FALSE
        BY <1>0, <3>3, <4>4 DEF Load, Show, Flush, Removal, Fails, Move, StepsOK
      <4>. QED
        BY <1>0, <3>3, <4>2, <4>3, <4>4, Cases, ApartMoves DEF Continues, Sends, Requests
    <3>. QED
      BY <1>0, <2>1, <3>1, <3>2, <3>3, Moves
  <2>. QED
    BY <1>0, <2>1, <2>2, <2>3, <2>4 DEF InHand
<1>2. ASSUME NEW o \in Logouts, step[o] = "flush", step'[o] = "flushed",
             carries[o] # None, ~InHand(carries[o])
      PROVE  /\ step'[o] \notin {"idle", "flush"}
             /\ carries'[o] # None /\ store'[carries'[o]] = None /\ ~InHand(carries[o])'
  <2>1. Flush(o)
    BY <1>0, <1>2, Moves
  <2>2. /\ carries' = carries /\ carries[o] \in Sessions
        /\ step' = [step EXCEPT ![o] = "flushed"]
        /\ store'[carries[o]] = None
    BY <1>0, <1>2, <2>1 DEF Flush, Move, TypeOK
  <2>3. \A c \in Callbacks : step'[c] = step[c]
    BY <1>0, <1>2, <2>2 DEF StepsOK
  <2>. QED
    BY <1>2, <2>2, <2>3 DEF InHand
<1>. QED
  BY <1>1, <1>2 DEF FinalOK, SignOutNext

\* A logout ends its session, whichever copies of its cookie there are, unless a
\* callback had loaded the session and not yet saved it.
THEOREM LogoutsEndSessions == SignOutSpec => []LogoutEndsSession
<1>1. SignOutInit => SignOutInv
  <2>1. SignOutInit => KnownOK /\ FinalOK
    BY DEF SignOutInit, Init, KnownOK, FinalOK
  <2>. QED
    BY <2>1, InitIInv DEF SignOutInit, SignOutInv
<1>2. SignOutInv /\ [SignOutNext]_signOutVars => SignOutInv'
  <2>1. ASSUME SignOutInv, SignOutNext PROVE SignOutInv'
    BY <2>1, StepIInv, KnownStep, FinalStep DEF SignOutInv, SignOutNext
  <2>2. ASSUME SignOutInv, UNCHANGED signOutVars PROVE SignOutInv'
    <3>1. UNCHANGED vars /\ final' = final
      BY <2>2 DEF signOutVars, vars
    <3>2. IInv' /\ KnownOK'
      BY <2>2, <3>1, StepIInv, KnownStep DEF SignOutInv
    <3>3. FinalOK'
      BY <2>2, <3>1 DEF SignOutInv, FinalOK, InHand, vars, request
    <3>. QED
      BY <3>2, <3>3 DEF SignOutInv
  <2>. QED
    BY <2>1, <2>2
<1>3. SignOutInv => LogoutEndsSession
  BY DEF SignOutInv, FinalOK, LogoutEndsSession
<1>. QED
  BY <1>1, <1>2, <1>3, PTL DEF SignOutSpec

-----------------------------------------------------------------------------
(* The parts *)

\* The requests use the two parts with models of their own only as these are
\* promised: every step is one of OneTimeTokens or leaves the states alone, and
\* one of UserDirectory or leaves the accounts alone.
THEOREM PartsAreKept == Spec => Tokens!TokSpec /\ Directory!DirSpec
<1>1. Init => Tokens!TokInit /\ Directory!DirInit
  BY DEF Init
<1>2. [Next]_vars => [Tokens!TokNext]_Tokens!tokVars
  <2>. SUFFICES ASSUME [Next]_vars PROVE [Tokens!TokNext]_Tokens!tokVars
    OBVIOUS
  <2>1. CASE UNCHANGED tokens
    BY <2>1 DEF tokens, Tokens!tokVars
  <2>2. ASSUME NEW s \in States, StartLogin(s) PROVE Tokens!TokNext
    BY <2>2 DEF StartLogin, Tokens!TokNext
  <2>3. ASSUME NEW T \in SUBSET States, StatesExpire(T) PROVE Tokens!TokNext
    BY <2>3 DEF StatesExpire, Tokens!TokNext
  <2>4. ASSUME NEW c \in Callbacks, Consume(c) PROVE Tokens!TokNext
    BY <2>4 DEF Consume, Tokens!TokNext
  <2>. QED
    BY <2>1, <2>2, <2>3, <2>4 DEF Next, Callback, Send, Confirm, Reject, Exchange, Provide, Account,
       Remember, Save, Reply, Load, Show, Visit, Flush, Logout, Removal, Fails, SessionExpires,
       Quiet, vars
<1>3. [Next]_vars => [Directory!DirNext]_Directory!dirVars
  <2>. SUFFICES ASSUME [Next]_vars PROVE [Directory!DirNext]_Directory!dirVars
    OBVIOUS
  <2>1. CASE UNCHANGED directory
    BY <2>1 DEF directory, Directory!dirVars
  <2>2. ASSUME NEW c \in Callbacks, NEW i \in Identities, Confirm(c, i) PROVE Directory!DirNext
    BY <2>2 DEF Confirm, Directory!DirNext
  <2>3. ASSUME NEW c \in Callbacks, Provide(c) PROVE Directory!DirNext
    BY <2>3 DEF Provide, Directory!DirNext
  <2>4. ASSUME NEW c \in Callbacks, Account(c) PROVE Directory!DirNext
    BY <2>4 DEF Account, Directory!DirNext
  <2>. QED
    BY <2>1, <2>2, <2>3, <2>4 DEF Next, StartLogin, StatesExpire, Callback, Send, Consume, Reject,
       Exchange, Remember, Save, Reply, Load, Show, Visit, Flush, Logout, Removal, Fails,
       SessionExpires, Quiet, vars
<1>. QED
  BY <1>1, <1>2, <1>3, PTL DEF Spec, Tokens!TokSpec, Directory!DirSpec

\* What the tokens promise: whoever holds one holds a spent one, alone.
HeldAlone ==
  /\ status \in [States -> {"new", "live", "gone"}]
  /\ holds \in [Callbacks -> States \cup {None}]
  /\ \A c \in Callbacks :
       holds[c] # None =>
         /\ status[holds[c]] = "gone"
         /\ \A d \in Callbacks : holds[d] = holds[c] => d = c

LEMMA TokensPromise == Tokens!TokSpec => []HeldAlone
<1>1. Tokens!TokInit => HeldAlone
  BY DEF Tokens!TokInit, HeldAlone
<1>2. HeldAlone /\ [Tokens!TokNext]_Tokens!tokVars => HeldAlone'
  <2>. SUFFICES ASSUME HeldAlone, [Tokens!TokNext]_Tokens!tokVars PROVE HeldAlone'
    OBVIOUS
  <2>. USE DEF HeldAlone
  <2>1. ASSUME NEW s \in States, Tokens!Issue(s) PROVE HeldAlone'
    BY <2>1 DEF Tokens!Issue, Tokens!Move
  <2>2. ASSUME NEW c \in Callbacks, NEW s \in States, Tokens!Use(s, c) PROVE HeldAlone'
    <3>1. /\ status[s] = "live" /\ status' = [status EXCEPT ![s] = "gone"]
          /\ holds[c] = None /\ holds' = [holds EXCEPT ![c] = s]
      BY <2>2 DEF Tokens!Use, Tokens!Move
    <3>2. \A d \in Callbacks : holds[d] # s
      BY <3>1, NoneAssumption
    <3>. QED
      BY <3>1, <3>2
  <2>3. ASSUME NEW T \in SUBSET States, Tokens!Expire(T) PROVE HeldAlone'
    BY <2>3 DEF Tokens!Expire
  <2>4. CASE UNCHANGED Tokens!tokVars
    BY <2>4 DEF Tokens!tokVars
  <2>. QED
    BY <2>1, <2>2, <2>3, <2>4 DEF Tokens!TokNext
<1>. QED
  BY <1>1, <1>2, PTL DEF Tokens!TokSpec

\* What the directory promises: an answer is the account of who was asked for,
\* and its key is active.
AnswersStand ==
  /\ asks \in [Callbacks -> Identities \cup {None}]
  /\ account \in [Identities -> Callbacks \cup {None}]
  /\ answer \in [Callbacks -> Callbacks \cup {None}]
  /\ \A i \in Identities : account[i] # None => account[i] \in active
  /\ \A c \in Callbacks :
       answer[c] # None => asks[c] # None /\ answer[c] = account[asks[c]]

LEMMA DirectoryPromise == Directory!DirSpec => []AnswersStand
<1>1. Directory!DirInit => AnswersStand
  BY DEF Directory!DirInit, AnswersStand
<1>2. AnswersStand /\ [Directory!DirNext]_Directory!dirVars => AnswersStand'
  <2>. SUFFICES ASSUME AnswersStand, [Directory!DirNext]_Directory!dirVars PROVE AnswersStand'
    OBVIOUS
  <2>. USE Routes DEF AnswersStand
  <2>1. ASSUME NEW c \in Callbacks, NEW i \in Identities, Directory!Ask(c, i) PROVE AnswersStand'
    BY <2>1 DEF Directory!Ask
  <2>2. ASSUME NEW c \in Callbacks, Directory!Activate(c) PROVE AnswersStand'
    BY <2>2 DEF Directory!Activate
  <2>3. ASSUME NEW c \in Callbacks, Directory!Open(c) PROVE AnswersStand'
    BY <2>3 DEF Directory!Open
  <2>4. ASSUME NEW c \in Callbacks, Directory!Answer(c) PROVE AnswersStand'
    BY <2>4 DEF Directory!Answer
  <2>5. CASE UNCHANGED Directory!dirVars
    BY <2>5 DEF Directory!dirVars
  <2>. QED
    BY <2>1, <2>2, <2>3, <2>4, <2>5 DEF Directory!DirNext
<1>. QED
  BY <1>1, <1>2, PTL DEF Directory!DirSpec

\* A state lets one callback through, however often GitHub's redirect is
\* repeated and in whatever browser.
THEOREM StatesLogInOnce ==
  Spec => [](\A c, d \in Callbacks : c # d /\ holds[c] # None => holds[d] # holds[c])
<1>1. HeldAlone => \A c, d \in Callbacks : c # d /\ holds[c] # None => holds[d] # holds[c]
  BY DEF HeldAlone
<1>. QED
  BY <1>1, PartsAreKept, TokensPromise, PTL

\* All logins of one identity, in whatever browsers and however they overlap,
\* get the same account, with a key that CPA accepts.
THEOREM LoginsShareAccounts ==
  Spec => [](\A c, d \in Callbacks :
               answer[c] # None /\ answer[d] # None /\ asks[c] = asks[d]
                 => answer[c] = answer[d] /\ answer[c] \in active)
<1>1. AnswersStand =>
        \A c, d \in Callbacks :
          answer[c] # None /\ answer[d] # None /\ asks[c] = asks[d]
            => answer[c] = answer[d] /\ answer[c] \in active
  BY Routes DEF AnswersStand
<1>. QED
  BY <1>1, PartsAreKept, DirectoryPromise, PTL
=============================================================================
