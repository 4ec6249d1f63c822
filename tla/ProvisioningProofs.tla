-------------------------- MODULE ProvisioningProofs --------------------------
(***************************************************************************)
(* Proofs about Provisioning and LoginProfiles, for any number of logins   *)
(* and identities.                                                         *)
(*                                                                         *)
(* The inductive invariant IInv relates where a call is to what it knows:  *)
(* a call that found or inserted a row still finds it, because rows never  *)
(* disappear (RowsPersist); a call that is about to insert has its key in  *)
(* CPA; the time that a call is about to write is not older than the row.  *)
(*                                                                         *)
(* In LoginProfiles, while newest[g] is some login l, no other login of g  *)
(* has a statement left (Lonely), so what l has read of g's row is still   *)
(* so, and what it has written is what the row holds (Written).            *)
(***************************************************************************)
EXTENDS LoginProfiles, SequenceTheorems, TLAPS

\* UNIQUE(github_id)
UniqueOK ==
  \A i, j \in Ids : users[i].github = users[j].github => i = j

\* What login l relies on.
CallOK(l) ==
  /\ step[l] = "idle" <=> who[l] = None
  /\ step[l] \in {"provisioned", "insert"} => l \in keys
  /\ step[l] \in {"found", "update", "readUpdated", "readRaced"} => Registered(who[l])
  /\ step[l] \in {"readInserted", "done"} => RowOf(who[l], rowid[l])

CallsOK == \A l \in Logins : CallOK(l)

\* A key is in CPA only once its login has sent it.
KeysOK ==
  \A l \in keys : step[l] \notin {"idle", "find", "found", "absent", "patch",
                                "update", "readUpdated"}

\* A login that began after its identity had a row takes the update path.
LateOK ==
  \A l \in late :
    /\ l \notin keys
    /\ Registered(who[l])
    /\ step[l] \in {"find", "found", "update", "readUpdated"} \cup Ended

\* The times that are stored and that are about to be stored.
TimesOK ==
  /\ \A id \in Ids : users[id].created_at <= now
  /\ \A l \in Logins : step[l] \in {"insert", "update"} => stamp[l] \in 1..now
  /\ \A l \in Logins, id \in Ids :
       step[l] = "update" /\ users[id].github = who[l]
         => users[id].created_at <= stamp[l]

IInv ==
  /\ TypeOK
  /\ UniqueOK
  /\ CallsOK
  /\ KeysOK
  /\ LateOK
  /\ TimesOK
  /\ StoredKeysActive
  /\ CreatedBeforeLastLogin

-----------------------------------------------------------------------------
(* The table *)

\* Rows stay, and only the profile and last_login_at change in them.
Persist ==
  \A id \in Ids :
    /\ id \in DOMAIN users'
    /\ users'[id].github = users[id].github
    /\ users'[id].api_key = users[id].api_key
    /\ users'[id].created_at = users[id].created_at

LEMMA UsersAreRows ==
  ASSUME TypeOK
  PROVE  /\ Len(users) \in Nat
         /\ Ids = 1..Len(users)
         /\ \A id \in Ids : users[id] \in Row
  BY DEF TypeOK, Ids

LEMMA Inserted ==
  ASSUME TypeOK, NEW l \in Logins, stamp[l] # 0, who[l] \in GitHubIds, DbInserts(l)
  PROVE  /\ NewRow(l) \in Row
         /\ users' \in Seq(Row)
         /\ DOMAIN users' = 1..(Len(users) + 1)
         /\ users'[Len(users) + 1] = NewRow(l)
         /\ \A id \in Ids : users'[id] = users[id]
<1>1. NewRow(l) \in Row
  BY DEF NewRow, Row, TypeOK, Encrypt, Secret
<1>2. users \in Seq(Row) /\ users' = Append(users, NewRow(l)) /\ Ids = 1..Len(users)
  BY UsersAreRows DEF DbInserts, TypeOK
<1>. QED
  BY <1>1, <1>2, AppendProperties

LEMMA Updated ==
  ASSUME TypeOK, NEW l \in Logins, stamp[l] # 0, DbUpdates(l)
  PROVE  /\ users' \in Seq(Row)
         /\ DOMAIN users' = Ids
         /\ \A id \in Ids : users'[id] = IF RowOf(who[l], id)
                                         THEN Refreshed(l, users[id])
                                         ELSE users[id]
<1>1. \A id \in Ids : users'[id] = IF RowOf(who[l], id)
                                   THEN Refreshed(l, users[id])
                                   ELSE users[id]
  BY DEF DbUpdates
<1>2. \A id \in Ids : users'[id] \in Row
  <2>1. stamp[l] \in 1..MaxTime
    BY MaxTimeAssumption DEF TypeOK
  <2>2. \A r \in Row : Refreshed(l, r) \in Row
    BY <2>1 DEF Row, Refreshed
  <2>. QED
    BY <1>1, <2>2, UsersAreRows
<1>3. users' \in [1..Len(users) -> Row]
  BY <1>2, UsersAreRows DEF DbUpdates
<1>4. users' \in Seq(Row)
  BY <1>3, UsersAreRows, SeqDef
<1>. QED
  BY <1>1, <1>3, <1>4, UsersAreRows

-----------------------------------------------------------------------------
(* The steps *)

LEMMA TypeStep ==
  ASSUME TypeOK, CallsOK, TimesOK, [Next]_vars
  PROVE  TypeOK'
<1>. USE MaxTimeAssumption DEF TypeOK, Move, Step, Active, Awaiting, Answered, Ended
<1>1. ASSUME NEW l \in Logins, NEW g \in GitHubIds, Start(l, g) PROVE TypeOK'
  BY <1>1 DEF Start
<1>2. ASSUME NEW l \in Logins, Fails(l) \/ Drop(l) PROVE TypeOK'
  BY <1>2 DEF Fails, Drop
<1>3. ASSUME NEW l \in Logins, DbFinds(l) PROVE TypeOK'
  BY <1>3 DEF DbFinds
<1>4. ASSUME NEW l \in Logins, Update(l) PROVE TypeOK'
  BY <1>4 DEF Update
<1>5. ASSUME NEW l \in Logins, DbUpdates(l) PROVE TypeOK'
  <2>1. stamp[l] # 0
    BY <1>5 DEF DbUpdates, TimesOK
  <2>. QED
    BY <1>5, <2>1, Updated DEF DbUpdates
<1>6. ASSUME NEW l \in Logins, Provision(l) \/ CpaApplies(l) \/ CpaRefuses(l) PROVE TypeOK'
  BY <1>6 DEF Provision, CpaApplies, CpaRefuses
<1>7. ASSUME NEW l \in Logins, Insert(l) PROVE TypeOK'
  BY <1>7 DEF Insert
<1>8. ASSUME NEW l \in Logins, DbInserts(l) PROVE TypeOK'
  <2>1. stamp[l] # 0 /\ who[l] \in GitHubIds
    BY <1>8 DEF DbInserts, TimesOK, CallsOK, CallOK
  <2>2. users' \in Seq(Row)
    BY <1>8, <2>1, Inserted
  <2>3. rowid' \in [Logins -> Nat]
    BY <1>8, UsersAreRows DEF DbInserts
  <2>. QED
    BY <1>8, <2>2, <2>3 DEF DbInserts
<1>9. ASSUME NEW l \in Logins, DbReportsDuplicate(l) PROVE TypeOK'
  BY <1>9 DEF DbReportsDuplicate
<1>10. ASSUME NEW l \in Logins, DbReads(l) PROVE TypeOK'
  <2>1. Wanted(l) \subseteq Nat
    BY UsersAreRows DEF Wanted
  <2>. QED
    BY <1>10, <2>1 DEF DbReads
<1>11. CASE Tick
  BY <1>11 DEF Tick
<1>12. CASE UNCHANGED vars
  BY <1>12 DEF vars
<1>. QED
  BY <1>1, <1>2, <1>3, <1>4, <1>5, <1>6, <1>7, <1>8, <1>9, <1>10, <1>11, <1>12
     DEF Next, Progress, AllEnded

\* No statement of the code removes a row, or changes its key or identity.
LEMMA RowsPersist ==
  ASSUME TypeOK, CallsOK, TimesOK, [Next]_vars
  PROVE  Persist
<1>1. CASE users' = users
  BY <1>1 DEF Persist, Ids
<1>2. ASSUME NEW l \in Logins, DbUpdates(l) PROVE Persist
  <2>1. stamp[l] # 0
    BY <1>2 DEF DbUpdates, TimesOK, Move
  <2>2. \A id \in Ids : users[id] \in Row
    BY UsersAreRows
  <2>. QED
    BY <1>2, <2>1, <2>2, Updated DEF Persist, Row, Refreshed
<1>3. ASSUME NEW l \in Logins, DbInserts(l) PROVE Persist
  <2>1. stamp[l] # 0 /\ who[l] \in GitHubIds
    BY <1>3 DEF DbInserts, TimesOK, CallsOK, CallOK, Move, TypeOK
  <2>. QED
    BY <1>3, <2>1, Inserted, UsersAreRows DEF Persist
<1>4. users' = users \/ \E l \in Logins : DbUpdates(l) \/ DbInserts(l)
  BY DEF Next, Progress, AllEnded, vars, Start, Fails, Drop, DbFinds, Update,
     Provision, CpaApplies, CpaRefuses, Insert, DbReportsDuplicate, DbReads, Tick
<1>. QED
  BY <1>1, <1>2, <1>3, <1>4

\* So what a call has found or inserted is there in the next state.
LEMMA StaysRegistered ==
  ASSUME Persist
  PROVE  /\ \A g, id : RowOf(g, id) => RowOf(g, id)'
         /\ \A g : Registered(g) => Registered(g)'
  BY DEF Persist, RowOf, Registered, Ids

\* What l relies on survives the steps of others.
LEMMA OthersKeep ==
  ASSUME Persist, keys \subseteq keys', NEW m \in Logins, CallOK(m),
         step'[m] = step[m], who'[m] = who[m], rowid'[m] = rowid[m]
  PROVE  CallOK(m)'
  BY StaysRegistered DEF CallOK

LEMMA CallsStep ==
  ASSUME TypeOK, CallsOK, TimesOK, [Next]_vars
  PROVE  CallsOK'
<1>. USE DEF Move, Active, Awaiting, Answered, Ended
<1>1. Persist /\ keys \subseteq keys'
  BY RowsPersist DEF Next, Progress, AllEnded, vars, Start, Fails, Drop, DbFinds, Update,
     DbUpdates, Provision, CpaApplies, CpaRefuses, Insert, DbInserts, DbReportsDuplicate,
     DbReads, Tick
<1>2. ASSUME NEW l \in Logins, \E g \in GitHubIds : Start(l, g)
      PROVE  CallsOK'
  <2>1. CallOK(l)'
    BY <1>2, NoneAssumption DEF Start, CallOK, TypeOK
  <2>2. \A m \in Logins \ {l} : CallOK(m)'
    BY <1>1, <1>2, OthersKeep DEF Start, CallsOK, TypeOK
  <2>. QED
    BY <2>1, <2>2 DEF CallsOK
<1>3. ASSUME NEW l \in Logins, Progress(l) \/ Fails(l) \/ Drop(l)
      PROVE  CallsOK'
  <2>. USE DEF TypeOK, CallsOK, CallOK
  <2>1. \A m \in Logins \ {l} : CallOK(m)'
    BY <1>1, <1>3, OthersKeep
       DEF Progress, Fails, Drop, DbFinds, Update, DbUpdates, Provision, CpaApplies,
           CpaRefuses, Insert, DbInserts, DbReportsDuplicate, DbReads
  <2>2. CASE DbFinds(l)
    <3>1. CallOK(l)'
      BY <2>2, <1>1, StaysRegistered DEF DbFinds
    <3>. QED
      BY <2>1, <3>1
  <2>3. CASE Update(l) \/ DbUpdates(l) \/ DbReportsDuplicate(l)
    <3>1. CallOK(l)'
      BY <2>3, <1>1, StaysRegistered DEF Update, DbUpdates, DbReportsDuplicate
    <3>. QED
      BY <2>1, <3>1
  <2>4. CASE Provision(l) \/ CpaApplies(l) \/ CpaRefuses(l) \/ Insert(l)
    <3>1. CallOK(l)'
      BY <2>4 DEF Provision, CpaApplies, CpaRefuses, Insert
    <3>. QED
      BY <2>1, <3>1
  <2>5. CASE DbInserts(l)
    <3>1. stamp[l] # 0 /\ who[l] \in GitHubIds
      BY <2>5 DEF DbInserts, TimesOK
    <3>2. RowOf(who[l], rowid[l])'
      BY <2>5, <3>1, Inserted, UsersAreRows DEF DbInserts, RowOf, NewRow, Ids
    <3>3. CallOK(l)'
      BY <2>5, <3>2 DEF DbInserts
    <3>. QED
      BY <2>1, <3>3
  <2>6. CASE DbReads(l)
    <3>1. RowOf(who[l], rowid'[l])
      BY <2>6 DEF DbReads, Wanted
    <3>2. CallOK(l)'
      BY <2>6, <3>1 DEF DbReads, RowOf, Ids
    <3>. QED
      BY <2>1, <3>2
  <2>7. CASE Fails(l) \/ Drop(l)
    <3>1. CallOK(l)'
      BY <2>7 DEF Fails, Drop
    <3>. QED
      BY <2>1, <3>1
  <2>. QED
    BY <1>3, <2>2, <2>3, <2>4, <2>5, <2>6, <2>7 DEF Progress
<1>4. CASE Tick \/ UNCHANGED vars
  BY <1>1, <1>4, OthersKeep DEF Tick, vars, CallsOK
<1>. QED
  BY <1>2, <1>3, <1>4 DEF Next, AllEnded

LEMMA UniqueStep ==
  ASSUME TypeOK, CallsOK, TimesOK, UniqueOK, [Next]_vars
  PROVE  UniqueOK'
<1>1. CASE users' = users
  BY <1>1 DEF UniqueOK, Ids
<1>2. ASSUME NEW l \in Logins, DbUpdates(l) PROVE UniqueOK'
  <2>1. stamp[l] # 0
    BY <1>2 DEF DbUpdates, TimesOK, Move
  <2>2. \A id \in Ids : users'[id].github = users[id].github
    BY RowsPersist DEF Persist
  <2>. QED
    BY <1>2, <2>1, <2>2, Updated DEF UniqueOK, Ids
<1>3. ASSUME NEW l \in Logins, DbInserts(l) PROVE UniqueOK'
  <2>1. stamp[l] # 0 /\ who[l] \in GitHubIds
    BY <1>3 DEF DbInserts, TimesOK, CallsOK, CallOK, Move, TypeOK
  <2>2. /\ DOMAIN users' = 1..(Len(users) + 1)
        /\ users'[Len(users) + 1].github = who[l]
        /\ \A id \in Ids : users'[id] = users[id] /\ users[id].github # who[l]
    <3>1. \A id \in Ids : users[id].github # who[l]
      BY <1>3 DEF DbInserts, Registered, RowOf
    <3>2. NewRow(l).github = who[l]
      BY DEF NewRow
    <3>. QED
      BY <1>3, <2>1, <3>1, <3>2, Inserted
  <2>. QED
    BY <2>2, UsersAreRows DEF UniqueOK, Ids
<1>4. users' = users \/ \E l \in Logins : DbUpdates(l) \/ DbInserts(l)
  BY DEF Next, Progress, AllEnded, vars, Start, Fails, Drop, DbFinds, Update,
     Provision, CpaApplies, CpaRefuses, Insert, DbReportsDuplicate, DbReads, Tick
<1>. QED
  BY <1>1, <1>2, <1>3, <1>4

LEMMA StoredStep ==
  ASSUME TypeOK, CallsOK, TimesOK, StoredKeysActive, CreatedBeforeLastLogin, [Next]_vars
  PROVE  StoredKeysActive' /\ CreatedBeforeLastLogin'
<1>0. keys \subseteq keys'
  BY DEF Next, Progress, AllEnded, vars, Start, Fails, Drop, DbFinds, Update,
     DbUpdates, Provision, CpaApplies, CpaRefuses, Insert, DbInserts, DbReportsDuplicate,
     DbReads, Tick
<1>1. CASE users' = users
  BY <1>0, <1>1 DEF StoredKeysActive, CreatedBeforeLastLogin, Ids
<1>2. ASSUME NEW l \in Logins, DbUpdates(l)
      PROVE  StoredKeysActive' /\ CreatedBeforeLastLogin'
  <2>1. stamp[l] # 0 /\ \A id \in Ids : RowOf(who[l], id) => users[id].created_at <= stamp[l]
    BY <1>2 DEF DbUpdates, TimesOK, Move, RowOf
  <2>2. \A id \in Ids : /\ users'[id].api_key = users[id].api_key
                       /\ users'[id].created_at = users[id].created_at
    BY RowsPersist DEF Persist
  <2>3. \A id \in Ids : users'[id].last_login_at \in {stamp[l], users[id].last_login_at}
    BY <1>2, <2>1, Updated, UsersAreRows DEF Row, Refreshed
  <2>4. \A id \in Ids : ~RowOf(who[l], id) => users'[id].last_login_at = users[id].last_login_at
    BY <1>2, <2>1, Updated
  <2>5. StoredKeysActive'
    BY <1>0, <1>2, <2>1, <2>2, Updated DEF StoredKeysActive, Ids
  <2>6. CreatedBeforeLastLogin'
    BY <1>2, <2>1, <2>2, <2>3, <2>4, Updated DEF CreatedBeforeLastLogin, Ids
  <2>. QED
    BY <2>5, <2>6
<1>3. ASSUME NEW l \in Logins, DbInserts(l)
      PROVE  StoredKeysActive' /\ CreatedBeforeLastLogin'
  <2>1. stamp[l] \in Nat \ {0} /\ who[l] \in GitHubIds /\ l \in keys
    BY <1>3 DEF DbInserts, TimesOK, CallsOK, CallOK, Move, TypeOK
  <2>2. /\ DOMAIN users' = 1..(Len(users) + 1)
        /\ users'[Len(users) + 1] = NewRow(l)
        /\ \A id \in Ids : users'[id] = users[id]
    BY <1>3, <2>1, Inserted
  <2>3. Decrypt(NewRow(l).api_key) = l
    BY DEF NewRow, Encrypt, Decrypt
  <2>4. NewRow(l).created_at <= NewRow(l).last_login_at
    BY <2>1 DEF NewRow
  <2>5. StoredKeysActive'
    BY <1>0, <2>1, <2>2, <2>3, UsersAreRows DEF StoredKeysActive, Ids
  <2>6. CreatedBeforeLastLogin'
    BY <2>2, <2>4, UsersAreRows DEF CreatedBeforeLastLogin, Ids
  <2>. QED
    BY <2>5, <2>6
<1>4. users' = users \/ \E l \in Logins : DbUpdates(l) \/ DbInserts(l)
  BY DEF Next, Progress, AllEnded, vars, Start, Fails, Drop, DbFinds, Update,
     Provision, CpaApplies, CpaRefuses, Insert, DbReportsDuplicate, DbReads, Tick
<1>. QED
  BY <1>1, <1>2, <1>3, <1>4

LEMMA KeysStep ==
  ASSUME TypeOK, KeysOK, [Next]_vars
  PROVE  KeysOK'
<1>. USE DEF TypeOK, KeysOK, Move, Active, Awaiting, Answered
<1>1. ASSUME NEW l \in Logins, NEW g \in GitHubIds, Start(l, g) PROVE KeysOK'
  BY <1>1 DEF Start
<1>2. ASSUME NEW l \in Logins, Fails(l) \/ Drop(l) PROVE KeysOK'
  BY <1>2 DEF Fails, Drop
<1>3. ASSUME NEW l \in Logins, DbFinds(l) \/ Update(l) \/ DbUpdates(l) PROVE KeysOK'
  BY <1>3 DEF DbFinds, Update, DbUpdates
<1>4. ASSUME NEW l \in Logins, Provision(l) \/ CpaApplies(l) \/ CpaRefuses(l) PROVE KeysOK'
  BY <1>4 DEF Provision, CpaApplies, CpaRefuses
<1>5. ASSUME NEW l \in Logins, Insert(l) \/ DbInserts(l) \/ DbReportsDuplicate(l) PROVE KeysOK'
  BY <1>5 DEF Insert, DbInserts, DbReportsDuplicate
<1>6. ASSUME NEW l \in Logins, DbReads(l) PROVE KeysOK'
  BY <1>6 DEF DbReads
<1>7. CASE Tick \/ UNCHANGED vars
  BY <1>7 DEF Tick, vars
<1>. QED
  BY <1>1, <1>2, <1>3, <1>4, <1>5, <1>6, <1>7 DEF Next, Progress, AllEnded

LEMMA LateStep ==
  ASSUME TypeOK, CallsOK, TimesOK, KeysOK, LateOK, [Next]_vars
  PROVE  LateOK'
<1>. USE DEF Move, Active, Awaiting, Answered, Ended
<1>1. \A g : Registered(g) => Registered(g)'
  BY RowsPersist, StaysRegistered
<1>2. ASSUME NEW l \in Logins, NEW g \in GitHubIds, Start(l, g) PROVE LateOK'
  <2>1. l \notin keys /\ l \notin late
    BY <1>2 DEF Start, KeysOK, LateOK
  <2>2. who'[l] = g /\ step'[l] = "find" /\ keys' = keys
    BY <1>2 DEF Start, TypeOK
  <2>3. \A m \in late : who'[m] = who[m] /\ step'[m] = step[m]
    BY <1>2, <2>1 DEF Start, TypeOK
  <2>4. late' \subseteq late \cup {l} /\ (l \in late' => Registered(g))
    BY <1>2, <2>1 DEF Start
  <2>. QED
    BY <1>1, <2>1, <2>2, <2>3, <2>4 DEF LateOK
<1>3. ASSUME NEW l \in Logins, DbFinds(l) PROVE LateOK'
  BY <1>1, <1>3 DEF DbFinds, LateOK, TypeOK
<1>4. ASSUME NEW l \in Logins, Update(l) \/ DbUpdates(l) PROVE LateOK'
  BY <1>1, <1>4 DEF Update, DbUpdates, LateOK, TypeOK
<1>5. ASSUME NEW l \in Logins, Provision(l) \/ CpaApplies(l) \/ CpaRefuses(l) PROVE LateOK'
  BY <1>1, <1>5 DEF Provision, CpaApplies, CpaRefuses, LateOK, TypeOK
<1>6. ASSUME NEW l \in Logins, Insert(l) \/ DbInserts(l) \/ DbReportsDuplicate(l) PROVE LateOK'
  BY <1>1, <1>6 DEF Insert, DbInserts, DbReportsDuplicate, LateOK, TypeOK
<1>7. ASSUME NEW l \in Logins, DbReads(l) \/ Fails(l) \/ Drop(l) PROVE LateOK'
  BY <1>1, <1>7 DEF DbReads, Fails, Drop, LateOK, TypeOK
<1>8. CASE Tick \/ UNCHANGED vars
  BY <1>1, <1>8 DEF Tick, vars, LateOK
<1>. QED
  BY <1>2, <1>3, <1>4, <1>5, <1>6, <1>7, <1>8 DEF Next, Progress, AllEnded

LEMMA TimesStep ==
  ASSUME TypeOK, UniqueOK, CallsOK, TimesOK, [Next]_vars
  PROVE  TimesOK'
<1>. USE DEF Move
<1>1. now \in Nat \ {0} /\ now' \in {now, now + 1} /\ \A id \in Ids : users[id].created_at \in Nat
  BY UsersAreRows
     DEF TypeOK, Row, Next, Progress, AllEnded, vars, Start, Fails, Drop, DbFinds, Update,
     DbUpdates, Provision, CpaApplies, CpaRefuses, Insert, DbInserts, DbReportsDuplicate,
     DbReads, Tick
<1>2. \A l \in Logins : step'[l] \in {"insert", "update"} /\ step'[l] = step[l]
                         /\ stamp'[l] = stamp[l] => stamp'[l] \in 1..now'
  BY <1>1 DEF TimesOK, TypeOK
<1>3. ASSUME NEW l \in Logins, DbInserts(l) PROVE TimesOK'
  <2>1. stamp[l] \in 1..now /\ who[l] \in GitHubIds /\ now' = now /\ stamp' = stamp
    BY <1>3 DEF DbInserts, TimesOK, CallsOK, CallOK, TypeOK
  <2>2. /\ DOMAIN users' = 1..(Len(users) + 1)
        /\ users'[Len(users) + 1] = NewRow(l)
        /\ \A id \in Ids : users'[id] = users[id]
    BY <1>3, <2>1, Inserted
  <2>3. NewRow(l).github = who[l] /\ NewRow(l).created_at = stamp[l]
    BY DEF NewRow
  <2>4. \A m \in Logins : step'[m] = "update" => m # l /\ step[m] = "update" /\ who[m] # who[l]
    BY <1>3 DEF DbInserts, CallsOK, CallOK, TypeOK
  <2>5. who' = who
    BY <1>3 DEF DbInserts
  <2>6. \A id \in DOMAIN users' : users'[id].created_at <= now'
    BY <2>1, <2>2, <2>3, UsersAreRows DEF TimesOK
  <2>7. \A m \in Logins : step'[m] \in {"insert", "update"} => stamp'[m] \in 1..now'
    BY <1>3, <2>1 DEF DbInserts, TimesOK, TypeOK
  <2>8. \A m \in Logins, id \in DOMAIN users' :
          step'[m] = "update" /\ users'[id].github = who'[m]
            => users'[id].created_at <= stamp'[m]
    BY <2>1, <2>2, <2>3, <2>4, <2>5, UsersAreRows DEF TimesOK
  <2>. QED
    BY <2>6, <2>7, <2>8 DEF TimesOK, Ids
<1>4. ASSUME DOMAIN users' = Ids,
             \A m \in Logins : step'[m] \in {"insert", "update"} =>
               \/ step'[m] = step[m] /\ stamp'[m] = stamp[m] /\ who'[m] = who[m]
               \/ stamp'[m] = now
      PROVE  TimesOK'
  <2>1. \A id \in Ids : users'[id].created_at = users[id].created_at
                      /\ users'[id].github = users[id].github
    BY RowsPersist DEF Persist
  <2>2. \A id \in DOMAIN users' : users'[id].created_at <= now'
    BY <1>1, <1>4, <2>1 DEF TimesOK
  <2>3. \A m \in Logins : step'[m] \in {"insert", "update"} => stamp'[m] \in 1..now'
    BY <1>1, <1>2, <1>4
  <2>4. \A m \in Logins, id \in DOMAIN users' :
          step'[m] = "update" /\ users'[id].github = who'[m]
            => users'[id].created_at <= stamp'[m]
    BY <1>1, <1>4, <2>1 DEF TimesOK
  <2>. QED
    BY <2>2, <2>3, <2>4 DEF TimesOK, Ids
<1>5. CASE ~\E l \in Logins : DbInserts(l)
  <2>1. DOMAIN users' = Ids
    BY <1>5 DEF Next, Progress, AllEnded, vars, Start, Fails, Drop, DbFinds, Update,
       DbUpdates, Provision, CpaApplies, CpaRefuses, Insert, DbReportsDuplicate,
       DbReads, Tick, Ids
  <2>2. \A m \in Logins : step'[m] \in {"insert", "update"} =>
           \/ step'[m] = step[m] /\ stamp'[m] = stamp[m] /\ who'[m] = who[m]
           \/ stamp'[m] = now
    BY <1>5 DEF TypeOK, Next, Progress, AllEnded, vars, Start, Fails, Drop, DbFinds, Update,
       DbUpdates, Provision, CpaApplies, CpaRefuses, Insert, DbReportsDuplicate,
       DbReads, Tick
  <2>. QED
    BY <1>4, <2>1, <2>2
<1>. QED
  BY <1>3, <1>5

LEMMA InitIInv == Init => IInv
<1>. SUFFICES ASSUME Init PROVE IInv
  OBVIOUS
<1>1. TypeOK
  BY MaxTimeAssumption, EmptySeq DEF Init, TypeOK, Step
<1>2. Ids = {}
  BY DEF Init, Ids
<1>3. UniqueOK /\ StoredKeysActive /\ CreatedBeforeLastLogin
  BY <1>2 DEF UniqueOK, StoredKeysActive, CreatedBeforeLastLogin
<1>4. CallsOK /\ KeysOK /\ LateOK /\ TimesOK
  BY <1>2 DEF Init, CallsOK, CallOK, KeysOK, LateOK, TimesOK
<1>. QED
  BY <1>1, <1>3, <1>4 DEF IInv

LEMMA StepIInv == IInv /\ [Next]_vars => IInv'
  BY TypeStep, UniqueStep, CallsStep, KeysStep, LateStep, TimesStep, StoredStep DEF IInv

LEMMA Invariance == Spec => []IInv
  BY InitIInv, StepIInv, PTL DEF Spec

-----------------------------------------------------------------------------
(* The theorems *)

\* Every variable keeps its type; a stored row always carries real times.
THEOREM TypeCorrect == Spec => []TypeOK
<1>1. IInv => TypeOK
  BY DEF IInv
<1>. QED
  BY <1>1, Invariance, PTL

\* CPA has accepted the key of every stored user, whatever fails or races.
THEOREM StoredKeysWork == Spec => []StoredKeysActive
<1>1. IInv => StoredKeysActive
  BY DEF IInv
<1>. QED
  BY <1>1, Invariance, PTL

\* Racing logins of one identity return the same row, and it is theirs.
THEOREM OneRowPerIdentity == Spec => []LoginsAgree
<1>1. IInv => LoginsAgree
  BY DEF IInv, CallsOK, CallOK, UniqueOK, LoginsAgree, RowOf
<1>. QED
  BY <1>1, Invariance, PTL

\* A login of an identity that has a row asks CPA for nothing.
THEOREM LateLoginsProvisionNothing == Spec => []LateLoginsAddNoKey
<1>1. IInv => LateLoginsAddNoKey
  BY DEF IInv, LateOK, LateLoginsAddNoKey
<1>. QED
  BY <1>1, Invariance, PTL

\* last_login_at never lies before created_at.
THEOREM TimesAreOrdered == Spec => []CreatedBeforeLastLogin
<1>1. IInv => CreatedBeforeLastLogin
  BY DEF IInv
<1>. QED
  BY <1>1, Invariance, PTL

\* The RowNotFound branches of db/mod.rs and services/user.rs are unreachable.
THEOREM ReadsSucceed == Spec => []RowsAreThere
<1>1. IInv => RowsAreThere
  BY DEF IInv, CallsOK, CallOK, RowsAreThere, Wanted, Registered, RowOf
<1>. QED
  BY <1>1, Invariance, PTL

\* No step replaces the key or the identity of a row.
THEOREM KeysAreForever == Spec => KeyNeverChanges
<1>. DEFINE A == \A id \in Ids :
                   /\ id \in DOMAIN users'
                   /\ users'[id].api_key = users[id].api_key
                   /\ users'[id].github = users[id].github
<1>1. IInv /\ [Next]_vars => [A]_vars
  BY RowsPersist DEF IInv, Persist
<1>. QED
  BY <1>1, Invariance, PTL DEF Spec, KeyNeverChanges

\* How far a login is from its end.
StepsLeft(l) ==
  IF step[l] = "idle" THEN 7 ELSE IF step[l] = "find" THEN 6
  ELSE IF step[l] \in {"found", "absent"} THEN 5 ELSE IF step[l] \in {"update", "patch"} THEN 4
  ELSE IF step[l] = "provisioned" THEN 3 ELSE IF step[l] = "insert" THEN 2
  ELSE IF step[l] \in {"readInserted", "readRaced", "readUpdated"} THEN 1 ELSE 0

\* A step that is not the clock's brings one login closer to its end and leaves
\* the others where they are.
GetsOn ==
  \/ \E l \in Logins : /\ StepsLeft(l)' < StepsLeft(l)
                       /\ \A m \in Logins \ {l} : step'[m] = step[m]
  \/ now < now' /\ UNCHANGED <<step, users, keys>>

\* Losing the race for a row is no loop: no answer of SQLite or CPA sends a login
\* back, so it asks SQLite at most three times and CPA once.  With ReadsSucceed
\* (the last SELECT finds its row), the part of LoginsEnd that needs no fairness.
THEOREM LoginsGetOn == Spec => [][GetsOn]_vars
<1>. USE DEF Move
<1>1. ASSUME TypeOK, NEW l \in Logins, NEW to, step' = [step EXCEPT ![l] = to],
             \/ step[l] = "idle" /\ to = "find"
             \/ step[l] = "find" /\ to \in {"found", "absent"}
             \/ step[l] = "found" /\ to = "update"
             \/ step[l] = "absent" /\ to = "patch"
             \/ step[l] = "patch" /\ to = "provisioned"
             \/ step[l] = "provisioned" /\ to = "insert"
             \/ step[l] = "insert" /\ to \in {"readInserted", "readRaced"}
             \/ step[l] = "update" /\ to = "readUpdated"
             \/ step[l] \in Active /\ to \in {"done", "failed", "dropped"}
      PROVE  GetsOn
  <2>1. step'[l] = to /\ \A m \in Logins \ {l} : step'[m] = step[m]
    BY <1>1 DEF TypeOK
  <2>2. StepsLeft(l)' < StepsLeft(l)
    BY <1>1, <2>1 DEF StepsLeft, Active, Awaiting, Answered
  <2>. QED
    BY <2>1, <2>2 DEF GetsOn
<1>2. TypeOK /\ [Next]_vars => [GetsOn]_vars
  <2>. SUFFICES ASSUME TypeOK, Next, vars' # vars PROVE GetsOn
    OBVIOUS
  <2>1. ASSUME NEW l \in Logins, NEW g \in GitHubIds, Start(l, g) PROVE GetsOn
    BY <1>1, <2>1 DEF Start
  <2>2. ASSUME NEW l \in Logins, DbFinds(l) \/ Update(l) \/ DbUpdates(l) PROVE GetsOn
    BY <1>1, <2>2 DEF DbFinds, Update, DbUpdates
  <2>3. ASSUME NEW l \in Logins, Provision(l) \/ CpaApplies(l) \/ CpaRefuses(l) \/ Insert(l)
        PROVE  GetsOn
    BY <1>1, <2>3 DEF Provision, CpaApplies, CpaRefuses, Insert, Active, Awaiting
  <2>4. ASSUME NEW l \in Logins, DbInserts(l) \/ DbReportsDuplicate(l) PROVE GetsOn
    BY <1>1, <2>4 DEF DbInserts, DbReportsDuplicate
  <2>5. ASSUME NEW l \in Logins, DbReads(l) \/ Fails(l) \/ Drop(l) PROVE GetsOn
    BY <1>1, <2>5 DEF DbReads, Fails, Drop, Active, Awaiting
  <2>6. Tick => GetsOn
    BY DEF Tick, GetsOn, TypeOK
  <2>. QED
    BY <2>1, <2>2, <2>3, <2>4, <2>5, <2>6 DEF Next, Progress, AllEnded
<1>. QED
  BY <1>2, TypeCorrect, PTL DEF Spec

-----------------------------------------------------------------------------
(* Concurrent logins implement UserDirectory *)

Account == [g \in GitHubIds |-> KeyOf(g)]

AnswerOf(l) == IF step[l] = "done" THEN Decrypt(users[rowid[l]].api_key) ELSE None

Answers == [l \in Logins |-> AnswerOf(l)]

LEMMA KeyOfRow ==
  ASSUME UniqueOK, NEW g, NEW id, RowOf(g, id)
  PROVE  KeyOf(g) = Decrypt(users[id].api_key)
<1>1. \A j \in Ids : RowOf(g, j) => j = id
  BY DEF UniqueOK, RowOf
<1>2. (CHOOSE j \in Ids : RowOf(g, j)) = id
  BY <1>1 DEF RowOf
<1>. QED
  BY <1>2 DEF KeyOf, Registered, RowOf

LEMMA KeyIsALogin ==
  ASSUME TypeOK, NEW id \in Ids
  PROVE  Decrypt(users[id].api_key) \in Logins
  BY UsersAreRows DEF Row, Secret, Decrypt

LEMMA KeyOfPersists ==
  ASSUME UniqueOK, UniqueOK', Persist, NEW g, Registered(g)
  PROVE  KeyOf(g)' = KeyOf(g)
<1>1. PICK id \in Ids : RowOf(g, id)
  BY DEF Registered
<1>2. KeyOf(g) = Decrypt(users[id].api_key)
  BY <1>1, KeyOfRow
<1>3. RowOf(g, id)' /\ users'[id].api_key = users[id].api_key
  BY <1>1, StaysRegistered DEF Persist
<1>4. \A j \in Ids' : RowOf(g, j)' => j = id
  BY <1>3 DEF UniqueOK, RowOf
<1>5. (CHOOSE j \in Ids : RowOf(g, j))' = id
  BY <1>3, <1>4 DEF RowOf
<1>6. KeyOf(g)' = Decrypt(users'[id].api_key)
  BY <1>3, <1>5 DEF KeyOf, Registered, RowOf, Decrypt
<1>. QED
  BY <1>2, <1>3, <1>6

\* Accounts stay as they are when no row is added.
LEMMA AccountsKept ==
  ASSUME IInv, IInv', Persist, DOMAIN users' = Ids
  PROVE  Account' = Account
<1>1. \A g : Registered(g)' => Registered(g)
  BY DEF Registered, RowOf, Ids, Persist
<1>2. \A g : ~Registered(g) => KeyOf(g) = None /\ KeyOf(g)' = None
  BY <1>1 DEF KeyOf
<1>3. \A g : KeyOf(g)' = KeyOf(g)
  BY <1>2, KeyOfPersists DEF IInv
<1>. QED
  BY <1>3 DEF Account

\* Answers stay as they are: a row that was returned keeps its key.
LEMMA AnswersKept ==
  ASSUME IInv, Persist, NEW l \in Logins,
         step'[l] = "done" <=> step[l] = "done",
         step[l] = "done" => rowid'[l] = rowid[l]
  PROVE  AnswerOf(l)' = AnswerOf(l)
  BY DEF IInv, CallsOK, CallOK, RowOf, Persist, AnswerOf, Decrypt

LEMMA Simulated ==
  ASSUME IInv, IInv', [Next]_vars
  PROVE  [Directory!DirNext]_Directory!dirVars
<1>. USE DEF Move, Active, Awaiting, Answered
<1>1. Persist /\ TypeOK
  BY RowsPersist DEF IInv
<1>2. ASSUME DOMAIN users' = Ids, UNCHANGED <<who, keys>>,
             \A l \in Logins : /\ step'[l] = "done" <=> step[l] = "done"
                               /\ step[l] = "done" => rowid'[l] = rowid[l]
      PROVE  UNCHANGED Directory!dirVars
  <2>1. Account' = Account
    BY <1>1, <1>2, AccountsKept
  <2>2. ASSUME NEW l \in Logins PROVE AnswerOf(l)' = AnswerOf(l)
    <3>1. (step'[l] = "done" <=> step[l] = "done") /\ (step[l] = "done" => rowid'[l] = rowid[l])
      BY <1>2
    <3>. QED
      BY <1>1, <3>1, AnswersKept
  <2>. QED
    BY <1>2, <2>1, <2>2 DEF Directory!dirVars, Account, Answers, AnswerOf
<1>3. ASSUME NEW l \in Logins, NEW g \in GitHubIds, Start(l, g)
      PROVE  Directory!Ask(l, g)
  <2>1. who[l] = None
    BY <1>3 DEF Start, IInv, CallsOK, CallOK
  <2>2. Account' = Account
    BY <1>1, <1>3, AccountsKept DEF Start, Ids
  <2>3. Answers' = Answers
    BY <1>1, <1>3, AnswersKept DEF Start, TypeOK, Answers
  <2>. QED
    BY <1>3, <2>1, <2>2, <2>3 DEF Start, Directory!Ask, Account, Answers, AnswerOf
<1>4. ASSUME NEW l \in Logins, CpaApplies(l)
      PROVE  Directory!Activate(l)
  <2>1. who[l] # None
    BY <1>4 DEF CpaApplies, IInv, CallsOK, CallOK
  <2>2. Account' = Account
    BY <1>1, <1>4, AccountsKept DEF CpaApplies, Ids
  <2>3. Answers' = Answers
    BY <1>1, <1>4, AnswersKept DEF CpaApplies, TypeOK, Answers
  <2>. QED
    BY <1>4, <2>1, <2>2, <2>3 DEF CpaApplies, Directory!Activate, Account, Answers, AnswerOf
<1>5. ASSUME NEW l \in Logins, DbInserts(l)
      PROVE  Directory!Open(l)
  <2>1. who[l] \in GitHubIds /\ l \in keys /\ stamp[l] # 0 /\ ~Registered(who[l])
    BY <1>5 DEF DbInserts, IInv, CallsOK, CallOK, TimesOK, TypeOK
  <2>. PICK n \in Nat : n = Len(users) + 1
    BY <1>1, UsersAreRows
  <2>2. /\ DOMAIN users' = Ids \cup {n} /\ n \notin Ids
        /\ users'[n] = NewRow(l)
        /\ \A id \in Ids : users'[id] = users[id]
    <3>1. DOMAIN users' = 1..n /\ users'[n] = NewRow(l)
          /\ \A id \in Ids : users'[id] = users[id]
      BY <1>1, <1>5, <2>1, Inserted
    <3>2. Ids = 1..(n - 1)
      BY <1>1, UsersAreRows
    <3>. QED
      BY <3>1, <3>2
  <2>3. who' = who /\ NewRow(l).github = who[l] /\ Decrypt(NewRow(l).api_key) = l
    BY <1>5 DEF DbInserts, NewRow, Encrypt, Decrypt
  <2>4. KeyOf(who[l]) = None
    BY <2>1 DEF KeyOf
  <2>5. \A g : g = who[l] => KeyOf(g)' = l
    <3>1. RowOf(who[l], n)'
      BY <2>2, <2>3 DEF RowOf, Ids
    <3>2. \A j \in Ids' : RowOf(who[l], j)' => j = n
      BY <3>1 DEF IInv, UniqueOK, RowOf
    <3>3. (CHOOSE j \in Ids : RowOf(who[l], j))' = n
      BY <3>1, <3>2 DEF RowOf
    <3>. QED
      BY <2>2, <2>3, <3>1, <3>3 DEF KeyOf, Registered, RowOf, Decrypt
  <2>6. \A g \in GitHubIds \ {who[l]} : KeyOf(g)' = KeyOf(g)
    <3>1. \A g \in GitHubIds \ {who[l]} : Registered(g)' => Registered(g)
      BY <2>2, <2>3 DEF Registered, RowOf, Ids
    <3>2. \A g : ~Registered(g) /\ ~Registered(g)' => KeyOf(g) = None /\ KeyOf(g)' = None
      BY DEF KeyOf
    <3>. QED
      BY <1>1, <3>1, <3>2, KeyOfPersists DEF IInv
  <2>7. Account' = [Account EXCEPT ![who[l]] = l]
    <3>1. \A g \in GitHubIds : KeyOf(g)' = IF g = who[l] THEN l ELSE KeyOf(g)
      BY <2>3, <2>5, <2>6
    <3>. QED
      BY <2>1, <3>1 DEF Account
  <2>8. Answers' = Answers
    BY <1>1, <1>5, AnswersKept DEF DbInserts, TypeOK, Answers
  <2>9. Account[who[l]] = None /\ who[l] # None /\ UNCHANGED <<who, keys>>
    BY <1>5, <2>1, <2>4, NoneAssumption DEF Account, DbInserts
  <2>. QED
    BY <2>1, <2>7, <2>8, <2>9 DEF Directory!Open, Account, Answers, AnswerOf
<1>6. ASSUME NEW l \in Logins, DbReads(l)
      PROVE  Directory!Answer(l)
  <2>1. who[l] \in GitHubIds /\ who[l] # None /\ AnswerOf(l) = None
    BY <1>1, <1>6, NoneAssumption DEF DbReads, IInv, CallsOK, CallOK, TypeOK, AnswerOf
  <2>2. RowOf(who[l], rowid'[l]) /\ step'[l] = "done" /\ UNCHANGED <<users, who, keys>>
    <3>1. \A id \in Wanted(l) : RowOf(who[l], id)
      BY DEF IInv, CallsOK, CallOK, Wanted
    <3>. QED
      BY <1>1, <1>6, <3>1 DEF DbReads, TypeOK
  <2>3. AnswerOf(l)' = KeyOf(who[l])
    BY <2>2, KeyOfRow DEF IInv, AnswerOf, Decrypt
  <2>4. KeyOf(who[l]) # None
    BY <1>1, <2>2, KeyOfRow, KeyIsALogin, NoneAssumption DEF IInv, RowOf
  <2>5. \A m \in Logins \ {l} : AnswerOf(m)' = AnswerOf(m)
    BY <1>1, <1>6, AnswersKept DEF DbReads, TypeOK
  <2>6. Account' = Account /\ Account[who[l]] = KeyOf(who[l])
    BY <1>1, <2>1, <2>2, AccountsKept DEF Account, Ids
  <2>7. Answers' = [Answers EXCEPT ![l] = KeyOf(who[l])]
    BY <2>3, <2>5 DEF Answers
  <2>. QED
    BY <2>1, <2>2, <2>4, <2>6, <2>7 DEF Directory!Answer, Account, Answers, AnswerOf
<1>7. ASSUME NEW l \in Logins, DbFinds(l) \/ Update(l) \/ DbUpdates(l) \/ Provision(l)
               \/ CpaRefuses(l) \/ Insert(l) \/ DbReportsDuplicate(l) \/ Fails(l) \/ Drop(l)
      PROVE  UNCHANGED Directory!dirVars
  BY <1>1, <1>2, <1>7
     DEF DbFinds, Update, DbUpdates, Provision, CpaRefuses, Insert, DbReportsDuplicate,
         Fails, Drop, TypeOK, Ids
<1>8. CASE Tick \/ UNCHANGED vars
  BY <1>2, <1>8 DEF Tick, vars, Ids
<1>. QED
  BY <1>3, <1>4, <1>5, <1>6, <1>7, <1>8
     DEF Next, Progress, AllEnded, Directory!DirNext

\* Every execution is one of UserDirectory: one account per identity, opened
\* with an active key, and everybody is answered with its key.
THEOREM Implementation == Spec => ImplementsDirectory
<1>1. Init => Directory!DirInit
  BY DEF Init, Directory!DirInit, KeyOf, Registered, Ids
<1>2. IInv /\ IInv' /\ [Next]_vars => [Directory!DirNext]_Directory!dirVars
  BY Simulated
<1>. QED
  BY <1>1, <1>2, Invariance, PTL DEF Spec, ImplementsDirectory, Directory!DirSpec

-----------------------------------------------------------------------------
(* LoginProfiles *)

\* Every other login of g has ended.
Lonely(l, g) ==
  /\ who[l] = g
  /\ \A m \in Logins \ {l} : who[m] = g => step[m] \in Ended

\* What l knows of the row of g, and what it has written to it.
Written(l, g) ==
  /\ step[l] \in {"absent", "patch", "provisioned", "insert"} => ~Registered(g)
  /\ step[l] # "readRaced"
  /\ step[l] \in {"readInserted", "readUpdated", "done"} =>
       \A id \in Ids : users[id].github = g =>
         users[id].profile = l /\ users[id].last_login_at = stamp[l]

ProfileOK ==
  /\ newest \in [GitHubIds -> Logins \cup {None}]
  /\ \A g \in GitHubIds :
       newest[g] # None => Lonely(newest[g], g) /\ Written(newest[g], g)

\* The steps of LoginProfiles are steps of Provisioning.
LEMMA ProfileRefines ==
  /\ ProfileInit => Init
  /\ [ProfileNext]_profileVars => [Next]_vars
  BY DEF ProfileInit, ProfileNext, profileVars, vars, Next, Begin

\* The statements of one login change no row of another identity.
LEMMA OtherRows ==
  ASSUME IInv, NEW m \in Logins, NEW g \in GitHubIds, who[m] # g,
         Progress(m) \/ Fails(m) \/ Drop(m)
  PROVE  /\ Registered(g)' => Registered(g)
         /\ \A id \in Ids' : users'[id].github = g => id \in Ids /\ users'[id] = users[id]
<1>. USE DEF Ids, RowOf, Registered
<1>1. CASE users' = users
  BY <1>1
<1>2. CASE DbUpdates(m)
  <2>1. TypeOK /\ stamp[m] # 0
    BY <1>2 DEF DbUpdates, IInv, TimesOK, Move
  <2>2. \A id \in Ids : users[id] \in Row /\ Refreshed(m, users[id]).github = users[id].github
    BY <2>1, UsersAreRows DEF Refreshed, Row
  <2>. QED
    BY <1>2, <2>1, <2>2, Updated
<1>3. CASE DbInserts(m)
  <2>1. TypeOK /\ stamp[m] # 0 /\ who[m] \in GitHubIds
    BY <1>3 DEF DbInserts, IInv, TimesOK, CallsOK, CallOK, Move, TypeOK
  <2>2. NewRow(m).github = who[m]
    BY DEF NewRow
  <2>. QED
    BY <1>3, <2>1, <2>2, Inserted, UsersAreRows
<1>. QED
  BY <1>1, <1>2, <1>3
     DEF Progress, Fails, Drop, DbFinds, Update, Provision, CpaApplies, CpaRefuses, Insert,
         DbReportsDuplicate, DbReads

\* A login only moves while it is active.
LEMMA ActiveMoves ==
  ASSUME TypeOK, NEW m \in Logins, Progress(m) \/ Fails(m) \/ Drop(m)
  PROVE  /\ step[m] \in Active
         /\ who' = who
         /\ \A k \in Logins \ {m} : step'[k] = step[k] /\ stamp'[k] = stamp[k]
  BY DEF TypeOK, Active, Awaiting, Answered, Move, Progress, Fails, Drop, DbFinds, Update,
     DbUpdates, Provision, CpaApplies, CpaRefuses, Insert, DbInserts, DbReportsDuplicate, DbReads

\* The newest login writes its profile and its time.
LEMMA OwnRow ==
  ASSUME IInv, NEW l \in Logins, NEW g \in GitHubIds, Lonely(l, g), Written(l, g),
         Progress(l) \/ Fails(l) \/ Drop(l)
  PROVE  Written(l, g)'
<1>. USE DEF Move, Written, Lonely
<1>0. TypeOK /\ TimesOK /\ step \in [Logins -> Step]
  BY DEF IInv, TypeOK
<1>1. CASE Fails(l) \/ Drop(l)
  BY <1>0, <1>1 DEF Fails, Drop
<1>2. CASE DbFinds(l)
  BY <1>0, <1>2 DEF DbFinds, Registered, RowOf, Ids
<1>3. CASE Update(l)
  BY <1>0, <1>3 DEF Update
<1>4. CASE DbUpdates(l)
  <2>1. stamp[l] # 0
    BY <1>4 DEF DbUpdates, IInv, TimesOK
  <2>2. \A r \in Row : Refreshed(l, r).profile = l /\ Refreshed(l, r).last_login_at = stamp[l]
    BY DEF Row, Refreshed
  <2>3. \A r \in Row : Refreshed(l, r).github = r.github
    BY DEF Row, Refreshed
  <2>4. \A id \in Ids' : users'[id].github = g =>
          users'[id].profile = l /\ users'[id].last_login_at = stamp[l]
    BY <1>0, <1>4, <2>1, <2>2, <2>3, Updated, UsersAreRows DEF RowOf, Ids
  <2>. QED
    BY <1>0, <1>4, <2>4 DEF DbUpdates
<1>5. CASE Provision(l) \/ CpaApplies(l) \/ CpaRefuses(l) \/ Insert(l)
  BY <1>0, <1>5 DEF Provision, CpaApplies, CpaRefuses, Insert, Registered, RowOf, Ids
<1>6. CASE DbInserts(l)
  <2>1. stamp[l] # 0 /\ who[l] \in GitHubIds
    BY <1>6 DEF DbInserts, IInv, TimesOK
  <2>2. NewRow(l).profile = l /\ NewRow(l).last_login_at = stamp[l]
    BY DEF NewRow
  <2>3. \A id \in Ids : users[id].github # g
    BY <1>6 DEF DbInserts, Registered, RowOf
  <2>4. \A id \in Ids' : users'[id].github = g =>
          users'[id].profile = l /\ users'[id].last_login_at = stamp[l]
    BY <1>0, <1>6, <2>1, <2>2, <2>3, Inserted, UsersAreRows DEF Ids
  <2>. QED
    BY <1>0, <1>6, <2>4 DEF DbInserts
<1>7. CASE DbReportsDuplicate(l)
  BY <1>0, <1>7 DEF DbReportsDuplicate
<1>8. CASE DbReads(l)
  BY <1>0, <1>8 DEF DbReads, Ids
<1>. QED
  BY <1>1, <1>2, <1>3, <1>4, <1>5, <1>6, <1>7, <1>8 DEF Progress

LEMMA BeginStep ==
  ASSUME IInv, ProfileOK, NEW l \in Logins, NEW g \in GitHubIds, Begin(l, g)
  PROVE  ProfileOK'
<1>. USE DEF ProfileOK
<1>1. /\ step[l] = "idle" /\ who[l] = None /\ None \notin GitHubIds
      /\ step' = [step EXCEPT ![l] = "find"] /\ who' = [who EXCEPT ![l] = g]
      /\ UNCHANGED <<users, stamp>>
      /\ step \in [Logins -> Step] /\ who \in [Logins -> GitHubIds \cup {None}]
  BY NoneAssumption DEF Begin, Start, Move, IInv, CallsOK, CallOK, TypeOK
<1>2. /\ newest' = [newest EXCEPT ![g] = IF Quiet(g) THEN l ELSE None]
      /\ newest' \in [GitHubIds -> Logins \cup {None}]
  BY DEF Begin
<1>3. ASSUME NEW h \in GitHubIds \ {g}, newest[h] # None
      PROVE  Lonely(newest[h], h)' /\ Written(newest[h], h)'
  <2>1. newest[h] \in Logins /\ newest[h] # l /\ newest'[h] = newest[h]
    BY <1>1, <1>2, <1>3 DEF Lonely
  <2>2. Lonely(newest[h], h)'
    BY <1>1, <1>3, <2>1 DEF Lonely
  <2>3. Written(newest[h], h)'
    BY <1>1, <1>3, <2>1 DEF Written, Registered, RowOf, Ids
  <2>. QED
    BY <2>2, <2>3
<1>4. CASE Quiet(g)
  <2>1. Lonely(l, g)'
    BY <1>1, <1>4 DEF Quiet, Lonely
  <2>2. Written(l, g)'
    BY <1>1 DEF Written
  <2>. QED
    BY <1>2, <1>3, <1>4, <2>1, <2>2
<1>5. CASE ~Quiet(g)
  BY <1>2, <1>3, <1>5
<1>. QED
  BY <1>4, <1>5

LEMMA LoginStep ==
  ASSUME IInv, ProfileOK, NEW m \in Logins, Progress(m) \/ Fails(m) \/ Drop(m),
         UNCHANGED newest
  PROVE  ProfileOK'
<1>. SUFFICES ASSUME NEW g \in GitHubIds, newest[g] # None
              PROVE  Lonely(newest[g], g)' /\ Written(newest[g], g)'
  BY DEF ProfileOK
<1>. DEFINE l == newest[g]
<1>1. l \in Logins /\ l' = l /\ Lonely(l, g) /\ Written(l, g) /\ TypeOK
  BY DEF ProfileOK, IInv
<1>2. CASE m = l
  <2>1. Written(l, g)'
    BY <1>1, <1>2, OwnRow
  <2>2. Lonely(l, g)'
    BY <1>1, <1>2, ActiveMoves DEF Lonely
  <2>. QED
    BY <2>1, <2>2
<1>3. CASE m # l
  <2>1. who[m] # g
    BY <1>1, <1>3, ActiveMoves DEF Lonely, Active, Awaiting, Answered, Ended
  <2>2. Lonely(l, g)'
    BY <1>1, <1>3, <2>1, ActiveMoves DEF Lonely
  <2>3. step'[l] = step[l] /\ stamp'[l] = stamp[l]
    BY <1>1, <1>3, ActiveMoves
  <2>4. Written(l, g)'
    BY <1>1, <2>1, <2>3, OtherRows DEF Written
  <2>. QED
    BY <2>2, <2>4
<1>. QED
  BY <1>2, <1>3

LEMMA ProfileStep ==
  ASSUME IInv, ProfileOK, [ProfileNext]_profileVars
  PROVE  ProfileOK'
<1>1. ASSUME UNCHANGED <<newest, step, who, stamp, users>> PROVE ProfileOK'
  BY <1>1 DEF ProfileOK, Lonely, Written, Registered, RowOf, Ids
<1>. QED
  BY <1>1, BeginStep, LoginStep DEF ProfileNext, profileVars, Tick, AllEnded, vars

LEMMA ProfileInvariance == ProfileSpec => [](IInv /\ ProfileOK)
<1>1. ProfileInit => IInv /\ ProfileOK
  BY ProfileRefines, InitIInv DEF ProfileInit, ProfileOK
<1>2. IInv /\ ProfileOK /\ [ProfileNext]_profileVars => IInv' /\ ProfileOK'
  BY ProfileRefines, StepIInv, ProfileStep
<1>. QED
  BY <1>1, <1>2, PTL DEF ProfileSpec

-----------------------------------------------------------------------------
\* A login that overlapped no other of its user, nor a statement that another had
\* left behind, leaves its own profile and time in the row until the next one
\* begins, however the others ended.
THEOREM NewestProfiles == ProfileSpec => []NewestProfileShown
<1>1. ProfileOK => NewestProfileShown
  BY DEF ProfileOK, NewestProfileShown, Written, RowOf
<1>. QED
  BY <1>1, ProfileInvariance, PTL
=============================================================================
