----------------------------- MODULE ProcessProofs -----------------------------
(***************************************************************************)
(* Proofs about Process, for any requests, inputs and bounds: what a       *)
(* process has behind it, by where its main() is (Reached), and who can    *)
(* have a request or a clean-up task there (Alive).  And about             *)
(* Configuration, alone and in Process, for whatever the sources hold: the *)
(* configuration is what its own sources merge to (AsMerged).              *)
(***************************************************************************)
EXTENDS Process, TLAPS

\* What main() has done before it comes to a phase.
Reached ==
  /\ phase = "config" => config = Absent
  /\ phase \notin {"down", "config", "joining"} => config \in AppConfig
  /\ phase \notin {"down", "config", "database", "joining"} => "users" \in tables
  /\ phase \in {"sessions", "clients", "bind"} \cup Serving => config.ttl <= MaxI64
  /\ phase \in {"clients", "bind"} \cup Serving => "sessions" \in tables
  /\ phase \in {"bind"} \cup Serving => config.token >= MinTokenBytes

Alive ==
  /\ phase \in {"clients", "bind", "joining"} \cup Serving <=> cleanup # "none"
  /\ phase \notin Serving => \A r \in Requests : request[r] # "accepted"

ProcInv == TypeOK /\ Reached /\ Alive

-----------------------------------------------------------------------------
\* A configuration that loads is one of the type that main() is given.
LEMMA LoadsWell ==
  ASSUME NEW in, Loads(in)
  PROVE  [s \in Settings |-> Merged(in, s)] \in AppConfig
<1>1. Settings = {"listen", "base_url", "ttl", "token", "key"}
  BY DEF Settings, Accepts
<1>2. \A s \in Settings : Merged(in, s) \in Accepts[s]
  BY DEF Loads
<1>. QED
  BY <1>1, <1>2 DEF AppConfig

LEMMA ConfigsAreLoaded == config \in AppConfig => Loaded
  BY AppConfigAssumption DEF Loaded

\* The end of a process, from any state.
LEMMA ExitStep ==
  ASSUME ProcInv, NEW how \in {"ok", "failed", "killed"}, Exit(how),
         config' \in AppConfig \cup {Absent, Refused}, UNCHANGED <<inputs, tables, expired>>
  PROVE  ProcInv'
  BY DEF ProcInv, TypeOK, Reached, Alive, Exit, Phase, Starting, Serving

LEMMA StartStep ==
  ASSUME ProcInv,
         Launch \/ ReadConfig \/ Connect \/ CheckTtl \/ MigrateSessions \/ BuildClients \/ Bind
  PROVE  ProcInv'
<1>. USE DEF ProcInv, TypeOK, Reached, Alive, Phase, Starting, Serving, Goto
<1>1. CASE Launch
  BY <1>1 DEF Launch
<1>2. CASE ReadConfig
  <2>1. CASE Loads(inputs)
    BY <1>2, <2>1, LoadsWell DEF ReadConfig, Load
  <2>2. CASE ~Loads(inputs)
    BY <1>2, <2>2, ExitStep DEF ReadConfig, Load
  <2>. QED
    BY <2>1, <2>2
<1>3. CASE Connect
  BY <1>3, ExitStep DEF Connect, Start
<1>4. CASE CheckTtl
  BY <1>4, ExitStep DEF CheckTtl
<1>5. CASE MigrateSessions
  BY <1>5, ExitStep DEF MigrateSessions
<1>6. CASE BuildClients
  BY <1>6, ExitStep DEF BuildClients
<1>7. CASE Bind
  BY <1>7, ExitStep DEF Bind, Start
<1>. QED
  BY <1>1, <1>2, <1>3, <1>4, <1>5, <1>6, <1>7

LEMMA ServeStep ==
  ASSUME ProcInv,
         \/ Drained \/ Join \/ Sweep \/ Expire \/ Signal \/ Kill
         \/ \E r \in Requests : Accept(r) \/ Ends(r)
  PROVE  ProcInv'
<1>. USE DEF ProcInv, TypeOK, Reached, Alive, Phase, Starting, Serving, Goto
<1>1. CASE Drained
  BY <1>1 DEF Drained
<1>2. CASE Join
  BY <1>2, ExitStep DEF Join
<1>3. CASE Sweep
  BY <1>3, ZenonT(30) DEF Sweep
<1>4. CASE Expire
  BY <1>4 DEF Expire
<1>5. CASE Signal
  BY <1>5 DEF Signal
<1>6. CASE Kill
  BY <1>6, ExitStep DEF Kill
<1>7. ASSUME NEW r \in Requests, Accept(r) PROVE ProcInv'
  BY <1>7 DEF Accept
<1>8. ASSUME NEW r \in Requests, Ends(r) PROVE ProcInv'
  BY <1>8 DEF Ends
<1>. QED
  BY <1>1, <1>2, <1>3, <1>4, <1>5, <1>6, <1>7, <1>8

LEMMA ProcInvariance == ProcSpec => []ProcInv
<1>1. ProcInit => ProcInv
  BY DEF ProcInit, ConfigInit, ProcInv, TypeOK, Reached, Alive, Phase, Serving, Starting
<1>2. ProcInv /\ UNCHANGED procVars => ProcInv'
  BY DEF procVars, ProcInv, TypeOK, Reached, Alive
<1>3. ProcInv /\ [ProcNext]_procVars => ProcInv'
  BY <1>2, StartStep, ServeStep DEF ProcNext, Main
<1>. QED
  BY <1>1, <1>3, PTL DEF ProcSpec

-----------------------------------------------------------------------------
(* The theorems *)

\* Configuration, tables, tasks and requests are always well formed.
THEOREM TypeCorrect == ProcSpec => []TypeOK
<1>1. ProcInv => TypeOK
  BY DEF ProcInv
<1>. QED
  BY <1>1, ProcInvariance, PTL

\* Requests are accepted only when all of main's preparations have succeeded in
\* this process, whatever earlier ones have left behind.
THEOREM ServesWhenReady == ProcSpec => []ReadyBeforeServing
<1>1. ProcInv => ReadyBeforeServing
  BY ConfigsAreLoaded DEF ProcInv, TypeOK, Reached, Alive, ReadyBeforeServing, Serving
<1>. QED
  BY <1>1, ProcInvariance, PTL

\* A process that is not killed has no accepted request left when it ends.
THEOREM ShutdownIsGraceful == ProcSpec => NobodyCutOff
<1>. DEFINE Keeps == exit' # "killed" =>
              \A r \in Requests : request'[r] = "cut" => request[r] = "cut"
<1>1. ASSUME NEW how, Exit(how), \A r \in Requests : request[r] # "accepted" PROVE Keeps
  BY <1>1 DEF Exit
<1>2. ProcInv /\ Main => Keeps
  BY <1>1 DEF ProcInv, Alive, Serving, Main, ReadConfig, Connect, CheckTtl, MigrateSessions,
     BuildClients, Bind, Start, Drained, Join, Goto
<1>3. ProcInv /\ Kill => Keeps
  BY DEF Kill, Exit
<1>4. ASSUME ProcInv, NEW r \in Requests, Accept(r) \/ Ends(r) PROVE Keeps
  BY <1>4 DEF Accept, Ends, ProcInv, TypeOK
<1>5. ProcInv /\ (Launch \/ Sweep \/ Expire \/ Signal) => Keeps
  BY DEF Launch, Sweep, Expire, Signal
<1>6. ProcInv /\ [ProcNext]_procVars => [Keeps]_procVars
  BY <1>2, <1>3, <1>4, <1>5 DEF ProcNext
<1>. QED
  BY <1>6, ProcInvariance, PTL DEF ProcSpec, NobodyCutOff

\* An error that the clean-up ended with survives the abort.
THEOREM FailuresAreReported == ProcSpec => CleanupFailureReported
<1>. DEFINE Reports == cleanup = "failed" /\ phase' = "down" => exit' # "ok"
<1>1. ProcInv /\ Main => Reports
  BY DEF ProcInv, Alive, Serving, Main, ReadConfig, Connect, CheckTtl, MigrateSessions,
     BuildClients, Bind, Start, Drained, Join, Goto, Exit
<1>2. ProcInv /\ ProcNext => Reports
  BY <1>1 DEF ProcInv, Alive, Serving, ProcNext, Launch, Sweep, Expire, Signal, Kill, Accept,
     Ends, Goto, Exit
<1>. QED
  BY <1>2, ProcInvariance, PTL DEF ProcSpec, CleanupFailureReported

\* cleanup_task.await has an end to wait for, and nobody is served meanwhile.
AwaitReturns ==
  phase = "joining" =>
    cleanup \in {"failed", "aborted"} /\ \A r \in Requests : request[r] # "accepted"

\* After the signal main only goes on, and no new request holds it up.
OnlyTowardsTheEnd ==
  /\ phase = "draining" =>
       /\ phase' \in {"draining", "joining", "down"}
       /\ \A r \in Requests : request'[r] = "accepted" => request[r] = "accepted"
  /\ phase = "joining" => phase' \in {"joining", "down"}

\* A shutdown waits for nothing but the requests accepted before the signal: the
\* abort comes before the await, so main never waits for a clean-up that loops
\* for ever.  The part of ShutdownEnds that needs no fairness.
THEOREM ShutdownNeverHangs == ProcSpec => []AwaitReturns /\ [][OnlyTowardsTheEnd]_procVars
<1>. DEFINE Aborted == phase = "joining" => cleanup # "running"
<1>1. ProcInit => Aborted
  BY DEF ProcInit
<1>2. Aborted /\ [ProcNext]_procVars => Aborted'
  BY DEF ProcNext, Main, Launch, ReadConfig, Connect, CheckTtl, MigrateSessions, BuildClients,
     Bind, Start, Drained, Join, Sweep, Expire, Signal, Kill, Accept, Ends, Goto, Exit, procVars
<1>3. ProcInv /\ Aborted => AwaitReturns
  BY DEF ProcInv, TypeOK, Alive, AwaitReturns, Serving
<1>4. ProcInv /\ [ProcNext]_procVars => [OnlyTowardsTheEnd]_procVars
  <2>1. ProcInv /\ Main => OnlyTowardsTheEnd
    BY DEF OnlyTowardsTheEnd, Main, ReadConfig, Connect, CheckTtl, MigrateSessions, BuildClients,
       Bind, Start, Drained, Join, Goto, Exit
  <2>2. ASSUME ProcInv, NEW r \in Requests, Accept(r) \/ Ends(r) PROVE OnlyTowardsTheEnd
    BY <2>2 DEF Accept, Ends, ProcInv, TypeOK, OnlyTowardsTheEnd
  <2>3. Launch \/ Sweep \/ Expire \/ Signal \/ Kill => OnlyTowardsTheEnd
    BY DEF Launch, Sweep, Expire, Signal, Kill, Goto, Exit, OnlyTowardsTheEnd
  <2>. QED
    BY <2>1, <2>2, <2>3 DEF ProcNext
<1>. QED
  BY <1>1, <1>2, <1>3, <1>4, ProcInvariance, PTL DEF ProcSpec

-----------------------------------------------------------------------------
(* The merge of the sources *)

AsMerged ==
  \/ config = Absent
  \/ (config = Refused /\ ~Loads(inputs))
  \/ (Loaded /\ config = [s \in Settings |-> Merged(inputs, s)])

\* The value of a setting is that of the strongest source that gives it.
LEMMA StrongestWins ==
  ASSUME NEW s \in Settings, NEW n \in Sources, Gives(inputs, n, s)
  PROVE  \E m \in Sources :
           /\ Gives(inputs, m, s)
           /\ Merged(inputs, s) = inputs[m][s]
           /\ \A k \in Sources : Gives(inputs, k, s) => k <= m
<1>. DEFINE gives == {k \in Sources : Gives(inputs, k, s)}
<1>1. Sources = {1, 2, 3} /\ n \in gives
  BY DEF Sources
<1>2. \E m \in gives : \A k \in gives : m >= k
  <2>1. gives \subseteq {1, 2, 3} /\ gives # {}
    BY <1>1
  <2>. HIDE DEF gives
  <2>2. CASE 3 \in gives
    BY <2>1, <2>2
  <2>3. CASE 3 \notin gives /\ 2 \in gives
    BY <2>1, <2>3
  <2>4. CASE 3 \notin gives /\ 2 \notin gives
    <3>1. gives = {1}
      BY <2>1, <2>4
    <3>. QED
      BY <3>1
  <2>. QED
    BY <2>2, <2>3, <2>4
<1>3. Max(gives) \in gives /\ \A k \in gives : Max(gives) >= k
  BY <1>2 DEF Max
<1>4. Merged(inputs, s) = inputs[Max(gives)][s]
  BY <1>1 DEF Merged
<1>. QED
  BY <1>1, <1>3, <1>4

\* A setting that is well given is merged to a value that it accepts.
LEMMA WellGivenIsAccepted ==
  ASSUME NEW s \in Settings, WellGiven(s)
  PROVE  Merged(inputs, s) \in Accepts[s]
<1>1. CASE Defaults[s] # Absent /\ \A n \in Sources : ~Gives(inputs, n, s)
  <2>1. Merged(inputs, s) = Defaults[s]
    BY <1>1 DEF Merged
  <2>2. (s = "listen" /\ Defaults[s] = "address") \/ (s = "ttl" /\ Defaults[s] = 1)
    BY <1>1 DEF Defaults
  <2>. QED
    BY <2>1, <2>2 DEF Accepts
<1>2. CASE \E n \in Sources :
              /\ Gives(inputs, n, s)
              /\ \A m \in Sources : Gives(inputs, m, s) => m <= n
              /\ inputs[n][s] \in Accepts[s]
  <2>1. PICK n \in Sources : /\ Gives(inputs, n, s)
                             /\ \A m \in Sources : Gives(inputs, m, s) => m <= n
                             /\ inputs[n][s] \in Accepts[s]
    BY <1>2
  <2>2. PICK m \in Sources : /\ Gives(inputs, m, s)
                             /\ Merged(inputs, s) = inputs[m][s]
                             /\ \A k \in Sources : Gives(inputs, k, s) => k <= m
    BY <2>1, StrongestWins
  <2>3. m = n
    BY <2>1, <2>2 DEF Sources
  <2>. QED
    BY <2>1, <2>2, <2>3
<1>. QED
  BY <1>1, <1>2 DEF WellGiven

LEMMA MergedRule == AsMerged => StrongerSourcesRule
<1>. SUFFICES ASSUME AsMerged PROVE StrongerSourcesRule
  OBVIOUS
<1>1. ASSUME Loaded, NEW s \in Settings, NEW n \in Sources, Gives(inputs, n, s)
      PROVE  config[s] = inputs[n][s] \/ \E m \in Sources : m > n /\ Gives(inputs, m, s)
  <2>1. config[s] = Merged(inputs, s)
    BY <1>1 DEF Loaded, AsMerged
  <2>2. PICK m \in Sources : /\ Gives(inputs, m, s)
                             /\ Merged(inputs, s) = inputs[m][s]
                             /\ \A k \in Sources : Gives(inputs, k, s) => k <= m
    BY <1>1, StrongestWins
  <2>3. n <= m
    BY <1>1, <2>2
  <2>. QED
    BY <2>1, <2>2, <2>3 DEF Sources
<1>2. ASSUME config = Refused
      PROVE  \/ inputs[Named] = Missing
             \/ \E n \in Sources : inputs[n] = Garbled
             \/ \E s \in Settings : ~WellGiven(s)
  BY <1>2, WellGivenIsAccepted, AppConfigAssumption DEF AsMerged, Loaded, Loads, FilesRead
<1>. QED
  BY <1>1, <1>2 DEF StrongerSourcesRule

LEMMA LoadMerges == AsMerged /\ Load => AsMerged'
<1>. SUFFICES ASSUME Load PROVE AsMerged'
  OBVIOUS
<1>1. CASE Loads(inputs)
  <2>1. config' = [s \in Settings |-> Merged(inputs, s)] /\ config' \in AppConfig
    BY <1>1, LoadsWell DEF Load
  <2>. QED
    BY <2>1, AppConfigAssumption DEF Load, AsMerged, Loaded, Merged, Gives, Settings
<1>2. CASE ~Loads(inputs)
  BY <1>2 DEF Load, AsMerged, Loads, Merged, Gives, FilesRead
<1>. QED
  BY <1>1, <1>2

LEMMA MergeKept == AsMerged /\ UNCHANGED <<inputs, config>> => AsMerged'
  BY DEF AsMerged, Loaded, Loads, Merged, Gives, FilesRead

\* The values of a weaker source count only where no stronger one gives any: they
\* neither show through nor stop the start.  (A file that does not parse has no
\* values, and stops the start wherever it ranks.)
THEOREM SourcesAreRanked == ConfigSpec => []StrongerSourcesRule
<1>1. ConfigInit => AsMerged
  BY DEF ConfigInit, AsMerged
<1>2. AsMerged /\ [Load]_<<inputs, config>> => AsMerged'
  BY LoadMerges, MergeKept
<1>. QED
  BY <1>1, <1>2, MergedRule, PTL DEF ConfigSpec

\* The same of every process that is launched on the database, with whatever
\* sources it finds: a configuration is never that of an earlier process.
THEOREM SourcesAreRankedAtEveryLaunch == ProcSpec => []StrongerSourcesRule
<1>1. ProcInit => AsMerged
  BY DEF ProcInit, ConfigInit, AsMerged
<1>2. AsMerged /\ ProcNext => AsMerged'
  <2>1. CASE ReadConfig
    BY <2>1, LoadMerges DEF ReadConfig
  <2>2. CASE Launch
    BY <2>2 DEF Launch, AsMerged
  <2>3. AsMerged /\ ProcNext /\ ~ReadConfig /\ ~Launch => UNCHANGED <<inputs, config>>
    BY DEF ProcNext, Main, Connect, CheckTtl, MigrateSessions, BuildClients, Bind, Start,
       Drained, Join, Sweep, Expire, Signal, Kill, Accept, Ends
  <2>. QED
    BY <2>1, <2>2, <2>3, MergeKept
<1>3. AsMerged /\ [ProcNext]_procVars => AsMerged'
  BY <1>2, MergeKept DEF procVars
<1>. QED
  BY <1>1, <1>3, MergedRule, PTL DEF ProcSpec
=============================================================================
