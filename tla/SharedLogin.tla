------------------------------ MODULE SharedLogin ------------------------------
(***************************************************************************)
(* What the Keeper client promises about logging in, without locks,        *)
(* cookies or messages: the callers share an epoch.  A caller whose        *)
(* request is rejected remembers the epoch of the rejection.  The epoch    *)
(* moves by one, and only on behalf of ONE caller that was rejected in the *)
(* current epoch; every other caller rejected in that epoch joins and gets *)
(* its second attempt without a login of its own.                          *)
(***************************************************************************)
EXTENDS Naturals

CONSTANT Callers

VARIABLES
  epoch,   \* the completed logins, successful or not
  phase,   \* phase[c]: where caller c is
  seen     \* seen[c]: the epoch in which c was rejected (0 otherwise)

absVars == <<epoch, phase, seen>>

AbsTypeOK ==
  /\ epoch \in Nat
  /\ phase \in [Callers ->
       {"idle", "calling", "rejected", "retrying", "done"}]
  /\ seen \in [Callers -> Nat]

AbsInit ==
  /\ epoch = 0
  /\ phase = [c \in Callers |-> "idle"]
  /\ seen = [c \in Callers |-> 0]

Move(c, from, to) ==
  /\ phase[c] = from
  /\ phase' = [phase EXCEPT ![c] = to]

\* A caller that returns forgets the epoch it saw.
Return(c) ==
  /\ phase[c] \in {"calling", "rejected", "retrying"}
  /\ phase' = [phase EXCEPT ![c] = "done"]
  /\ seen' = [seen EXCEPT ![c] = 0]
  /\ UNCHANGED epoch

Begin(c) == Move(c, "idle", "calling") /\ UNCHANGED <<epoch, seen>>

Reject(c) ==
  /\ Move(c, "calling", "rejected")
  /\ seen' = [seen EXCEPT ![c] = epoch]
  /\ UNCHANGED epoch

\* The login attempt of this epoch: it gives c its second attempt.
Advance(c) ==
  /\ Move(c, "rejected", "retrying")
  /\ seen[c] = epoch
  /\ epoch' = epoch + 1
  /\ UNCHANGED seen

\* The login attempt of this epoch: it failed, and c returns the failure.
AdvanceFails(c) ==
  /\ Move(c, "rejected", "done")
  /\ seen[c] = epoch
  /\ epoch' = epoch + 1
  /\ seen' = [seen EXCEPT ![c] = 0]

Join(c) ==
  /\ Move(c, "rejected", "retrying")
  /\ seen[c] # epoch
  /\ UNCHANGED <<epoch, seen>>

AbsNext ==
  \E c \in Callers :
    \/ Begin(c) \/ Reject(c) \/ Advance(c) \/ AdvanceFails(c)
    \/ Join(c) \/ Return(c)

AbsSpec == AbsInit /\ [][AbsNext]_absVars
=============================================================================
