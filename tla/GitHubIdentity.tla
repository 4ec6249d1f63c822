---------------------------- MODULE GitHubIdentity ----------------------------
(***************************************************************************)
(* What one callback asks of GitHub (src/clients/github.rs) and makes of   *)
(* the answers: the exchange of the code, the user, the user's addresses.  *)
(* An address is named by its place in GitHub's list.                      *)
(***************************************************************************)
EXTENDS Integers, FiniteSetsExt, SequencesExt

CONSTANTS
  MaxI64,     \* i64::MAX; the ids of GitHub are of u64
  MaxEmails   \* bound on the addresses of a user

ASSUME BoundsAssumption == MaxI64 \in Nat /\ MaxEmails \in Nat

VARIABLES
  step,     \* where the callback is
  user,     \* GitHub's answer for the user
  emails,   \* GitHub's answer for the addresses
  answer    \* what the callback gets: an identity, an error, or nothing yet

gitHubVars == <<step, user, emails, answer>>

Email == [primary : BOOLEAN, verified : BOOLEAN]
User  == [id : 0..(2 * MaxI64 + 1), email : {"public", "none"}]
Nothing == [kind |-> "nothing"]

GitHubInit ==
  /\ step = "exchange"
  /\ user \in User
  /\ emails \in UNION {[1..n -> Email] : n \in 0..MaxEmails}
  /\ answer = Nothing

Fail(status) ==
  /\ step' = "ended" /\ answer' = [kind |-> "error", status |-> status]
  /\ UNCHANGED <<user, emails>>

\* exchange_code: what GitHub says is read before the status is looked at, so
\* that an answer that is not JSON is an error of reqwest (500), a refusal or an
\* answer without a token one of GitHub (502).
exchange_code ==
  /\ step = "exchange"
  /\ \/ step' = "user" /\ UNCHANGED <<user, emails, answer>>
     \/ Fail(500)
     \/ Fail(502)

\* octocrab: GET /user, then GET /user/emails.
FetchUser ==
  /\ step = "user"
  /\ \/ step' = "emails" /\ UNCHANGED <<user, emails, answer>>
     \/ Fail(502)

\* Faulty variant: the first verified address, primary or not.
select_email_any(list) ==
  LET verified == {i \in DOMAIN list : list[i].verified}
  IN  IF verified # {} THEN Min(verified) ELSE IF list # <<>> THEN 1 ELSE 0

\* The first that is primary and verified, else the first verified, else the
\* first; 0: there is none.
select_email(list) ==
  LET verified == {i \in DOMAIN list : list[i].verified}
      best     == {i \in verified : list[i].primary}
  IN  IF best # {} THEN Min(best)
      ELSE IF verified # {} THEN Min(verified)
      ELSE IF list # <<>> THEN 1 ELSE 0

Identity(id) ==
  [kind |-> "identity", id |-> id,
   email |-> IF emails # <<>> THEN select_email(emails) ELSE user.email]

\* The addresses; then the id is converted, or is too large for an i64.
FetchEmails ==
  /\ step = "emails"
  /\ \/ /\ user.id <= MaxI64
        /\ step' = "ended" /\ answer' = Identity(user.id)
        /\ UNCHANGED <<user, emails>>
     \/ Fail(502)

Ended == step = "ended" /\ UNCHANGED gitHubVars

GitHubNext == exchange_code \/ FetchUser \/ FetchEmails \/ Ended

GitHubSpec == GitHubInit /\ [][GitHubNext]_gitHubVars

-----------------------------------------------------------------------------
(* Properties *)

Rank(email) == IF ~email.verified THEN 2 ELSE IF email.primary THEN 0 ELSE 1

\* No address is passed over for a worse one: the primary one is taken if it is
\* verified, an unverified one only if none is verified, and the public address
\* of the profile, or none, only if GitHub lists none.
EmailIsBest ==
  answer.kind = "identity" =>
    IF emails = <<>> THEN answer.email = user.email
    ELSE \A i \in DOMAIN emails : Rank(emails[answer.email]) <= Rank(emails[i])
=============================================================================
