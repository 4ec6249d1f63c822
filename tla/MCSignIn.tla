------------------------------- MODULE MCSignIn -------------------------------
(* SignIn, with the history of SignOut, for TLC. *)
EXTENDS SignOut, TLC

\* Requests of one route are interchangeable, and so are browsers, identities
\* and states.
SignInSymmetry ==
  Permutations(Callbacks) \cup Permutations(Visits) \cup Permutations(Browsers)
    \cup Permutations(Identities) \cup Permutations(States)
=============================================================================
