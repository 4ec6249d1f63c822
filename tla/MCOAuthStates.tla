---------------------------- MODULE MCOAuthStates ----------------------------
(* Instances of OAuthStates for TLC. *)
EXTENDS OAuthStates, TLC

\* Starts are interchangeable, and so are callbacks.
RequestSymmetry == Permutations(Starts) \cup Permutations(Callbacks)
=============================================================================
