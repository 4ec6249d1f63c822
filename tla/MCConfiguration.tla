---------------------------- MODULE MCConfiguration ----------------------------
(* Instances of Configuration for TLC. *)
EXTENDS Configuration

GoodKey == [blanks |-> "none", prefix |-> FALSE, letters |-> "standard",
            padded |-> TRUE, bytes |-> 32]

\* The key in every form.
KeyInputs ==
  {<<Absent, Absent, [listen |-> l, base_url |-> "http", ttl |-> Absent,
                      token |-> 32, key |-> k]>> :
     l \in {Absent, "junk"}, k \in KeyText \cup {Absent}}
=============================================================================
