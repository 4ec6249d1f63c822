------------------------------ MODULE ErrorBody ------------------------------
(***************************************************************************)
(* bounded_response_body, src/clients/keeper/mod.rs: the body of a failed  *)
(* answer of Keeper goes into the error message, at most MaxKept bytes of  *)
(* it, with a mark (an ellipsis) when something was cut off.               *)
(*                                                                         *)
(* Bytes are counted, not named.  Keeper may announce the length or not    *)
(* (chunked transfer); HTTP delivers neither more than was announced nor,  *)
(* without an error, less.  Chunks may be empty.                           *)
(***************************************************************************)
EXTENDS Integers

CONSTANTS
  MaxKept,  \* MAX_ERROR_BODY_BYTES
  MaxBody,  \* bound on the length of a body
  Unknown   \* no length was announced

ASSUME MaxAssumption == MaxKept \in Nat \ {0}
ASSUME MaxBodyAssumption == MaxBody \in Nat
ASSUME UnknownAssumption == Unknown \notin Nat

VARIABLES
  phase,          \* "reading", "done" or "unreadable"
  contentLength,  \* content_length
  arrived,        \* history: the bytes that chunk() has returned
  kept,           \* body.len()
  truncated       \* truncated

vars == <<phase, contentLength, arrived, kept, truncated>>

TypeOK ==
  /\ phase \in {"reading", "done", "unreadable"}
  /\ contentLength \in 0..MaxBody \cup {Unknown}
  /\ arrived \in 0..MaxBody
  /\ kept \in 0..MaxKept
  /\ truncated \in BOOLEAN

Init ==
  /\ phase = "reading"
  /\ contentLength \in 0..MaxBody \cup {Unknown}
  /\ arrived = 0
  /\ kept = 0
  /\ truncated = FALSE

AtMost(n, m) == IF n <= m THEN n ELSE m

-----------------------------------------------------------------------------
(* Faulty variants of the actions below, each a mistake that is easy to make *)
(* here.  No specification uses them: README.md lists which property each of *)
(* them breaks when it replaces the action it is named after.                *)

\* A full buffer is taken for a cut one.
EndOfBodyFull ==
  /\ phase = "reading"
  /\ contentLength \in {Unknown, arrived}
  /\ phase' = "done"
  /\ truncated' = (truncated \/ kept = MaxKept)
  /\ UNCHANGED <<contentLength, arrived, kept>>

-----------------------------------------------------------------------------
\* chunk() returns n bytes: the first of them are kept while there is room.
Chunk(n) ==
  /\ phase = "reading"
  /\ arrived' = arrived + n
  /\ kept' = kept + AtMost(n, MaxKept - kept)
  /\ truncated' = (truncated \/ AtMost(n, MaxKept - kept) < n)
  /\ UNCHANGED <<phase, contentLength>>

\* chunk() returns None.
EndOfBody ==
  /\ phase = "reading"
  /\ contentLength \in {Unknown, arrived}
  /\ phase' = "done"
  /\ truncated' = \/ truncated
                  \/ kept = MaxKept /\ (contentLength = Unknown \/ contentLength > MaxKept)
  /\ UNCHANGED <<contentLength, arrived, kept>>

\* chunk() fails: the message speaks of the failure, not of the body.
ReadFails ==
  /\ phase = "reading"
  /\ phase' = "unreadable"
  /\ UNCHANGED <<contentLength, arrived, kept, truncated>>

\* The function has returned: the only way for it to stand still.
Returned == phase # "reading" /\ UNCHANGED vars

\* The most that the connection can still deliver.
Rest == (IF contentLength = Unknown THEN MaxBody ELSE contentLength) - arrived

Next ==
  \/ \E n \in 0..Rest : Chunk(n)
  \/ EndOfBody \/ ReadFails
  \/ Returned

Spec == Init /\ [][Next]_vars

-----------------------------------------------------------------------------
(* Properties *)

\* What is kept is the beginning of the body, as much of it as fits: no chunk
\* is skipped and another one appended behind the gap.
KeepsTheBeginning == kept = AtMost(arrived, MaxKept)

\* The mark tells of a loss, however the body was cut into chunks and whether or
\* not its length was announced: a message that lacks a part of the body is
\* marked, and a mark on a whole body has one cause, a body that ends exactly at
\* the limit with a length that nobody announced.
MarkTellsOfLoss ==
  phase = "done" =>
    /\ arrived > kept => truncated
    /\ truncated => arrived > MaxKept \/ (arrived = MaxKept /\ contentLength = Unknown)
=============================================================================
