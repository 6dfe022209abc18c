----------------------------- MODULE AtLeastOnce -----------------------------
(***************************************************************************)
(* What a stream of the indexer promises to its operator, without tables,  *)
(* channels, ticks or processes: lines become stored, in any order and any *)
(* number at a time, and never unstored; the resume point moves forward    *)
(* only, and only over lines that are stored.  A restart reads on from the *)
(* resume point, so every line is stored at least once.                    *)
(***************************************************************************)
EXTENDS Integers

CONSTANTS
  NumLines,   \* lines of the source
  Good        \* the lines there is something to store of

VARIABLES
  stored,     \* lines completely in the database
  resume      \* last line a restart does not read again, 0 for none

Init == stored = {} /\ resume = 0

(* Lines become stored. *)
Store ==
  /\ stored \subseteq stored' /\ stored' \subseteq Good
  /\ UNCHANGED resume

(* The resume point advances over stored lines. *)
Advance ==
  /\ resume' \in resume .. NumLines
  /\ \A l \in Good : l <= resume' => l \in stored
  /\ UNCHANGED stored

Next == Store \/ Advance

Spec == Init /\ [][Next]_<<stored, resume>>
=============================================================================
