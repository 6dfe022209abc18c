-------------------------- MODULE MCReplacingTable --------------------------
(* Instances of ReplacingTable for TLC. *)
EXTENDS ReplacingTable

(* Two lines of the first day, two of the second; every row has its own key. *)
MCBlockDay == [l \in 1 .. NumLines |-> IF l <= 2 THEN 1 ELSE 2]
MCKeyOf    == [l \in 1 .. NumLines |-> l]
=============================================================================
