--------------------------- MODULE MCStreamRunner ---------------------------
(* Values for TLC: lines with rows in every table (a block with actions),  *)
(* in the first only (a block without), and in none (a block of no fills); *)
(* with one row, and with as many as end an INSERT at once.                *)
EXTENDS StreamRunner

MCRowsIn == [l \in Lines |-> CASE l = 1 -> <<1, 2>>
                         [] l = 4 -> <<2, 1>>
                         [] l % 3 = 2 -> <<1, 0>>
                         [] OTHER -> <<0, 0>>]

=============================================================================
