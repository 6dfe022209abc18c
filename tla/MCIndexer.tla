------------------------------ MODULE MCIndexer ------------------------------
(* Values for TLC: paths sort in the order the node creates the files. *)
EXTENDS Indexer

MCPathOrder == [f \in Files |-> f]

=============================================================================
