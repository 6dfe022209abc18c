--------------------------- MODULE ReplacingTable ---------------------------
(***************************************************************************)
(* A table of the indexer in ClickHouse (src/migrations), fed by a stream  *)
(* that writes lines again after a restart.  The tables are                *)
(* ReplacingMergeTree: in the background, parts of one partition are       *)
(* merged, and of rows with the same ORDER BY key the last one is kept.    *)
(* Parts of different partitions are never merged.                         *)
(*                                                                         *)
(* The stream is seen as AtLeastOnce leaves it: INSERTs carry on from any  *)
(* position between the checkpoint and the last line.  A line stands for   *)
(* its row; KeyOf is the ORDER BY key of the row.  Rows live shorter than  *)
(* their TTL here.                                                         *)
(***************************************************************************)
EXTENDS Integers, Sequences, FiniteSets

CONSTANTS
  NumLines,      \* lines of the stream (bound)
  NumDays,       \* days that pass (bound)
  BlockDay,      \* BlockDay[l]: the day in the row's own time column
  KeyOf,         \* KeyOf[l]: the ORDER BY key
  ByCreation,    \* PARTITION BY created_at (DEFAULT now64()) or by the row's time
  MaxRestarts    \* (bound)

Lines == 1 .. NumLines

ASSUME TableAssumption ==
  /\ NumLines \in Nat /\ NumDays \in Nat \ {0} /\ MaxRestarts \in Nat
  /\ BlockDay \in [Lines -> 1 .. NumDays] /\ DOMAIN KeyOf = Lines
  /\ ByCreation \in BOOLEAN

VARIABLES
  day,          \* the server's date
  at,           \* last line this process has inserted
  checkpoint,
  rows,         \* the rows stored: [line, partition, part]
  parts,        \* parts written so far
  restarts

vars == <<day, at, checkpoint, rows, parts, restarts>>

Row == [line : Lines, partition : 1 .. NumDays, part : Nat \ {0}]

TypeOK ==
  /\ day \in 1 .. NumDays
  /\ at \in 0 .. NumLines /\ checkpoint \in 0 .. at
  /\ rows \subseteq Row /\ \A r \in rows : r.part <= parts
  /\ parts \in Nat /\ restarts \in 0 .. MaxRestarts

Init ==
  /\ day = 1 /\ at = 0 /\ checkpoint = 0
  /\ rows = {} /\ parts = 0 /\ restarts = 0

-----------------------------------------------------------------------------
(* Not the code: all tables are partitioned by their time of creation. *)
Partition_Created(l) == day

Partition(l) == IF ByCreation THEN day ELSE BlockDay[l]

(* An INSERT writes one part per partition; here it carries one line, and  *)
(* the line is not older than its own time.                                *)
Insert ==
  /\ at < NumLines /\ BlockDay[at + 1] <= day
  /\ at' = at + 1 /\ parts' = parts + 1
  /\ rows' = rows \union {[line |-> at + 1, partition |-> Partition(at + 1), part |-> parts + 1]}
  /\ UNCHANGED <<day, checkpoint, restarts>>

Save ==
  /\ checkpoint < at
  /\ checkpoint' = at
  /\ UNCHANGED <<day, at, rows, parts, restarts>>

Restart ==
  /\ restarts < MaxRestarts /\ restarts' = restarts + 1
  /\ at' = checkpoint
  /\ UNCHANGED <<day, checkpoint, rows, parts>>

Midnight ==
  /\ day < NumDays /\ day' = day + 1
  /\ UNCHANGED <<at, checkpoint, rows, parts, restarts>>

(* Rows that a merge can replace by one of them. *)
Mergeable(r, s) ==
  r # s /\ KeyOf[r.line] = KeyOf[s.line] /\ r.partition = s.partition

(* A background merge keeps the row of the newer part. *)
Merge ==
  /\ \E r, s \in rows : Mergeable(r, s) /\ r.part < s.part /\ rows' = rows \ {r}
  /\ UNCHANGED <<day, at, checkpoint, parts, restarts>>

Next == Insert \/ Save \/ Restart \/ Midnight \/ Merge

(* ClickHouse merges in its own time, but it does. *)
Spec     == Init /\ [][Next]_vars
FairSpec == Spec /\ WF_vars(Merge)

-----------------------------------------------------------------------------
(* README: "the ClickHouse tables use ReplacingMergeTree to avoid          *)
(* duplicates".  The copies of a row that a restart writes again are where *)
(* a merge finds them, however long the restart took.                      *)
CopiesMeet ==
  \A r, s \in rows : r # s /\ r.line = s.line => Mergeable(r, s)

(* Once the stream stays up, every line is left with one row. *)
DuplicatesGoAway == <>[](\A r, s \in rows : r.line = s.line => r = s)
=============================================================================
