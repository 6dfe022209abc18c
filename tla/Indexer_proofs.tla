--------------------------- MODULE Indexer_proofs ---------------------------
(***************************************************************************)
(* Proofs about Indexer (one stream end to end), for any number of files   *)
(* and lines, any capacities, errors, deletions, stops and restarts.       *)
(***************************************************************************)
EXTENDS Indexer, TLAPS, SequenceTheorems

IndexerConstants == TailerAssumption /\ IndexerAssumption

-----------------------------------------------------------------------------
(* Lines and positions as numbers. *)

LEMMA MulMono == \A x, y \in Int, m \in Nat : x <= y => x * m <= y * m
  OBVIOUS

LEMMA DivMod ==
  ASSUME NEW a \in Int, NEW m \in Nat, m > 0
  PROVE  a \div m \in Int /\ a % m \in 0 .. m - 1 /\ a = (a \div m) * m + (a % m)
OBVIOUS

LEMMA DivUnique ==
  ASSUME NEW m \in Nat, m > 0, NEW q \in Int, NEW r \in 0 .. m - 1
  PROVE  (q * m + r) \div m = q /\ (q * m + r) % m = r
OBVIOUS

(* Line k of file f, and back. *)
LEMMA Numbers ==
  ASSUME IndexerConstants, NEW f \in Files, NEW k \in 1 .. MaxLines
  PROVE  Id(f, k) \in 1 .. NumLines /\ FileOf(Id(f, k)) = f /\ LineOf(Id(f, k)) = k
<1>1. MaxLines \in Nat /\ MaxLines > 0 /\ NumFiles \in Nat /\ f - 1 \in 0 .. NumFiles - 1
      /\ k - 1 \in 0 .. MaxLines - 1
  BY DEF IndexerConstants, TailerAssumption, Files
<1>2. (f - 1) * MaxLines \in Int
  BY <1>1
<1>3. Id(f, k) - 1 = (f - 1) * MaxLines + (k - 1)
  BY <1>1, <1>2 DEF Id
<1>4. FileOf(Id(f, k)) = f /\ LineOf(Id(f, k)) = k
  <2>1. /\ ((f - 1) * MaxLines + (k - 1)) \div MaxLines = f - 1
        /\ ((f - 1) * MaxLines + (k - 1)) % MaxLines = k - 1
    <3> PICK q \in Int : q = f - 1
      BY <1>1
    <3> PICK i \in 0 .. MaxLines - 1 : i = k - 1
      BY <1>1
    <3>1. (q * MaxLines + i) \div MaxLines = q /\ (q * MaxLines + i) % MaxLines = i
      BY <1>1, DivUnique
    <3>2. QED
      BY <3>1
  <2>2. f \in Int /\ k \in Int /\ (f - 1) + 1 = f /\ (k - 1) + 1 = k
    BY <1>1 DEF Files
  <2>3. QED
    BY <1>3, <2>1, <2>2 DEF FileOf, LineOf
<1>5. 0 * MaxLines <= (f - 1) * MaxLines /\ (f - 1) * MaxLines <= (NumFiles - 1) * MaxLines
  BY <1>1, MulMono
<1>6. (NumFiles - 1) * MaxLines = NumLines - MaxLines /\ NumLines \in Int /\ 0 * MaxLines = 0
  BY <1>1 DEF NumLines
<1>7. Id(f, k) \in 1 .. NumLines
  BY <1>1, <1>2, <1>5, <1>6 DEF Id
<1>8. QED
  BY <1>4, <1>7

LEMMA Places ==
  ASSUME IndexerConstants, NEW p \in 1 .. NumLines
  PROVE  FileOf(p) \in Files /\ LineOf(p) \in 1 .. MaxLines /\ Id(FileOf(p), LineOf(p)) = p
<1>1. MaxLines \in Nat /\ MaxLines > 0 /\ NumFiles \in Nat /\ NumLines \in Nat
  BY DEF IndexerConstants, TailerAssumption, NumLines
<1> DEFINE q == (p - 1) \div MaxLines
           r == (p - 1) % MaxLines
<1>2. q \in Int /\ r \in 0 .. MaxLines - 1 /\ p - 1 = q * MaxLines + r
  BY <1>1, DivMod
<1>3. FileOf(p) = q + 1 /\ LineOf(p) = r + 1
  BY DEF FileOf, LineOf
<1> HIDE DEF q, r
<1>4. q >= 0
  <2>1. SUFFICES ASSUME q <= -1 PROVE FALSE
    BY <1>2
  <2>2. q * MaxLines <= (-1) * MaxLines
    BY <1>1, <1>2, <2>1, MulMono
  <2>3. QED
    BY <1>1, <1>2, <2>2
<1>5. q <= NumFiles - 1
  <2>1. SUFFICES ASSUME NumFiles <= q PROVE FALSE
    BY <1>1, <1>2
  <2>2. NumFiles * MaxLines <= q * MaxLines
    BY <1>1, <1>2, <2>1, MulMono
  <2>3. QED
    BY <1>1, <1>2, <2>2 DEF NumLines
<1>6. FileOf(p) \in Files /\ LineOf(p) \in 1 .. MaxLines
  BY <1>1, <1>2, <1>3, <1>4, <1>5 DEF Files
<1>7. (q + 1) - 1 = q /\ q * MaxLines \in Int
  BY <1>1, <1>2
<1>8. Id(FileOf(p), LineOf(p)) = q * MaxLines + (r + 1)
  BY <1>3, <1>7 DEF Id
<1>9. QED
  BY <1>1, <1>2, <1>6, <1>7, <1>8

(* Positions and lines are of what the node has written. *)
Positions == Written \union {NoPos}

TInv ==
  /\ IndexerTypeOK
  /\ follow = TRUE
  /\ active \in [1 .. 1 -> SUBSET Written] /\ durable \in [1 .. 1 -> SUBSET Written]
  /\ rows \in [1 .. 1 -> Nat]
  /\ {start, pending, checkpoint} \subseteq Positions
  /\ lineCh \in Seq(Written)
  /\ pc = "save" => why = "tick"
  /\ pc = "write" \/ (pc = "commit" /\ why = "event") => cur \in Written
  /\ \A f \in Files : f > newest => size[f] = 0

(* A line of a file that has it. *)
LEMMA WrittenLine ==
  ASSUME IndexerConstants, TInv, NEW f \in Files, NEW k \in 1 .. MaxLines
  PROVE  Id(f, k) \in Written <=> k <= size[f]
BY Numbers DEF Written

LEMMA WrittenPlace ==
  ASSUME IndexerConstants, TInv, NEW p \in Written
  PROVE  /\ p \in 1 .. NumLines /\ FileOf(p) \in Files /\ LineOf(p) \in 1 .. MaxLines
         /\ LineOf(p) <= size[FileOf(p)] /\ FileOf(p) <= newest
         /\ Id(FileOf(p), LineOf(p)) = p
<1>1. p \in 1 .. NumLines /\ LineOf(p) <= size[FileOf(p)]
  BY DEF Written
<1>2. FileOf(p) \in Files /\ LineOf(p) \in 1 .. MaxLines /\ Id(FileOf(p), LineOf(p)) = p
  BY <1>1, Places
<1>3. MaxLines \in Nat /\ newest \in Nat /\ NumFiles \in Nat
  BY DEF TInv, IndexerTypeOK, TypeOK, IndexerConstants, TailerAssumption, Files
<1>4. FileOf(p) \in Nat /\ size[FileOf(p)] > 0
  BY <1>1, <1>2, <1>3 DEF TInv, IndexerTypeOK, TypeOK, Files
<1>5. FileOf(p) <= newest
  BY <1>2, <1>3, <1>4 DEF TInv
<1>6. QED
  BY <1>1, <1>2, <1>5

-----------------------------------------------------------------------------
(* The runner's steps, with one table and no bad lines. *)

TakeLine ==
  /\ pc = "select" /\ lineCh # << >>
  /\ pc' = "write" /\ cur' = Head(lineCh) /\ lineCh' = Tail(lineCh)
  /\ UNCHANGED <<why, pending, active, durable, checkpoint>>

WriteLine ==
  /\ pc = "write" /\ pc' = "commit" /\ why' = "event"
  /\ active' = [active EXCEPT ![1] = @ \union {cur}]
  /\ UNCHANGED <<cur, lineCh, pending, durable, checkpoint>>

TickComes ==
  /\ pc = "select" /\ pc' = "commit" /\ why' = "tick"
  /\ UNCHANGED <<cur, lineCh, pending, active, durable, checkpoint>>

CommitRows ==
  /\ pc = "commit"
  /\ \/ /\ durable' = [durable EXCEPT ![1] = @ \union active[1]]
        /\ active' = [active EXCEPT ![1] = {}]
     \/ why = "event" /\ UNCHANGED <<active, durable>>
  /\ \/ why = "event" /\ pending' = cur /\ pc' = "select"
     \/ /\ why # "event" /\ UNCHANGED pending
        /\ pc' = IF pending # NoPos THEN "save" ELSE "select"
  /\ UNCHANGED <<cur, lineCh, why, checkpoint>>

SaveCheckpoint ==
  /\ pc = "save" /\ checkpoint' = pending /\ pc' = "select"
  /\ UNCHANGED <<cur, lineCh, why, pending, active, durable>>

RunnerDoes == TakeLine \/ WriteLine \/ TickComes \/ CommitRows \/ SaveCheckpoint

LEMMA RunnerIs ==
  ASSUME IndexerConstants, TInv, RunnerStep
  PROVE  /\ RunnerDoes /\ tbl' = 1
         /\ UNCHANGED <<node, watcher, thread, follow, crashes, owed>>
<1> DEFINE OneRow == [l \in 1 .. NumLines |-> [t \in 1 .. 1 |-> 1]]
<1>1. /\ tbl = 1 /\ follow = TRUE /\ phase # "gone" /\ why \in {"event", "tick"}
      /\ pc = "save" => why = "tick"
  BY DEF TInv, IndexerTypeOK, TypeOK
<1>2. UNCHANGED <<node, watcher, thread, crashes, owed>> /\ R!RunnerStep
  BY DEF RunnerStep
<1>3. ~ R!DropBad
  BY DEF R!DropBad
<1>4. ~ R!EndOfStream
  BY <1>1 DEF R!EndOfStream, ThreadGone
<1>5. CASE R!Take
  BY <1>1, <1>2, <1>5 DEF R!Take, R!source, R!storage, R!process, TakeLine, RunnerDoes
<1>6. CASE R!WriteTable
  <2>1. 1 \in R!RowsOf[cur]
    <3>1. cur \in 1 .. NumLines
      BY <1>6 DEF R!WriteTable, TInv, Written
    <3>2. OneRow[cur][1] = 1
      BY <3>1
    <3>3. QED
      BY <3>1, <3>2 DEF R!RowsOf, R!Lines, R!Tables
  <2>2. QED
    BY <1>1, <1>2, <1>6, <2>1 DEF R!WriteTable, R!StartCommit, R!source, R!process, WriteLine, RunnerDoes
<1>7. CASE R!Tick
  BY <1>1, <1>2, <1>7 DEF R!Tick, R!StartCommit, R!source, R!storage, R!process, TickComes, RunnerDoes
<1>8. CASE R!CommitTable
  BY <1>1, <1>2, <1>8 DEF R!CommitTable, R!EndInsert, R!AfterCommit, R!Onward, R!MayDefer, R!NoPos, NoPos,
     R!source, R!storage, R!process, CommitRows, RunnerDoes
<1>9. CASE R!Save
  BY <1>1, <1>2, <1>9 DEF R!Save, R!Onward, R!source, R!storage, R!process, SaveCheckpoint, RunnerDoes
<1>10. QED
  BY <1>2, <1>3, <1>4, <1>5, <1>6, <1>7, <1>8, <1>9 DEF R!RunnerStep

(* The rows of the open INSERT are counted. *)
LEMMA RowsCounted ==
  ASSUME IndexerConstants, TInv, RunnerStep
  PROVE  rows' \in [1 .. 1 -> Nat]
<1> DEFINE OneRow == [l \in 1 .. NumLines |-> [t \in 1 .. 1 |-> 1]]
<1>1. tbl = 1 /\ rows \in [1 .. 1 -> Nat] /\ rows[1] \in Nat
  BY DEF TInv, IndexerTypeOK
<1>2. R!RunnerStep
  BY DEF RunnerStep
<1>3. CASE R!WriteTable
  <2>1. cur \in 1 .. NumLines
    BY <1>3 DEF R!WriteTable, TInv, Written
  <2>2. OneRow[cur][1] = 1
    BY <2>1
  <2>3. rows' = [rows EXCEPT ![1] = @ + OneRow[cur][1]]
    BY <1>1, <1>3 DEF R!WriteTable
  <2>4. QED
    BY <1>1, <2>2, <2>3
<1>4. CASE R!CommitTable
  <2>1. rows' = rows \/ rows' = [rows EXCEPT ![1] = 0]
    BY <1>1, <1>4 DEF R!CommitTable, R!EndInsert, R!storage
  <2>2. QED
    BY <1>1, <2>1
<1>5. CASE R!DropBad \/ R!Take \/ R!Tick \/ R!EndOfStream \/ R!Save
  <2>1. rows' = rows
    BY <1>5 DEF R!DropBad, R!Take, R!Tick, R!EndOfStream, R!Save, R!storage
  <2>2. QED
    BY <1>1, <2>1
<1>6. QED
  BY <1>2, <1>3, <1>4, <1>5 DEF R!RunnerStep

-----------------------------------------------------------------------------
(* Types. *)

LEMMA InitTypes == IndexerConstants /\ IndexerInit => TInv
<1> SUFFICES ASSUME IndexerConstants, IndexerInit PROVE TInv
  OBVIOUS
<1>1. /\ MaxLines \in Nat /\ NumFiles \in Nat /\ NumFiles >= 1 /\ 1 \in Files
      /\ NotifyCap \in Nat /\ LineCap \in Nat
      /\ MaxErrors \in Nat /\ MaxPrunes \in Nat /\ MaxCrashes \in Nat
  BY DEF IndexerConstants, TailerAssumption, IndexerAssumption, Files
<1>2. oldest \in Files /\ newest \in oldest .. NumFiles
      /\ size \in [Files -> 0 .. MaxLines] /\ prunes \in 0 .. MaxPrunes
  BY <1>1 DEF IndexerInit, InitNode, Files
<1>3. NumLines \in Nat
  BY <1>1 DEF NumLines
<1>4. TypeOK
  <2>1. NoTails \in [Files -> 0 .. MaxLines \union {Untracked}]
    BY DEF NoTails
  <2>2. /\ watching = FALSE /\ unseen = {} /\ notifyQ = << >> /\ dropped = {}
        /\ phase = "collect" /\ start = 0 /\ todo = {} /\ sweeping = TRUE
        /\ hand = 1 /\ at = 0 /\ tails = NoTails /\ errors = 0 /\ sent = NoTails
        /\ lineCh = << >>
    BY DEF IndexerInit, InitThread, NoPos
  <2>3. notifyQ \in Seq(Files) /\ Len(notifyQ) = 0
        /\ lineCh \in Seq(1 .. NumLines) /\ Len(lineCh) = 0
    BY <2>2
  <2>4. watching \in BOOLEAN /\ unseen \subseteq NewDirs /\ dropped \subseteq Files
    BY <2>2
  <2>8. Len(notifyQ) <= NotifyCap /\ Len(lineCh) <= LineCap
    BY <1>1, <2>3
  <2>5. phase \in {"collect", "watch", "sweep", "read", "wait"} /\ start \in 0 .. NumLines
        /\ todo \subseteq Files /\ sweeping \in BOOLEAN /\ hand \in Files
    BY <1>1, <1>3, <2>2
  <2>6. at \in 0 .. MaxLines /\ errors \in 0 .. MaxErrors
        /\ tails \in [Files -> 0 .. MaxLines \union {Untracked}]
        /\ sent \in [Files -> 0 .. MaxLines \union {Untracked}]
    BY <1>1, <2>1, <2>2
  <2>7. QED
    BY <1>2, <2>3, <2>4, <2>5, <2>6, <2>8 DEF TypeOK
<1>5. /\ active = [t \in 1 .. 1 |-> {}] /\ durable = [t \in 1 .. 1 |-> {}]
      /\ rows = [t \in 1 .. 1 |-> 0]
  BY DEF IndexerInit, R!Empty, R!NoRows, R!Tables
<1>6. QED
  BY <1>1, <1>2, <1>3, <1>4, <1>5
     DEF TInv, IndexerTypeOK, IndexerInit, InitNode, InitThread, NoPos, Positions

(* What is written stays written. *)
LEMMA WrittenGrows ==
  ASSUME IndexerConstants, TypeOK, TypeOK', \A f \in Files : size[f] <= size'[f]
  PROVE  Written \subseteq Written'
<1> SUFFICES ASSUME NEW p \in Written PROVE p \in Written'
  OBVIOUS
<1>1. p \in 1 .. NumLines /\ LineOf(p) <= size[FileOf(p)] /\ FileOf(p) \in Files
      /\ LineOf(p) \in 1 .. MaxLines
  BY Places DEF Written
<1>2. size[FileOf(p)] <= size'[FileOf(p)] /\ size[FileOf(p)] \in Int
      /\ size'[FileOf(p)] \in Int /\ LineOf(p) \in Int
  BY <1>1 DEF TypeOK
<1>3. LineOf(p) <= size'[FileOf(p)]
  BY <1>1, <1>2
<1>4. QED
  BY <1>1, <1>3 DEF Written

LEMMA NotifyType ==
  ASSUME TypeOK, NEW f \in Files, NotifyCap \in Nat, Notify(f)
  PROVE  /\ notifyQ' \in Seq(Files) /\ Len(notifyQ') <= NotifyCap
         /\ dropped' \subseteq Files /\ UNCHANGED <<watching, unseen>>
<1>1. notifyQ \in Seq(Files) /\ Len(notifyQ) \in Nat /\ Len(notifyQ) <= NotifyCap
  BY DEF TypeOK
<1>2. /\ notifyQ' = notifyQ \/ (notifyQ' = Append(notifyQ, f) /\ Len(notifyQ) < NotifyCap)
      /\ UNCHANGED <<watching, unseen>>
  BY DEF Notify
<1>3. dropped' \subseteq Files
  <2>1. dropped' \subseteq dropped \union {f}
    BY DEF Notify
  <2>2. QED
    BY <2>1 DEF TypeOK
<1>4. Append(notifyQ, f) \in Seq(Files) /\ Len(Append(notifyQ, f)) = Len(notifyQ) + 1
  BY <1>1
<1>5. QED
  BY <1>1, <1>2, <1>3, <1>4

LEMMA NodeType ==
  ASSUME IndexerConstants, TInv
  PROVE  /\ TypeOK /\ NotifyCap \in Nat /\ LineCap \in Nat /\ MaxLines \in Nat /\ NumFiles \in Nat
         /\ MaxPrunes \in Nat /\ MaxErrors \in Nat /\ MaxCrashes \in Nat /\ NumLines \in Nat
         /\ newest \in Files /\ oldest \in Files /\ oldest <= newest
         /\ newest \in Nat /\ oldest \in Nat /\ Files = 1 .. NumFiles
<1>1. /\ NotifyCap \in Nat /\ LineCap \in Nat /\ MaxLines \in Nat /\ NumFiles \in Nat
      /\ MaxPrunes \in Nat /\ MaxErrors \in Nat /\ MaxCrashes \in Nat
  BY DEF IndexerConstants, TailerAssumption, IndexerAssumption
<1>2. NumLines \in Nat
  BY <1>1 DEF NumLines
<1>3. TypeOK
  BY DEF TInv, IndexerTypeOK
<1>4. oldest \in Files /\ newest \in oldest .. NumFiles
  BY <1>3 DEF TypeOK
<1>5. QED
  BY <1>1, <1>2, <1>3, <1>4 DEF Files

LEMMA AppendTypes ==
  ASSUME IndexerConstants, TInv, Append1
  PROVE  TInv'
<1> USE DEF Append1, NodeAppend
<1>1. TypeOK /\ newest \in Files /\ NotifyCap \in Nat /\ MaxLines \in Nat /\ NumFiles \in Nat
      /\ newest \in Nat
  BY NodeType
<1>2. UNCHANGED <<oldest, newest, prunes, thread, lineCh, runner>> /\ Notify(newest)
  OBVIOUS
<1>3. size[newest] \in Nat /\ size[newest] < MaxLines
  BY <1>1 DEF TypeOK
<1>4. size' \in [Files -> 0 .. MaxLines] /\ \A f \in Files : size[f] <= size'[f]
  <2>1. size \in [Files -> 0 .. MaxLines]
    BY <1>1 DEF TypeOK
  <2>2. size' = [size EXCEPT ![newest] = size[newest] + 1]
    BY <1>1, <2>1
  <2>3. size[newest] + 1 \in 0 .. MaxLines
    BY <1>1, <1>3
  <2>4. \A f \in Files : size'[f] = IF f = newest THEN size[newest] + 1 ELSE size[f]
    BY <1>1, <2>1, <2>2
  <2>5. \A f \in Files : size[f] \in Int
    BY <2>1
  <2>6. size' \in [Files -> 0 .. MaxLines]
    BY <2>1, <2>2, <2>3
  <2>7. \A f \in Files : size[f] <= size'[f]
    BY <2>4, <2>5
  <2>8. QED
    BY <2>6, <2>7
<1>5. TypeOK'
  BY <1>1, <1>2, <1>4, NotifyType DEF TypeOK, thread
<1>6. Written \subseteq Written'
  BY <1>1, <1>4, <1>5, WrittenGrows
<1>7. Id(newest, size[newest] + 1) \in Written'
  <2>1. size[newest] + 1 \in 1 .. MaxLines /\ size'[newest] = size[newest] + 1
    BY <1>1, <1>3 DEF TypeOK
  <2>2. QED
    BY <1>1, <1>3, <2>1, Numbers DEF Written
<1>8. owed' \subseteq Written'
  BY <1>6, <1>7 DEF TInv, IndexerTypeOK
<1>9. \A f \in Files : f > newest' => size'[f] = 0
  BY <1>1, <1>2 DEF TInv, TypeOK
<1>10. lineCh' \in Seq(Written')
  <2>1. lineCh \in Seq(Written)
    BY DEF TInv
  <2>2. QED
    BY <1>2, <1>6, <2>1, SeqMonotonic
<1>11. active' \in [1 .. 1 -> SUBSET Written'] /\ durable' \in [1 .. 1 -> SUBSET Written']
  BY <1>2, <1>6 DEF TInv, runner
<1>12. /\ {start, pending, checkpoint}' \subseteq Positions'
       /\ pc' = "write" \/ (pc' = "commit" /\ why' = "event") => cur' \in Written'
  BY <1>2, <1>6 DEF TInv, Positions, runner, thread
<1>13. IndexerTypeOK'
  BY <1>2, <1>5, <1>8, <1>11 DEF TInv, IndexerTypeOK, runner
<1>14. QED
  BY <1>2, <1>9, <1>10, <1>11, <1>12, <1>13 DEF TInv, runner

(* Steps that write no line: the facts about lines are those about what is *)
(* changed.                                                                *)
LEMMA SameLines ==
  ASSUME TInv, TypeOK', UNCHANGED <<size, runner, owed>>, newest <= newest',
         newest \in Int, newest' \in Int, Files \subseteq Int,
         start' = start \/ start' = checkpoint, lineCh' \in Seq(Written)
  PROVE  TInv'
<1>1. Written' = Written /\ Positions' = Positions
  BY DEF Written, Positions
<1>2. \A f \in Files : f > newest' => size'[f] = 0
  BY DEF TInv
<1>3. QED
  BY <1>1, <1>2 DEF TInv, IndexerTypeOK, runner

LEMMA NodeTypes ==
  ASSUME IndexerConstants, TInv, Rotate \/ Prune \/ WatchNewDir
  PROVE  TInv'
<1>1. /\ TypeOK /\ newest \in Files /\ oldest \in Files /\ oldest <= newest
      /\ NumFiles \in Nat /\ MaxPrunes \in Nat /\ Files = 1 .. NumFiles
      /\ lineCh \in Seq(Written)
  BY NodeType DEF TInv
<1>2. CASE Rotate
  <2>1. newest' = newest + 1 /\ newest < NumFiles
        /\ UNCHANGED <<oldest, size, prunes, watching, notifyQ, dropped, thread, lineCh, runner, owed>>
    BY <1>2 DEF Rotate, NodeRotate
  <2>2. unseen' \subseteq NewDirs
    BY <1>1, <1>2 DEF Rotate, NodeRotate, TypeOK
  <2>3. TypeOK'
    BY <1>1, <2>1, <2>2 DEF TypeOK, thread
  <2>4. QED
    BY <1>1, <2>1, <2>3, SameLines DEF thread
<1>3. CASE Prune
  <2>1. oldest' = oldest + 1 /\ oldest < newest /\ prunes < MaxPrunes /\ prunes' = prunes + 1
        /\ UNCHANGED <<newest, size, watcher, thread, lineCh, runner, owed>>
    BY <1>3 DEF Prune, NodePrune
  <2>2. TypeOK'
    BY <1>1, <2>1 DEF TypeOK, thread, watcher
  <2>3. QED
    BY <1>1, <2>1, <2>2, SameLines DEF thread
<1>4. CASE WatchNewDir
  <2>1. unseen' \subseteq unseen
        /\ UNCHANGED <<node, watching, notifyQ, dropped, thread, lineCh, runner, owed>>
    BY <1>4 DEF WatchNewDir, DirWatched
  <2>2. TypeOK'
    BY <1>1, <2>1 DEF TypeOK, thread, node
  <2>3. QED
    BY <1>1, <2>1, <2>2, SameLines DEF thread, node
<1>5. QED
  BY <1>2, <1>3, <1>4

Saved == Positions \intersect (0 .. NumLines)

(* A step of the runner changes these parts of the invariant only. *)
LEMMA RunnerParts ==
  ASSUME TInv, TypeOK', Written' = Written, lineCh' \in Seq(Written),
         UNCHANGED <<size, newest, start, owed, crashes, follow, tbl>>,
         pc' \in {"select", "write", "commit", "save"}, why' \in {"event", "tick"},
         cur' \in 0 .. NumLines, pending' \in Saved, checkpoint' \in Saved,
         active' \in [1 .. 1 -> SUBSET Written], durable' \in [1 .. 1 -> SUBSET Written],
         rows' \in [1 .. 1 -> Nat],
         pc' = "save" => why' = "tick",
         pc' = "write" \/ (pc' = "commit" /\ why' = "event") => cur' \in Written
  PROVE  TInv'
<1>1. Positions' = Positions
  BY DEF Positions
<1>2. IndexerTypeOK'
  <2>1. tbl' = 1 /\ crashes' \in 0 .. MaxCrashes /\ owed' \subseteq Written
    BY DEF TInv, IndexerTypeOK
  <2>2. active'[1] \subseteq Written /\ durable'[1] \subseteq Written /\ rows'[1] \in Nat
    OBVIOUS
  <2>3. {cur', pending', checkpoint'} \subseteq 0 .. NumLines
    BY DEF Saved
  <2>4. QED
    BY <2>1, <2>2, <2>3 DEF IndexerTypeOK
<1>3. follow' = TRUE /\ start' \in Positions /\ \A f \in Files : f > newest' => size'[f] = 0
  BY DEF TInv
<1>4. {start', pending', checkpoint'} \subseteq Positions
  BY <1>3 DEF Saved
<1>5. QED
  BY <1>1, <1>2, <1>3, <1>4 DEF TInv

LEMMA RunnerTypes ==
  ASSUME IndexerConstants, TInv, RunnerStep
  PROVE  TInv'
<1>1. RunnerDoes /\ tbl' = 1 /\ UNCHANGED <<node, watcher, thread, follow, crashes, owed>>
  BY RunnerIs
<1>2. Written' = Written /\ Positions' = Positions
  BY <1>1 DEF Written, Positions, node
<1>3. lineCh \in Seq(Written) /\ Written \subseteq 1 .. NumLines
      /\ Len(lineCh) <= LineCap /\ Len(lineCh) \in Nat /\ LineCap \in Nat
  <2>1. lineCh \in Seq(Written) /\ Written \subseteq 1 .. NumLines
    BY DEF TInv, Written
  <2>2. Len(lineCh) <= LineCap /\ LineCap \in Nat
    BY NodeType DEF TypeOK
  <2>3. QED
    BY <2>1, <2>2
<1>4. lineCh' \in Seq(Written) /\ Len(lineCh') <= LineCap
  <2>1. lineCh' = lineCh \/ (lineCh # << >> /\ lineCh' = Tail(lineCh))
    BY <1>1 DEF RunnerDoes, TakeLine, WriteLine, TickComes, CommitRows, SaveCheckpoint
  <2>2. lineCh # << >> => Tail(lineCh) \in Seq(Written) /\ Len(Tail(lineCh)) = Len(lineCh) - 1
    BY <1>3
  <2>3. QED
    BY <1>3, <2>1, <2>2
<1>5. TypeOK'
  <2>1. lineCh' \in Seq(1 .. NumLines)
    BY <1>3, <1>4, SeqMonotonic
  <2>2. QED
    BY <1>1, <1>4, <2>1, NodeType DEF TypeOK, node, watcher, thread
<1>6. /\ cur \in 0 .. NumLines /\ pending \in Saved /\ checkpoint \in Saved
      /\ active \in [1 .. 1 -> SUBSET Written] /\ durable \in [1 .. 1 -> SUBSET Written]
      /\ why \in {"event", "tick"}
      /\ pc = "save" => why = "tick"
      /\ pc = "write" \/ (pc = "commit" /\ why = "event") => cur \in Written
      /\ tbl = 1
  BY DEF TInv, IndexerTypeOK, Saved
<1>7. UNCHANGED <<size, newest, start, owed, crashes, follow, tbl>>
  BY <1>1, <1>6 DEF node, thread
<1>7a. rows' \in [1 .. 1 -> Nat]
  BY RowsCounted
<1>8. CASE TakeLine
  <2>1. cur' \in Written /\ cur' \in 0 .. NumLines
    <3>1. lineCh # << >> /\ cur' = Head(lineCh)
      BY <1>8 DEF TakeLine
    <3>2. Head(lineCh) \in Written
      BY <1>3, <3>1
    <3>3. NumLines \in Nat /\ Written \subseteq 1 .. NumLines
      BY <1>3, NodeType
    <3>4. cur' \in Written
      BY <3>1, <3>2
    <3>5. cur' \in 1 .. NumLines
      BY <3>3, <3>4
    <3>6. QED
      BY <3>3, <3>4, <3>5
  <2>2. pc' = "write" /\ UNCHANGED <<why, pending, active, durable, checkpoint>>
    BY <1>8 DEF TakeLine
  <2>3. QED
    BY <1>2, <1>4, <1>5, <1>6, <1>7, <1>7a, <2>1, <2>2, RunnerParts
<1>9. CASE WriteLine
  <2>1. active' \in [1 .. 1 -> SUBSET Written]
    BY <1>6, <1>9 DEF WriteLine
  <2>2. pc = "write" /\ pc' = "commit" /\ why' = "event" /\ UNCHANGED <<cur, pending, durable, checkpoint>>
    BY <1>9 DEF WriteLine
  <2>3. QED
    BY <1>2, <1>4, <1>5, <1>6, <1>7, <1>7a, <2>1, <2>2, RunnerParts
<1>10. CASE TickComes
  <2>1. pc' = "commit" /\ why' = "tick" /\ UNCHANGED <<cur, pending, active, durable, checkpoint>>
    BY <1>10 DEF TickComes
  <2>2. QED
    BY <1>2, <1>4, <1>5, <1>6, <1>7, <1>7a, <2>1, RunnerParts
<1>11. CASE CommitRows
  <2>1. active' \in [1 .. 1 -> SUBSET Written] /\ durable' \in [1 .. 1 -> SUBSET Written]
    BY <1>6, <1>11 DEF CommitRows
  <2>2. UNCHANGED <<cur, why, checkpoint>>
    BY <1>11 DEF CommitRows
  <2>3. ASSUME why = "event" PROVE pending' = cur /\ pc' = "select" /\ cur \in Saved
    BY <1>6, <1>11, <2>3 DEF CommitRows, Saved, Positions
  <2>4. ASSUME why # "event" PROVE pending' = pending /\ pc' \in {"select", "save"}
    BY <1>11, <2>4 DEF CommitRows
  <2>5. pending' \in Saved /\ pc' \in {"select", "save"} /\ (pc' = "save" => why' = "tick")
    BY <1>6, <2>2, <2>3, <2>4
  <2>6. QED
    BY <1>2, <1>4, <1>5, <1>6, <1>7, <1>7a, <2>1, <2>2, <2>5, RunnerParts
<1>12. CASE SaveCheckpoint
  <2>1. pc' = "select" /\ checkpoint' = pending /\ UNCHANGED <<cur, why, pending, active, durable>>
    BY <1>12 DEF SaveCheckpoint
  <2>2. QED
    BY <1>2, <1>4, <1>5, <1>6, <1>7, <1>7a, <2>1, RunnerParts
<1>13. QED
  BY <1>1, <1>8, <1>9, <1>10, <1>11, <1>12 DEF RunnerDoes

(* A stop: some rows of the open INSERT are in the table, the others gone. *)
LEMMA StopIs ==
  ASSUME TInv, Stop
  PROVE  /\ pc # "down" /\ crashes < MaxCrashes /\ crashes' = crashes + 1
         /\ active' = [t \in 1 .. 1 |-> {}] /\ rows' = [t \in 1 .. 1 |-> 0]
         /\ durable' \in [1 .. 1 -> SUBSET Written]
         /\ durable[1] \subseteq durable'[1]
         /\ lineCh' = << >> /\ pending' = NoPos /\ pc' = "down"
         /\ watching' = FALSE /\ unseen' = {} /\ notifyQ' = << >> /\ dropped' = {}
         /\ UNCHANGED <<cur, tbl, why, checkpoint, follow, node, thread, owed>>
<1>1. R!CrashRunner
  BY DEF Stop
<1>2. PICK landed :
        durable' = [t \in 1 .. 1 |-> durable[t] \union {l \in active[t] : <<t, l>> \in landed}]
  BY <1>1 DEF R!CrashRunner, R!Tables
<1>3. durable' \in [1 .. 1 -> SUBSET Written] /\ durable[1] \subseteq durable'[1]
  BY <1>2 DEF TInv
<1>4. active' = [t \in 1 .. 1 |-> {}] /\ rows' = [t \in 1 .. 1 |-> 0]
  BY <1>1 DEF R!CrashRunner, R!Empty, R!NoRows, R!Tables
<1>5. QED
  BY <1>1, <1>3, <1>4 DEF R!CrashRunner, R!NoPos, NoPos, Stop

LEMMA StopTypes ==
  ASSUME IndexerConstants, TInv, Stop
  PROVE  TInv'
<1>1. /\ crashes' = crashes + 1 /\ crashes < MaxCrashes
      /\ active' = [t \in 1 .. 1 |-> {}] /\ durable' \in [1 .. 1 -> SUBSET Written]
      /\ rows' = [t \in 1 .. 1 |-> 0]
      /\ lineCh' = << >> /\ pending' = NoPos /\ pc' = "down"
      /\ watching' = FALSE /\ unseen' = {} /\ notifyQ' = << >> /\ dropped' = {}
      /\ UNCHANGED <<cur, tbl, why, checkpoint, follow, node, thread, owed>>
  BY StopIs
<1>2. Written' = Written /\ Positions' = Positions
  BY <1>1 DEF Written, Positions, node
<1>3. TypeOK'
  <2>1. notifyQ' \in Seq(Files) /\ Len(notifyQ') = 0
        /\ lineCh' \in Seq(1 .. NumLines) /\ Len(lineCh') = 0
    BY <1>1
  <2>2. TypeOK /\ NotifyCap \in Nat /\ LineCap \in Nat
    BY NodeType
  <2>3. watching' \in BOOLEAN /\ unseen' \subseteq NewDirs /\ dropped' \subseteq Files
    BY <1>1
  <2>4. Len(notifyQ') <= NotifyCap /\ Len(lineCh') <= LineCap
    BY <2>1, <2>2
  <2>5. QED
    BY <1>1, <2>1, <2>2, <2>3, <2>4 DEF TypeOK, node, thread
<1>4. lineCh' \in Seq(Written')
  BY <1>1
<1>5. IndexerTypeOK'
  <2>1. /\ {cur, checkpoint} \subseteq 0 .. NumLines /\ why \in {"event", "tick"} /\ tbl = 1
        /\ crashes \in 0 .. MaxCrashes /\ owed \subseteq Written
    BY DEF TInv, IndexerTypeOK
  <2>2. NoPos \in 0 .. NumLines /\ crashes' \in 0 .. MaxCrashes
    BY <1>1, <2>1, NodeType DEF NoPos
  <2>3. active'[1] \subseteq Written /\ durable'[1] \subseteq Written /\ rows'[1] \in Nat
    BY <1>1
  <2>4. QED
    BY <1>1, <1>2, <1>3, <2>1, <2>2, <2>3 DEF IndexerTypeOK
<1>6. /\ start' \in Positions /\ checkpoint' \in Positions /\ pending' \in Positions
      /\ \A f \in Files : f > newest' => size'[f] = 0
  BY <1>1 DEF TInv, Positions, node, thread
<1>7. active' \in [1 .. 1 -> SUBSET Written] /\ rows' \in [1 .. 1 -> Nat]
  BY <1>1
<1>8. QED
  BY <1>1, <1>2, <1>4, <1>5, <1>6, <1>7 DEF TInv

LEMMA StartIs ==
  ASSUME TInv, Start
  PROVE  /\ pc = "down" /\ pc' = "select"
         /\ phase' = "collect" /\ start' = checkpoint /\ todo' = {} /\ sweeping' = TRUE
         /\ hand' = 1 /\ at' = 0 /\ tails' = NoTails /\ sent' = NoTails
         /\ UNCHANGED <<node, watcher, errors, owed, lineCh, cur, tbl, why, pending, active,
                        rows, durable, checkpoint, follow, crashes>>
BY DEF Start, R!RestartRunner, R!storage, R!process

LEMMA StartTypes ==
  ASSUME IndexerConstants, TInv, Start
  PROVE  TInv'
<1>1. /\ pc' = "select"
      /\ phase' = "collect" /\ start' = checkpoint /\ todo' = {} /\ sweeping' = TRUE
      /\ hand' = 1 /\ at' = 0 /\ tails' = NoTails /\ sent' = NoTails
      /\ UNCHANGED <<node, watcher, errors, owed, lineCh, cur, tbl, why, pending, active,
                     rows, durable, checkpoint, follow, crashes>>
  BY StartIs
<1>2. Written' = Written /\ Positions' = Positions
  BY <1>1 DEF Written, Positions, node
<1>3. TypeOK'
  <2>1. NoTails \in [Files -> 0 .. MaxLines \union {Untracked}]
    BY DEF NoTails
  <2>2. checkpoint \in 0 .. NumLines
    BY DEF TInv, IndexerTypeOK
  <2>3. 1 \in Files /\ 0 \in 0 .. MaxLines
    BY NodeType
  <2>4. TypeOK
    BY NodeType
  <2>5. QED
    BY <1>1, <2>1, <2>2, <2>3, <2>4 DEF TypeOK, node, watcher
<1>4. UNCHANGED <<newest, size>>
  BY <1>1 DEF node
<1>5. IndexerTypeOK'
  BY <1>1, <1>2, <1>3 DEF TInv, IndexerTypeOK
<1>6. /\ {start, pending, checkpoint}' \subseteq Positions /\ lineCh' \in Seq(Written)
      /\ \A f \in Files : f > newest' => size'[f] = 0
  BY <1>1, <1>4 DEF TInv
<1>7. QED
  BY <1>1, <1>2, <1>5, <1>6 DEF TInv

-----------------------------------------------------------------------------
(* The tailer thread: what may change, step by step. *)

ThreadParts ==
  /\ phase' \in {"collect", "watch", "sweep", "read", "wait"}
  /\ watching' \in BOOLEAN /\ unseen' \subseteq NewDirs
  /\ notifyQ' \in Seq(Files) /\ Len(notifyQ') <= NotifyCap
  /\ todo' \subseteq Files /\ sweeping' \in BOOLEAN
  /\ hand' \in Files /\ at' \in 0 .. MaxLines
  /\ tails' \in [Files -> 0 .. MaxLines \union {Untracked}]
  /\ sent' \in [Files -> 0 .. MaxLines \union {Untracked}]
  /\ errors' \in 0 .. MaxErrors
  /\ lineCh' \in Seq(Written) /\ Len(lineCh') <= LineCap

LEMMA ThreadTypes ==
  ASSUME IndexerConstants, TInv, ThreadParts, UNCHANGED <<node, dropped, start, runner, owed>>
  PROVE  TInv'
<1>1. /\ TypeOK /\ newest \in Nat /\ Files \subseteq Int /\ Written \subseteq 1 .. NumLines
  BY NodeType DEF Written
<1>2. lineCh' \in Seq(1 .. NumLines)
  BY <1>1, SeqMonotonic DEF ThreadParts
<1>3. TypeOK'
  BY <1>1, <1>2 DEF TypeOK, ThreadParts, node
<1>4. UNCHANGED <<size, newest>> /\ newest <= newest'
  BY <1>1 DEF node
<1>5. QED
  BY <1>1, <1>3, <1>4, SameLines DEF ThreadParts

(* The same, for what a step leaves alone. *)
LEMMA ThreadHas ==
  ASSUME IndexerConstants, TInv
  PROVE  /\ phase \in {"collect", "watch", "sweep", "read", "wait"}
         /\ watching \in BOOLEAN /\ unseen \subseteq NewDirs
         /\ notifyQ \in Seq(Files) /\ Len(notifyQ) <= NotifyCap
         /\ todo \subseteq Files /\ sweeping \in BOOLEAN
         /\ hand \in Files /\ at \in 0 .. MaxLines
         /\ tails \in [Files -> 0 .. MaxLines \union {Untracked}]
         /\ sent \in [Files -> 0 .. MaxLines \union {Untracked}]
         /\ errors \in 0 .. MaxErrors
         /\ lineCh \in Seq(Written) /\ Len(lineCh) <= LineCap
         /\ size \in [Files -> 0 .. MaxLines] /\ start \in Positions
         /\ MaxLines \in Nat /\ MaxErrors \in Nat /\ Files = 1 .. NumFiles /\ NumFiles \in Nat
         /\ LineCap \in Nat /\ NotifyCap \in Nat /\ Untracked = -1
<1>1. lineCh \in Seq(Written) /\ start \in Positions
  BY DEF TInv
<1>2. QED
  BY <1>1, NodeType DEF TypeOK, Untracked

LEMMA SweepFromType ==
  ASSUME IndexerConstants, TInv, NEW f \in Files
  PROVE  SweepFrom(f) \in 0 .. MaxLines
<1>1. start = NoPos \/ start \in Written
  BY DEF TInv, Positions
<1>2. start \in Written => LineOf(start) \in 1 .. MaxLines
  BY WrittenPlace
<1>3. MaxLines \in Nat
  BY NodeType
<1>4. QED
  BY <1>1, <1>2, <1>3 DEF SweepFrom

LEMMA ErrorType ==
  ASSUME IndexerConstants, TInv, Error \/ UNCHANGED errors
  PROVE  errors' \in 0 .. MaxErrors
BY ThreadHas DEF Error

LEMMA SweepTypes ==
  ASSUME IndexerConstants, TInv, TailerStep,
         Collect \/ Watch \/ SweepOpen \/ SweepSkip \/ SweepDone
  PROVE  TInv'
<1>1. UNCHANGED <<runner, owed>>
  BY DEF TailerStep
<1>2. CASE Collect
  <2>1. todo' \subseteq Files
    BY <1>2, NodeType DEF Collect, SeekTo, Existing
  <2>2. /\ phase' = "watch"
        /\ UNCHANGED <<node, watcher, start, sweeping, hand, at, tails, errors, sent, lineCh>>
    BY <1>2 DEF Collect
  <2>3. ThreadParts
    BY <2>1, <2>2, ThreadHas DEF ThreadParts, watcher
  <2>4. QED
    BY <1>1, <2>2, <2>3, ThreadTypes DEF watcher
<1>3. CASE Watch
  <2>1. /\ watching' = TRUE /\ unseen' = {} /\ phase' = "sweep"
        /\ UNCHANGED <<node, notifyQ, dropped, start, todo, sweeping, hand, at, tails, errors,
                       sent, lineCh>>
    BY <1>3 DEF Watch
  <2>2. ThreadParts
    BY <2>1, ThreadHas DEF ThreadParts
  <2>3. QED
    BY <1>1, <2>1, <2>2, ThreadTypes
<1>4. CASE SweepOpen
  <2>1. PICK f \in Existing : NextFile(f) /\ todo' = todo \ {f} /\ hand' = f /\ at' = SweepFrom(f)
    BY <1>4 DEF SweepOpen
  <2>2. f \in Files /\ todo' \subseteq Files
    BY <2>1, ThreadHas DEF NextFile
  <2>3. at' \in 0 .. MaxLines
    BY <2>1, <2>2, SweepFromType
  <2>4. phase' = "read" /\ UNCHANGED <<node, watcher, start, sweeping, tails, errors, sent, lineCh>>
    BY <1>4 DEF SweepOpen
  <2>5. ThreadParts
    BY <2>1, <2>2, <2>3, <2>4, ThreadHas DEF ThreadParts, watcher
  <2>6. QED
    BY <1>1, <2>4, <2>5, ThreadTypes DEF watcher
<1>5. CASE SweepSkip
  <2>1. PICK f \in Files : /\ todo' = todo \ {f}
                           /\ IF f \in Existing THEN Error ELSE UNCHANGED errors
    BY <1>5 DEF SweepSkip
  <2>2. todo' \subseteq Files /\ errors' \in 0 .. MaxErrors
    BY <2>1, ThreadHas, ErrorType
  <2>3. UNCHANGED <<node, watcher, phase, start, sweeping, hand, at, tails, sent, lineCh>>
    BY <1>5 DEF SweepSkip
  <2>4. ThreadParts
    BY <2>2, <2>3, ThreadHas DEF ThreadParts, watcher
  <2>5. QED
    BY <1>1, <2>3, <2>4, ThreadTypes DEF watcher
<1>6. CASE SweepDone
  <2>1. /\ sweeping' = FALSE /\ phase' = "wait"
        /\ UNCHANGED <<node, watcher, start, todo, hand, at, tails, errors, sent, lineCh>>
    BY <1>6 DEF SweepDone
  <2>2. ThreadParts
    BY <2>1, ThreadHas DEF ThreadParts, watcher
  <2>3. QED
    BY <1>1, <2>1, <2>2, ThreadTypes DEF watcher
<1>7. QED
  BY <1>2, <1>3, <1>4, <1>5, <1>6

(* An event leaves the queue. *)
LEMMA TakeEventType ==
  ASSUME IndexerConstants, TInv, notifyQ # << >>, TakeEvent
  PROVE  /\ Head(notifyQ) \in Files
         /\ notifyQ' \in Seq(Files) /\ Len(notifyQ') <= NotifyCap
<1>1. notifyQ \in Seq(Files) /\ Len(notifyQ) <= NotifyCap /\ NotifyCap \in Nat
  BY ThreadHas
<1>2. Head(notifyQ) \in Files /\ Tail(notifyQ) \in Seq(Files) /\ Len(Tail(notifyQ)) = Len(notifyQ) - 1
  BY <1>1
<1>3. QED
  BY <1>1, <1>2 DEF TakeEvent

LEMMA FollowTypes ==
  ASSUME IndexerConstants, TInv, TailerStep, Notified \/ NotifiedSkip
  PROVE  TInv'
<1>1. UNCHANGED <<runner, owed>>
  BY DEF TailerStep
<1>2. CASE Notified
  <2> DEFINE f == Head(notifyQ)
  <2>1. /\ notifyQ # << >> /\ TakeEvent /\ phase' = "read" /\ hand' = f /\ at' = TailOf(f)
        /\ tails' = [tails EXCEPT ![f] = TailOf(f)]
        /\ UNCHANGED <<node, watching, unseen, dropped, start, todo, sweeping, errors, sent, lineCh>>
    BY <1>2 DEF Notified
  <2>2. f \in Files /\ notifyQ' \in Seq(Files) /\ Len(notifyQ') <= NotifyCap
    BY <2>1, TakeEventType
  <2>3. TailOf(f) \in 0 .. MaxLines
    BY <2>2, ThreadHas DEF TailOf
  <2>4. tails' \in [Files -> 0 .. MaxLines \union {Untracked}]
    BY <2>1, <2>2, <2>3, ThreadHas
  <2>5. ThreadParts
    BY <2>1, <2>2, <2>3, <2>4, ThreadHas DEF ThreadParts
  <2>6. QED
    BY <1>1, <2>1, <2>5, ThreadTypes
<1>3. CASE NotifiedSkip
  <2>1. /\ notifyQ # << >> /\ TakeEvent
        /\ Error \/ UNCHANGED errors
        /\ UNCHANGED <<node, watching, unseen, dropped, phase, start, todo, sweeping, hand, at,
                       tails, sent, lineCh>>
    BY <1>3 DEF NotifiedSkip
  <2>2. notifyQ' \in Seq(Files) /\ Len(notifyQ') <= NotifyCap /\ errors' \in 0 .. MaxErrors
    BY <2>1, TakeEventType, ErrorType
  <2>3. ThreadParts
    BY <2>1, <2>2, ThreadHas DEF ThreadParts
  <2>4. QED
    BY <1>1, <2>1, <2>3, ThreadTypes
<1>4. QED
  BY <1>2, <1>3

LEMMA ReadTypes ==
  ASSUME IndexerConstants, TInv, TailerStep, Emit \/ ReadEnd \/ ReadError
  PROVE  TInv'
<1>1. UNCHANGED <<runner, owed>>
  BY DEF TailerStep
<1>2. CASE Emit
  <2>1. /\ at < size[hand] /\ Len(lineCh) < LineCap /\ at' = at + 1
        /\ lineCh' = Append(lineCh, Id(hand, at + 1)) /\ sent' = [sent EXCEPT ![hand] = at + 1]
        /\ UNCHANGED <<node, watcher, phase, start, todo, sweeping, hand, tails, errors>>
    BY <1>2 DEF Emit, HasRoom
  <2>2. at + 1 \in 1 .. MaxLines /\ at + 1 <= size[hand]
    <3>1. size[hand] \in 0 .. MaxLines /\ at \in 0 .. MaxLines /\ MaxLines \in Nat
      BY ThreadHas
    <3>2. QED
      BY <2>1, <3>1
  <2>3. Id(hand, at + 1) \in Written
    BY <2>2, ThreadHas, WrittenLine
  <2>4. lineCh' \in Seq(Written) /\ Len(lineCh') <= LineCap
    <3>1. lineCh \in Seq(Written) /\ LineCap \in Nat
      BY ThreadHas
    <3>2. Append(lineCh, Id(hand, at + 1)) \in Seq(Written)
          /\ Len(Append(lineCh, Id(hand, at + 1))) = Len(lineCh) + 1 /\ Len(lineCh) \in Nat
      BY <2>3, <3>1
    <3>3. QED
      BY <2>1, <3>1, <3>2
  <2>5. sent' \in [Files -> 0 .. MaxLines \union {Untracked}]
    <3>1. sent \in [Files -> 0 .. MaxLines \union {Untracked}]
      BY ThreadHas
    <3>2. at + 1 \in 0 .. MaxLines \union {Untracked}
      BY <2>2
    <3>3. QED
      BY <2>1, <3>1, <3>2
  <2>6. ThreadParts
    <3>1. at' \in 0 .. MaxLines
      BY <2>1, <2>2
    <3>2. QED
      BY <2>1, <2>4, <2>5, <3>1, ThreadHas DEF ThreadParts, watcher
  <2>7. QED
    BY <1>1, <2>1, <2>6, ThreadTypes DEF watcher
<1>3. CASE ReadEnd \/ ReadError
  <2>1. /\ tails' = tails \/ tails' = [tails EXCEPT ![hand] = at]
        /\ Error \/ UNCHANGED errors
        /\ phase' \in {"sweep", "wait"}
        /\ UNCHANGED <<node, watcher, start, todo, sweeping, hand, at, sent, lineCh>>
    BY <1>3 DEF ReadEnd, ReadError, Back
  <2>2. tails' \in [Files -> 0 .. MaxLines \union {Untracked}]
    BY <2>1, ThreadHas
  <2>3. errors' \in 0 .. MaxErrors
    BY <2>1, ErrorType
  <2>4. ThreadParts
    BY <2>1, <2>2, <2>3, ThreadHas DEF ThreadParts, watcher
  <2>5. QED
    BY <1>1, <2>1, <2>4, ThreadTypes DEF watcher
<1>4. QED
  BY <1>2, <1>3

LEMMA NextTypes ==
  ASSUME IndexerConstants, TInv, [IndexerNext]_allVars
  PROVE  TInv'
<1>1. CASE UNCHANGED allVars
  <2>1. UNCHANGED <<node, watcher, thread, lineCh, runner, owed>>
    BY <1>1 DEF allVars, vars
  <2>2. TypeOK'
    BY <2>1, NodeType DEF TypeOK, node, watcher, thread
  <2>3. newest' = newest /\ newest \in Int /\ Files \subseteq Int /\ size' = size /\ start' = start
    BY <2>1, NodeType DEF node, thread
  <2>4. lineCh' \in Seq(Written)
    BY <2>1 DEF TInv
  <2>5. newest <= newest'
    BY <2>3
  <2>6. QED
    BY <2>1, <2>2, <2>3, <2>4, <2>5, SameLines
<1>2. CASE IndexerNext
  <2>1. TailerStep => ThreadStep
    BY DEF TailerStep
  <2>2. QED
    BY <1>2, <2>1, AppendTypes, NodeTypes, SweepTypes, FollowTypes, ReadTypes, RunnerTypes,
       StopTypes, StartTypes DEF IndexerNext, ThreadStep
<1>3. QED
  BY <1>1, <1>2

LEMMA TypesHold == IndexerConstants => (IndexerSpec => []TInv)
<1> SUFFICES ASSUME IndexerConstants PROVE IndexerSpec => []TInv
  OBVIOUS
<1>1. IndexerInit => TInv
  BY InitTypes
<1>2. TInv /\ [IndexerNext]_allVars => TInv'
  BY NextTypes
<1>3. QED
  BY <1>1, <1>2, PTL DEF IndexerSpec

(* Type correctness (IndexerTypeOK): in every reachable state the          *)
(* variables are of their types; so the rows of tables, checkpoint and     *)
(* channel are lines that the node has written.                            *)
THEOREM IndexerTypeCorrect ==
  ASSUME TailerAssumption, IndexerAssumption
  PROVE  IndexerSpec => []IndexerTypeOK
<1>1. TInv => IndexerTypeOK
  BY DEF TInv
<1>2. IndexerSpec => []TInv
  BY TypesHold DEF IndexerConstants
<1>3. QED
  BY <1>1, <1>2, PTL

-----------------------------------------------------------------------------
(* Why FileCovered holds.  Within a file every line that comes before one  *)
(* that the process has sent, took from the channel or remembered as       *)
(* `pending' is further on the way from the file to the table than it.     *)

(* Lines with rows in the table or in its open INSERT. *)
Settled == durable[1] \union active[1]

(* Those, the line whose rows are being written, and what is in the        *)
(* channel before place i.                                                 *)
Ahead(i) == Settled \union (IF pc = "write" THEN {cur} ELSE {})
                    \union {lineCh[j] : j \in 1 .. i - 1}
OnItsWay == Ahead(Len(lineCh) + 1)

LinesUpTo(f, k, set) == \A n \in 1 .. k : Id(f, n) \in set

HandledInOrder ==
  Alive =>
    /\ pending # NoPos => LinesUpTo(FileOf(pending), LineOf(pending), Settled)
    /\ pc = "write" => LinesUpTo(FileOf(cur), LineOf(cur) - 1, Settled)
    /\ pc = "commit" /\ why = "event" => LinesUpTo(FileOf(cur), LineOf(cur), Settled)

QueuedInOrder ==
  \A i \in 1 .. Len(lineCh) :
    LinesUpTo(FileOf(lineCh[i]), LineOf(lineCh[i]) - 1, Ahead(i))

SentInOrder ==
  Alive =>
    /\ start # NoPos => LinesUpTo(FileOf(start), LineOf(start), durable[1])
    /\ phase = "read" => LinesUpTo(hand, at, OnItsWay)
    /\ \A f \in Files : tails[f] # Untracked => LinesUpTo(f, tails[f], OnItsWay)

SaveIsAfterCommit == pc = "save" => active[1] = {} /\ pending # NoPos
StopEmpties       == ~ Alive => lineCh = << >> /\ pending = NoPos

CInv ==
  /\ TInv
  /\ HandledInOrder
  /\ QueuedInOrder
  /\ SentInOrder
  /\ SaveIsAfterCommit
  /\ StopEmpties
  /\ FileCovered

LEMMA UpToMono ==
  ASSUME NEW f, NEW k, NEW S, NEW T, LinesUpTo(f, k, S), S \subseteq T
  PROVE  LinesUpTo(f, k, T)
BY DEF LinesUpTo

LEMMA InitCovered == IndexerConstants /\ IndexerInit => CInv
<1> SUFFICES ASSUME IndexerConstants, IndexerInit PROVE CInv
  OBVIOUS
<1>1. TInv
  BY InitTypes
<1>2. /\ pc = "select" /\ pending = NoPos /\ checkpoint = NoPos /\ start = NoPos
      /\ phase = "collect" /\ tails = NoTails /\ lineCh = << >>
  BY DEF IndexerInit, InitThread
<1>3. \A f \in Files : tails[f] = Untracked
  BY <1>2 DEF NoTails
<1>4. Len(lineCh) = 0
  BY <1>2
<1>5. QueuedInOrder
  BY <1>4 DEF QueuedInOrder
<1>6. QED
  BY <1>1, <1>2, <1>3, <1>5
     DEF CInv, HandledInOrder, SentInOrder, SaveIsAfterCommit, StopEmpties, FileCovered, Alive

(* Steps that leave the way from the channel to the table alone. *)
LEMMA SameWay ==
  ASSUME CInv, TInv', UNCHANGED <<pc, cur, why, pending, active, durable, checkpoint, lineCh>>,
         SentInOrder'
  PROVE  CInv'
<1>1. Settled' = Settled /\ \A i : Ahead(i)' = Ahead(i)
  BY DEF Settled, Ahead
<1>2. HandledInOrder'
  BY <1>1 DEF CInv, HandledInOrder, Alive
<1>3. QueuedInOrder'
  BY <1>1 DEF CInv, QueuedInOrder
<1>4. QED
  BY <1>2, <1>3 DEF CInv, SaveIsAfterCommit, StopEmpties, FileCovered, Alive

LEMMA SameOnItsWay ==
  ASSUME UNCHANGED <<pc, cur, active, durable, lineCh>>
  PROVE  OnItsWay' = OnItsWay
BY DEF OnItsWay, Ahead, Settled

LEMMA NodeCovers ==
  ASSUME CInv, TInv', Append1 \/ Rotate \/ Prune \/ WatchNewDir
  PROVE  CInv'
<1>1. UNCHANGED <<thread, lineCh, runner>>
  BY DEF Append1, NodeAppend, Rotate, NodeRotate, Prune, NodePrune, WatchNewDir, DirWatched
<1>2. UNCHANGED <<pc, cur, why, pending, active, durable, checkpoint, lineCh>>
      /\ UNCHANGED <<start, phase, hand, at, tails>>
  BY <1>1 DEF thread, runner
<1>3. OnItsWay' = OnItsWay
  BY <1>2, SameOnItsWay
<1>4. SentInOrder'
  BY <1>2, <1>3 DEF CInv, SentInOrder, Alive
<1>5. QED
  BY <1>2, <1>4, SameWay

(* The thread sends nothing: what it reads next or has read is known.      *)
LEMMA ThreadCovers ==
  ASSUME IndexerConstants, CInv, TInv', TailerStep, ~ Emit
  PROVE  CInv'
<1>1. Alive /\ ThreadStep /\ UNCHANGED <<runner, owed>>
  BY DEF TailerStep
<1>2. UNCHANGED <<lineCh, start>>
  BY <1>1 DEF ThreadStep, Collect, Watch, SweepOpen, SweepSkip, SweepDone, Notified,
     NotifiedSkip, ReadEnd, ReadError
<1>3. UNCHANGED <<pc, cur, why, pending, active, durable, checkpoint, lineCh>>
  BY <1>1, <1>2 DEF runner
<1>4. OnItsWay' = OnItsWay
  BY <1>3, SameOnItsWay
<1>5. /\ start # NoPos => LinesUpTo(FileOf(start), LineOf(start), durable[1])
      /\ phase = "read" => LinesUpTo(hand, at, OnItsWay)
      /\ \A f \in Files : tails[f] # Untracked => LinesUpTo(f, tails[f], OnItsWay)
  BY <1>1 DEF CInv, SentInOrder
<1>6. durable[1] \subseteq OnItsWay
  BY DEF OnItsWay, Ahead, Settled
<1>7. tails \in [Files -> 0 .. MaxLines \union {Untracked}] /\ hand \in Files
      /\ notifyQ \in Seq(Files)
  BY ThreadHas DEF CInv
<1>8. \A f : LinesUpTo(f, 0, OnItsWay)
  BY DEF LinesUpTo
<1>9. /\ phase' = "read" => LinesUpTo(hand', at', OnItsWay)
      /\ \A f \in Files : tails'[f] # Untracked => LinesUpTo(f, tails'[f], OnItsWay)
  <2>1. CASE Collect \/ Watch \/ SweepSkip \/ SweepDone \/ NotifiedSkip
    <3>1. tails' = tails /\ phase' # "read"
      BY <2>1 DEF Collect, Watch, SweepSkip, SweepDone, NotifiedSkip
    <3>2. QED
      BY <1>5, <3>1
  <2>2. CASE SweepOpen
    <3>1. tails' = tails /\ at' = SweepFrom(hand')
      BY <2>2 DEF SweepOpen
    <3>2. LinesUpTo(hand', at', OnItsWay)
      <4>1. CASE start # NoPos /\ hand' = FileOf(start)
        <5>1. at' = LineOf(start)
          BY <3>1, <4>1 DEF SweepFrom
        <5>2. LinesUpTo(FileOf(start), LineOf(start), durable[1])
          BY <1>5, <4>1
        <5>3. LinesUpTo(FileOf(start), LineOf(start), OnItsWay)
          BY <1>6, <5>2, UpToMono
        <5>4. QED
          BY <4>1, <5>1, <5>3
      <4>2. CASE ~ (start # NoPos /\ hand' = FileOf(start))
        BY <1>8, <3>1, <4>2 DEF SweepFrom
      <4>3. QED
        BY <4>1, <4>2
    <3>3. QED
      BY <1>5, <3>1, <3>2
  <2>3. CASE Notified
    <3> DEFINE f == Head(notifyQ)
    <3>1. /\ notifyQ # << >> /\ hand' = f /\ at' = TailOf(f)
          /\ tails' = [tails EXCEPT ![f] = TailOf(f)]
      BY <2>3 DEF Notified
    <3>2. f \in Files
      BY <1>7, <3>1
    <3>3. LinesUpTo(f, TailOf(f), OnItsWay)
      BY <1>5, <1>8, <3>2 DEF TailOf
    <3>4. \A g \in Files : tails'[g] = IF g = f THEN TailOf(f) ELSE tails[g]
      BY <1>7, <3>1
    <3>5. QED
      BY <1>5, <3>1, <3>3, <3>4
  <2>4. CASE ReadEnd \/ ReadError
    <3>1. /\ phase = "read" /\ phase' # "read"
          /\ tails' = tails \/ tails' = [tails EXCEPT ![hand] = at]
      BY <2>4 DEF ReadEnd, ReadError, Back
    <3>2. \A g \in Files : tails'[g] = tails[g] \/ (g = hand /\ tails'[g] = at)
      BY <1>7, <3>1
    <3>3. LinesUpTo(hand, at, OnItsWay)
      BY <1>5, <3>1
    <3>4. QED
      BY <1>5, <3>1, <3>2, <3>3
  <2>5. QED
    BY <1>1, <2>1, <2>2, <2>3, <2>4 DEF ThreadStep
<1>10. SentInOrder'
  BY <1>2, <1>3, <1>4, <1>5, <1>9 DEF SentInOrder
<1>11. QED
  BY <1>3, <1>10, SameWay

LEMMA EmitAhead ==
  ASSUME IndexerConstants, TInv, TailerStep, Emit
  PROVE  /\ hand \in Files /\ at \in Nat /\ at + 1 \in 1 .. MaxLines /\ Len(lineCh) \in Nat
         /\ FileOf(Id(hand, at + 1)) = hand /\ LineOf(Id(hand, at + 1)) = at + 1
         /\ Len(lineCh') = Len(lineCh) + 1 /\ lineCh'[Len(lineCh) + 1] = Id(hand, at + 1)
         /\ \A j \in 1 .. Len(lineCh) : lineCh'[j] = lineCh[j]
         /\ Settled' = Settled
         /\ \A i \in 1 .. Len(lineCh) + 1 : Ahead(i)' = Ahead(i)
         /\ OnItsWay \subseteq OnItsWay' /\ Id(hand, at + 1) \in OnItsWay'
<1> DEFINE l == Id(hand, at + 1)
<1>1. /\ phase = "read" /\ at < size[hand] /\ at' = at + 1 /\ lineCh' = Append(lineCh, l)
      /\ UNCHANGED <<node, watcher, phase, start, todo, sweeping, hand, tails, errors>>
  BY DEF Emit
<1>2. Alive /\ UNCHANGED <<runner, owed>>
  BY DEF TailerStep
<1>3. UNCHANGED <<pc, cur, why, pending, active, durable, checkpoint>>
  BY <1>2 DEF runner
<1>4. lineCh \in Seq(Written) /\ hand \in Files /\ at + 1 \in 1 .. MaxLines /\ at \in Nat
      /\ MaxLines \in Nat
  <2>1. size[hand] \in 0 .. MaxLines /\ at \in 0 .. MaxLines /\ MaxLines \in Nat
        /\ lineCh \in Seq(Written) /\ hand \in Files
    BY ThreadHas
  <2>2. at + 1 \in 1 .. MaxLines /\ at \in Nat
    BY <1>1, <2>1
  <2>3. QED
    BY <2>1, <2>2
<1>5. FileOf(l) = hand /\ LineOf(l) = at + 1
  BY <1>4, Numbers
<1> HIDE DEF l
<1>6. PICK n \in Nat : n = Len(lineCh)
  BY <1>4
<1>7. /\ Len(lineCh') = n + 1 /\ lineCh'[n + 1] = l
      /\ \A j \in 1 .. n : lineCh'[j] = lineCh[j]
  BY <1>1, <1>4, <1>6
<1>8. Settled' = Settled
  BY <1>3 DEF Settled
<1>9. \A i \in 1 .. n + 1 : Ahead(i)' = Ahead(i)
  <2> SUFFICES ASSUME NEW i \in 1 .. n + 1 PROVE Ahead(i)' = Ahead(i)
    OBVIOUS
  <2>1. \A j \in 1 .. i - 1 : lineCh'[j] = lineCh[j]
    <3>1. \A j \in 1 .. i - 1 : j \in 1 .. n
      OBVIOUS
    <3>2. QED
      BY <1>7, <3>1
  <2>2. QED
    BY <1>3, <1>8, <2>1 DEF Ahead
<1>10. OnItsWay \subseteq OnItsWay' /\ l \in OnItsWay'
  <2>1. OnItsWay = Ahead(n + 1) /\ OnItsWay' = Ahead(n + 2)'
    <3>1. Len(lineCh') + 1 = n + 2
      BY <1>7
    <3>2. QED
      BY <1>6, <3>1 DEF OnItsWay, Ahead
  <2>2. Ahead(n + 1)' \subseteq Ahead(n + 2)'
    <3>1. \A j \in 1 .. (n + 1) - 1 : j \in 1 .. (n + 2) - 1
      OBVIOUS
    <3>2. QED
      BY <3>1 DEF Ahead
  <2>3. l \in Ahead(n + 2)'
    <3>1. n + 1 \in 1 .. (n + 2) - 1
      OBVIOUS
    <3>2. QED
      BY <1>7, <3>1 DEF Ahead
  <2>4. Ahead(n + 1)' = Ahead(n + 1)
    BY <1>9
  <2>5. QED
    BY <2>1, <2>2, <2>3, <2>4
<1>11. QED
  BY <1>4, <1>5, <1>6, <1>7, <1>8, <1>9, <1>10 DEF l

LEMMA EmitCovers ==
  ASSUME IndexerConstants, CInv, TInv', TailerStep, Emit
  PROVE  CInv'
<1>1. /\ phase = "read" /\ at' = at + 1
      /\ UNCHANGED <<node, watcher, phase, start, todo, sweeping, hand, tails, errors>>
  BY DEF Emit
<1>2. Alive /\ UNCHANGED <<runner, owed>>
  BY DEF TailerStep
<1>3. UNCHANGED <<pc, cur, why, pending, active, durable, checkpoint>>
  BY <1>2 DEF runner
<1>4. PICK n \in Nat : n = Len(lineCh)
  BY EmitAhead DEF CInv
<1>5. PICK l : l = Id(hand, at + 1)
  OBVIOUS
<1>6. at \in Nat /\ FileOf(l) = hand /\ LineOf(l) = at + 1
  BY <1>5, EmitAhead DEF CInv
<1>7. /\ Len(lineCh') = n + 1 /\ lineCh'[n + 1] = l
      /\ \A j \in 1 .. n : lineCh'[j] = lineCh[j]
  BY <1>5, <1>4, EmitAhead DEF CInv
<1>8. Settled' = Settled
  BY EmitAhead DEF CInv
<1>9. \A i \in 1 .. n + 1 : Ahead(i)' = Ahead(i)
  BY <1>4, EmitAhead DEF CInv
<1>10. OnItsWay \subseteq OnItsWay' /\ l \in OnItsWay'
  BY <1>5, EmitAhead DEF CInv
<1>11. LinesUpTo(hand, at, OnItsWay)
  BY <1>1, <1>2 DEF CInv, SentInOrder
<1>12. QueuedInOrder'
  <2> SUFFICES ASSUME NEW i \in 1 .. n + 1
               PROVE  LinesUpTo(FileOf(lineCh'[i]), LineOf(lineCh'[i]) - 1, Ahead(i)')
    BY <1>7 DEF QueuedInOrder
  <2>1. CASE i \in 1 .. n
    <3>1. LinesUpTo(FileOf(lineCh[i]), LineOf(lineCh[i]) - 1, Ahead(i))
      BY <1>4, <2>1 DEF CInv, QueuedInOrder
    <3>2. lineCh'[i] = lineCh[i] /\ Ahead(i)' = Ahead(i)
      BY <1>7, <1>9, <2>1
    <3>3. QED
      BY <3>1, <3>2
  <2>2. CASE i = n + 1
    <3>1. FileOf(lineCh'[i]) = hand /\ LineOf(lineCh'[i]) - 1 = at
      BY <1>6, <1>7, <2>2
    <3>2. Ahead(i)' = OnItsWay
      BY <1>4, <1>9, <2>2 DEF OnItsWay
    <3>3. QED
      BY <1>11, <3>1, <3>2
  <2>3. QED
    BY <2>1, <2>2
<1>13. SentInOrder'
  <2>1. LinesUpTo(hand', at', OnItsWay')
    <3> SUFFICES ASSUME NEW k \in 1 .. at + 1 PROVE Id(hand, k) \in OnItsWay'
      BY <1>1 DEF LinesUpTo
    <3>1. CASE k \in 1 .. at
      BY <1>10, <1>11, <3>1 DEF LinesUpTo
    <3>2. CASE k = at + 1
      BY <1>5, <1>10, <3>2
    <3>3. QED
      BY <1>6, <3>1, <3>2
  <2>2. \A f \in Files : tails[f] # Untracked => LinesUpTo(f, tails[f], OnItsWay')
    <3>1. \A f \in Files : tails[f] # Untracked => LinesUpTo(f, tails[f], OnItsWay)
      BY <1>2 DEF CInv, SentInOrder
    <3>2. QED
      BY <1>10, <3>1, UpToMono
  <2>3. start # NoPos => LinesUpTo(FileOf(start), LineOf(start), durable[1])
    BY <1>2 DEF CInv, SentInOrder
  <2>4. QED
    BY <1>1, <1>3, <2>1, <2>2, <2>3 DEF SentInOrder
<1>14. HandledInOrder'
  BY <1>3, <1>8 DEF CInv, HandledInOrder, Alive
<1>15. QED
  BY <1>2, <1>3, <1>12, <1>13, <1>14 DEF CInv, SaveIsAfterCommit, StopEmpties, FileCovered, Alive

(* The runner's steps, one after the other. *)

(* What was ahead of a place in the channel stays ahead of it. *)
LEMMA TakeAhead ==
  ASSUME IndexerConstants, TInv, TakeLine
  PROVE  /\ Settled' = Settled /\ cur' = lineCh[1] /\ Len(lineCh) > 0 /\ Len(lineCh) \in Nat
         /\ Len(lineCh') = Len(lineCh) - 1
         /\ \A j \in 1 .. Len(lineCh) - 1 : lineCh'[j] = lineCh[j + 1]
         /\ \A i \in 1 .. Len(lineCh) : Ahead(i + 1) \subseteq Ahead(i)'
         /\ OnItsWay \subseteq OnItsWay'
<1>1. /\ pc = "select" /\ lineCh # << >>
      /\ pc' = "write" /\ cur' = Head(lineCh) /\ lineCh' = Tail(lineCh)
      /\ UNCHANGED <<why, pending, active, durable, checkpoint>>
  BY DEF TakeLine
<1>2. PICK n \in Nat : n = Len(lineCh) /\ n > 0
  <2>1. lineCh \in Seq(Written)
    BY ThreadHas
  <2>2. QED
    BY <1>1, <2>1
<1>3. /\ cur' = lineCh[1] /\ Len(lineCh') = n - 1
      /\ \A j \in 1 .. n - 1 : lineCh'[j] = lineCh[j + 1]
  <2>1. lineCh \in Seq(Written)
    BY ThreadHas
  <2>2. QED
    BY <1>1, <1>2, <2>1
<1>4. Settled' = Settled
  BY <1>1 DEF Settled
<1>5. \A i \in 1 .. n : Ahead(i + 1) \subseteq Ahead(i)'
  <2> SUFFICES ASSUME NEW i \in 1 .. n, NEW x \in Ahead(i + 1) PROVE x \in Ahead(i)'
    OBVIOUS
  <2>1. x \in Settled \/ \E j \in 1 .. i : x = lineCh[j]
    <3>1. (i + 1) - 1 = i
      OBVIOUS
    <3>2. QED
      BY <1>1, <3>1 DEF Ahead
  <2>2. CASE x \in Settled
    BY <1>4, <2>2 DEF Ahead
  <2>3. CASE \E j \in 1 .. i : x = lineCh[j]
    <3>1. PICK j \in 1 .. i : x = lineCh[j]
      BY <2>3
    <3>2. CASE j = 1
      BY <1>1, <1>3, <3>1, <3>2 DEF Ahead
    <3>3. CASE j # 1
      <4>1. j - 1 \in 1 .. n - 1 /\ j - 1 \in 1 .. i - 1 /\ (j - 1) + 1 = j
        BY <3>3
      <4>2. x = lineCh'[j - 1]
        BY <1>3, <3>1, <4>1
      <4>3. QED
        BY <4>1, <4>2 DEF Ahead
    <3>4. QED
      BY <3>2, <3>3
  <2>4. QED
    BY <2>1, <2>2, <2>3
<1>6. OnItsWay \subseteq OnItsWay'
  <2>1. Len(lineCh') + 1 = n
    BY <1>2, <1>3
  <2>2. OnItsWay = Ahead(n + 1) /\ OnItsWay' = Ahead(n)'
    BY <1>2, <2>1 DEF OnItsWay, Ahead
  <2>3. QED
    BY <1>2, <1>5, <2>2
<1>7. QED
  BY <1>2, <1>3, <1>4, <1>5, <1>6

LEMMA TakeCovers ==
  ASSUME IndexerConstants, CInv, TInv', TakeLine, UNCHANGED <<thread, follow>>
  PROVE  CInv'
<1>1. /\ pc = "select" /\ lineCh # << >>
      /\ pc' = "write" /\ cur' = Head(lineCh) /\ lineCh' = Tail(lineCh)
      /\ UNCHANGED <<why, pending, active, durable, checkpoint>>
  BY DEF TakeLine
<1>2. PICK n \in Nat : n = Len(lineCh) /\ n > 0
  BY TakeAhead DEF CInv
<1>3. /\ cur' = lineCh[1] /\ Len(lineCh') = n - 1
      /\ \A j \in 1 .. n - 1 : lineCh'[j] = lineCh[j + 1]
  BY <1>2, TakeAhead DEF CInv
<1>4. Settled' = Settled
  BY TakeAhead DEF CInv
<1>5. \A i \in 1 .. n : Ahead(i + 1) \subseteq Ahead(i)'
  BY <1>2, TakeAhead DEF CInv
<1>6. OnItsWay \subseteq OnItsWay'
  BY TakeAhead DEF CInv
<1>7. LinesUpTo(FileOf(cur'), LineOf(cur') - 1, Settled)
  <2>1. LinesUpTo(FileOf(lineCh[1]), LineOf(lineCh[1]) - 1, Ahead(1))
    BY <1>2 DEF CInv, QueuedInOrder
  <2>2. Ahead(1) \subseteq Settled
    BY <1>1 DEF Ahead
  <2>3. QED
    BY <1>3, <2>1, <2>2, UpToMono
<1>8. HandledInOrder'
  BY <1>1, <1>4, <1>7 DEF CInv, HandledInOrder, Alive
<1>9. QueuedInOrder'
  <2> SUFFICES ASSUME NEW i \in 1 .. n - 1
               PROVE  LinesUpTo(FileOf(lineCh'[i]), LineOf(lineCh'[i]) - 1, Ahead(i)')
    BY <1>3 DEF QueuedInOrder
  <2>1. i + 1 \in 1 .. n /\ i \in 1 .. n
    OBVIOUS
  <2>2. LinesUpTo(FileOf(lineCh[i + 1]), LineOf(lineCh[i + 1]) - 1, Ahead(i + 1))
    BY <1>2, <2>1 DEF CInv, QueuedInOrder
  <2>3. Ahead(i + 1) \subseteq Ahead(i)' /\ lineCh'[i] = lineCh[i + 1]
    BY <1>3, <1>5, <2>1
  <2>4. QED
    BY <2>2, <2>3, UpToMono
<1>10. SentInOrder'
  <2>1. UNCHANGED <<start, phase, hand, at, tails>>
    BY DEF thread
  <2>2. Alive
    BY <1>1 DEF Alive
  <2>3. /\ start # NoPos => LinesUpTo(FileOf(start), LineOf(start), durable[1])
        /\ phase = "read" => LinesUpTo(hand, at, OnItsWay')
        /\ \A f \in Files : tails[f] # Untracked => LinesUpTo(f, tails[f], OnItsWay')
    BY <1>6, <2>2, UpToMono DEF CInv, SentInOrder
  <2>4. QED
    BY <1>1, <2>1, <2>3 DEF SentInOrder
<1>11. QED
  BY <1>1, <1>8, <1>9, <1>10 DEF CInv, SaveIsAfterCommit, StopEmpties, FileCovered, Alive

(* Steps after which nothing is less far on its way. *)
LEMMA FurtherAhead ==
  ASSUME Settled \subseteq Settled', UNCHANGED lineCh, pc = "write" => cur \in Settled'
  PROVE  (\A i : Ahead(i) \subseteq Ahead(i)') /\ OnItsWay \subseteq OnItsWay'
<1>1. \A i : Ahead(i) \subseteq Ahead(i)'
  <2> SUFFICES ASSUME NEW i, NEW x \in Ahead(i) PROVE x \in Ahead(i)'
    OBVIOUS
  <2>1. x \in Settled' \/ \E j \in 1 .. i - 1 : x = lineCh[j]
    BY DEF Ahead
  <2>2. QED
    BY <2>1 DEF Ahead
<1>2. OnItsWay \subseteq OnItsWay'
  <2>1. PICK n : n = Len(lineCh) + 1
    OBVIOUS
  <2>2. OnItsWay = Ahead(n) /\ OnItsWay' = Ahead(n)'
    BY <2>1 DEF OnItsWay, Ahead
  <2>3. QED
    BY <1>1, <2>2
<1>3. QED
  BY <1>1, <1>2

LEMMA FurtherOn ==
  ASSUME CInv, Settled \subseteq Settled', durable[1] \subseteq durable'[1],
         UNCHANGED <<thread, lineCh>>, Alive, pc = "write" => cur \in Settled'
  PROVE  QueuedInOrder' /\ SentInOrder'
<1>1. \A i : Ahead(i) \subseteq Ahead(i)'
  BY FurtherAhead
<1>2. OnItsWay \subseteq OnItsWay'
  BY FurtherAhead
<1>3. QueuedInOrder'
  <2> SUFFICES ASSUME NEW i \in 1 .. Len(lineCh)
               PROVE  LinesUpTo(FileOf(lineCh[i]), LineOf(lineCh[i]) - 1, Ahead(i)')
    BY DEF QueuedInOrder
  <2>1. LinesUpTo(FileOf(lineCh[i]), LineOf(lineCh[i]) - 1, Ahead(i))
    BY DEF CInv, QueuedInOrder
  <2>2. QED
    BY <1>1, <2>1, UpToMono
<1>4. SentInOrder'
  <2>1. UNCHANGED <<start, phase, hand, at, tails>>
    BY DEF thread
  <2>2. /\ start # NoPos => LinesUpTo(FileOf(start), LineOf(start), durable'[1])
        /\ phase = "read" => LinesUpTo(hand, at, OnItsWay')
        /\ \A f \in Files : tails[f] # Untracked => LinesUpTo(f, tails[f], OnItsWay')
    BY <1>2, UpToMono DEF CInv, SentInOrder
  <2>3. QED
    BY <2>1, <2>2 DEF SentInOrder
<1>5. QED
  BY <1>3, <1>4

LEMMA WriteCovers ==
  ASSUME IndexerConstants, CInv, TInv', WriteLine, UNCHANGED <<thread, follow>>
  PROVE  CInv'
<1>1. /\ pc = "write" /\ pc' = "commit" /\ why' = "event"
      /\ active' = [active EXCEPT ![1] = @ \union {cur}]
      /\ UNCHANGED <<cur, lineCh, pending, durable, checkpoint>>
  BY DEF WriteLine
<1>2. active' [1] = active[1] \union {cur} /\ cur \in Written
  BY <1>1 DEF CInv, TInv
<1>3. Settled \subseteq Settled' /\ cur \in Settled'
  BY <1>1, <1>2 DEF Settled
<1>4. QueuedInOrder' /\ SentInOrder'
  BY <1>1, <1>3, FurtherOn DEF Alive
<1>5. LinesUpTo(FileOf(cur), LineOf(cur), Settled')
  <2>1. /\ LinesUpTo(FileOf(cur), LineOf(cur) - 1, Settled)
    BY <1>1 DEF CInv, HandledInOrder, Alive
  <2>2. LineOf(cur) \in 1 .. MaxLines /\ MaxLines \in Nat /\ Id(FileOf(cur), LineOf(cur)) = cur
    BY <1>2, WrittenPlace, NodeType DEF CInv
  <2>3. \A k \in 1 .. LineOf(cur) : k \in 1 .. LineOf(cur) - 1 \/ k = LineOf(cur)
    BY <2>2
  <2>4. QED
    BY <1>3, <2>1, <2>2, <2>3 DEF LinesUpTo
<1>6. HandledInOrder'
  <2>1. pending # NoPos => LinesUpTo(FileOf(pending), LineOf(pending), Settled')
    BY <1>1, <1>3, UpToMono DEF CInv, HandledInOrder, Alive
  <2>2. QED
    BY <1>1, <1>5, <2>1 DEF HandledInOrder
<1>7. QED
  BY <1>1, <1>4, <1>6 DEF CInv, SaveIsAfterCommit, StopEmpties, FileCovered, Alive

LEMMA TickCovers ==
  ASSUME CInv, TInv', TickComes, UNCHANGED <<thread, follow>>
  PROVE  CInv'
<1>1. /\ pc = "select" /\ pc' = "commit" /\ why' = "tick"
      /\ UNCHANGED <<cur, lineCh, pending, active, durable, checkpoint>>
  BY DEF TickComes
<1>2. Settled' = Settled
  BY <1>1 DEF Settled
<1>3. QueuedInOrder' /\ SentInOrder'
  BY <1>1, <1>2, FurtherOn DEF Alive
<1>4. HandledInOrder'
  BY <1>1, <1>2 DEF CInv, HandledInOrder, Alive
<1>5. QED
  BY <1>1, <1>3, <1>4 DEF CInv, SaveIsAfterCommit, StopEmpties, FileCovered, Alive

LEMMA CommitCovers ==
  ASSUME IndexerConstants, CInv, TInv', CommitRows, UNCHANGED <<thread, follow>>
  PROVE  CInv'
<1>1. /\ pc = "commit" /\ UNCHANGED <<cur, lineCh, why, checkpoint>>
  BY DEF CommitRows
<1>2. active \in [1 .. 1 -> SUBSET Written] /\ durable \in [1 .. 1 -> SUBSET Written]
  BY DEF CInv, TInv
<1>3. \/ durable'[1] = durable[1] \union active[1] /\ active'[1] = {}
      \/ why = "event" /\ UNCHANGED <<active, durable>>
  BY <1>2 DEF CommitRows
<1>4. Settled' = Settled /\ durable[1] \subseteq durable'[1]
  BY <1>3 DEF Settled
<1>5. QueuedInOrder' /\ SentInOrder'
  BY <1>1, <1>4, FurtherOn DEF Alive
<1>6. \/ why = "event" /\ pending' = cur /\ pc' = "select"
      \/ /\ why # "event" /\ UNCHANGED pending
         /\ pc' = IF pending # NoPos THEN "save" ELSE "select"
  BY DEF CommitRows
<1>7. HandledInOrder'
  <2>1. why = "event" => LinesUpTo(FileOf(cur), LineOf(cur), Settled)
    BY <1>1 DEF CInv, HandledInOrder, Alive
  <2>2. pending # NoPos => LinesUpTo(FileOf(pending), LineOf(pending), Settled)
    BY <1>1 DEF CInv, HandledInOrder, Alive
  <2>3. QED
    BY <1>4, <1>6, <2>1, <2>2 DEF HandledInOrder
<1>8. SaveIsAfterCommit'
  BY <1>3, <1>6 DEF SaveIsAfterCommit
<1>9. FileCovered'
  BY <1>1, <1>4 DEF CInv, FileCovered
<1>10. QED
  BY <1>1, <1>5, <1>6, <1>7, <1>8, <1>9 DEF CInv, StopEmpties, Alive

LEMMA SaveCovers ==
  ASSUME CInv, TInv', SaveCheckpoint, UNCHANGED <<thread, follow>>
  PROVE  CInv'
<1>1. /\ pc = "save" /\ checkpoint' = pending /\ pc' = "select"
      /\ UNCHANGED <<cur, lineCh, why, pending, active, durable>>
  BY DEF SaveCheckpoint
<1>2. Settled' = Settled
  BY <1>1 DEF Settled
<1>3. QueuedInOrder' /\ SentInOrder'
  BY <1>1, <1>2, FurtherOn DEF Alive
<1>4. pending # NoPos => LinesUpTo(FileOf(pending), LineOf(pending), Settled)
  BY <1>1 DEF CInv, HandledInOrder, Alive
<1>5. HandledInOrder'
  BY <1>1, <1>2, <1>4 DEF HandledInOrder
<1>6. Settled = durable[1]
  BY <1>1 DEF CInv, SaveIsAfterCommit, Settled
<1>7. FileCovered'
  BY <1>1, <1>4, <1>6 DEF FileCovered, LinesUpTo
<1>8. QED
  BY <1>1, <1>3, <1>5, <1>7 DEF CInv, SaveIsAfterCommit, StopEmpties, Alive

LEMMA StopCovers ==
  ASSUME CInv, TInv', Stop
  PROVE  CInv'
<1>1. /\ durable[1] \subseteq durable'[1]
      /\ lineCh' = << >> /\ pending' = NoPos /\ pc' = "down" /\ checkpoint' = checkpoint
  BY StopIs DEF CInv
<1>2. QueuedInOrder'
  BY <1>1 DEF QueuedInOrder
<1>3. FileCovered'
  BY <1>1 DEF CInv, FileCovered
<1>4. QED
  BY <1>1, <1>2, <1>3
     DEF CInv, HandledInOrder, SentInOrder, SaveIsAfterCommit, StopEmpties, Alive

LEMMA StartCovers ==
  ASSUME CInv, TInv', Start
  PROVE  CInv'
<1>1. /\ pc = "down" /\ pc' = "select"
      /\ phase' = "collect" /\ start' = checkpoint /\ tails' = NoTails
      /\ UNCHANGED <<lineCh, pending, active, durable, checkpoint>>
  BY StartIs DEF CInv
<1>2. lineCh = << >> /\ pending = NoPos
  BY <1>1 DEF CInv, StopEmpties, Alive
<1>3. QueuedInOrder'
  BY <1>1, <1>2 DEF QueuedInOrder
<1>4. FileCovered'
  BY <1>1 DEF CInv, FileCovered
<1>5. SentInOrder'
  <2>1. \A f \in Files : tails'[f] = Untracked
    BY <1>1 DEF NoTails
  <2>2. checkpoint # NoPos => LinesUpTo(FileOf(checkpoint), LineOf(checkpoint), durable[1])
    BY DEF CInv, FileCovered, LinesUpTo
  <2>3. QED
    BY <1>1, <2>1, <2>2 DEF SentInOrder
<1>6. QED
  BY <1>1, <1>2, <1>3, <1>4, <1>5
     DEF CInv, HandledInOrder, SaveIsAfterCommit, StopEmpties, Alive

LEMMA NextCovers ==
  ASSUME IndexerConstants, CInv, [IndexerNext]_allVars
  PROVE  CInv'
<1>1. TInv'
  BY NextTypes DEF CInv
<1>2. CASE UNCHANGED allVars
  <2>1. UNCHANGED <<thread, lineCh, runner>>
    BY <1>2 DEF allVars, vars
  <2>2. UNCHANGED <<pc, cur, why, pending, active, durable, checkpoint, lineCh>>
        /\ UNCHANGED <<start, phase, hand, at, tails>>
    BY <2>1 DEF thread, runner
  <2>3. OnItsWay' = OnItsWay
    BY <2>2, SameOnItsWay
  <2>4. SentInOrder'
    BY <2>2, <2>3 DEF CInv, SentInOrder, Alive
  <2>5. QED
    BY <1>1, <2>2, <2>4, SameWay
<1>3. CASE RunnerStep
  <2>1. RunnerDoes /\ UNCHANGED <<thread, follow>>
    BY <1>3, RunnerIs DEF CInv
  <2>2. QED
    BY <1>1, <2>1, TakeCovers, WriteCovers, TickCovers, CommitCovers, SaveCovers DEF RunnerDoes
<1>4. CASE TailerStep
  BY <1>1, <1>4, ThreadCovers, EmitCovers
<1>5. QED
  BY <1>1, <1>2, <1>3, <1>4, NodeCovers, StopCovers, StartCovers DEF IndexerNext

(* No restart can miss a part of the file of the checkpoint (FileCovered), *)
(* whatever the capacities, the order of the node's writes, the watcher's  *)
(* delays, open and read errors, deletions, stops and restarts.            *)
THEOREM FileCoveredSafe ==
  ASSUME TailerAssumption, IndexerAssumption
  PROVE  IndexerSpec => []FileCovered
<1>1. IndexerInit => CInv
  BY InitCovered DEF IndexerConstants
<1>2. CInv /\ [IndexerNext]_allVars => CInv'
  BY NextCovers DEF IndexerConstants
<1>3. CInv => FileCovered
  BY DEF CInv
<1>4. QED
  BY <1>1, <1>2, <1>3, PTL DEF IndexerSpec

-----------------------------------------------------------------------------
(* The events in the queue. *)

LEMMA QueueEmpty == ToSet(<< >>) = {}
BY DEF ToSet

LEMMA QueueAppend ==
  ASSUME NEW S, NEW q \in Seq(S), NEW f \in S
  PROVE  ToSet(Append(q, f)) = ToSet(q) \union {f}
<1>1. PICK n \in Nat : n = Len(q)
  OBVIOUS
<1>2. PICK r : r = Append(q, f)
  OBVIOUS
<1>3. /\ DOMAIN r = 1 .. n + 1 /\ DOMAIN q = 1 .. n
      /\ r[n + 1] = f /\ \A i \in 1 .. n : r[i] = q[i]
  BY <1>1, <1>2
<1>4. \A i \in 1 .. n + 1 : i \in 1 .. n \/ i = n + 1
  BY <1>1
<1>5. n + 1 \in 1 .. n + 1 /\ \A i \in 1 .. n : i \in 1 .. n + 1
  BY <1>1
<1>6. QED
  BY <1>2, <1>3, <1>4, <1>5 DEF ToSet

LEMMA QueueTail ==
  ASSUME NEW S, NEW q \in Seq(S), q # << >>
  PROVE  Head(q) \in ToSet(q) /\ ToSet(Tail(q)) \subseteq ToSet(q)
         /\ ToSet(q) \subseteq ToSet(Tail(q)) \union {Head(q)}
<1>1. PICK n \in Nat : n = Len(q) /\ n > 0
  OBVIOUS
<1>2. PICK r : r = Tail(q)
  OBVIOUS
<1>3. /\ DOMAIN r = 1 .. n - 1 /\ DOMAIN q = 1 .. n
      /\ q[1] = Head(q) /\ \A i \in 1 .. n - 1 : r[i] = q[i + 1]
  BY <1>1, <1>2
<1>4. /\ 1 \in 1 .. n /\ \A i \in 1 .. n - 1 : i + 1 \in 1 .. n
      /\ \A i \in 1 .. n : i = 1 \/ (i - 1 \in 1 .. n - 1 /\ (i - 1) + 1 = i)
  BY <1>1
<1>5. Head(q) \in ToSet(q)
  BY <1>3, <1>4 DEF ToSet
<1>6. ToSet(r) \subseteq ToSet(q)
  BY <1>3, <1>4 DEF ToSet
<1>7. ToSet(q) \subseteq ToSet(r) \union {Head(q)}
  <2> SUFFICES ASSUME NEW i \in 1 .. n PROVE q[i] \in ToSet(r) \union {Head(q)}
    BY <1>3 DEF ToSet
  <2>1. CASE i = 1
    BY <1>3, <2>1
  <2>2. CASE i # 1
    <3>1. i - 1 \in 1 .. n - 1 /\ r[i - 1] = q[i]
      BY <1>3, <1>4, <2>2
    <3>2. QED
      BY <1>3, <3>1 DEF ToSet
  <2>3. QED
    BY <2>1, <2>2
<1>8. QED
  BY <1>2, <1>5, <1>6, <1>7

LEMMA QueueLast ==
  ASSUME NEW S, NEW q \in Seq(S), q # << >>
  PROVE  Last(q) \in ToSet(q)
<1>1. PICK n \in Nat : n = Len(q) /\ n > 0
  OBVIOUS
<1>2. DOMAIN q = 1 .. n /\ n \in 1 .. n
  BY <1>1
<1>3. QED
  BY <1>1, <1>2 DEF ToSet, Last

-----------------------------------------------------------------------------
(* Why NoLostWakeup holds.  An event can only be missing for a file that   *)
(* the watcher does not see yet, and such a file is newer than whatever    *)
(* the thread has ever had to do with.                                     *)

Beginning ==
  /\ ~ watching => notifyQ = << >>
  /\ ~ Alive => ~ watching
  /\ watching => phase \notin {"collect", "watch"}
  /\ phase \in {"collect", "watch"} => tails = NoTails

KnownIsOld ==
  /\ \A f \in todo : f <= newest
  /\ \A f \in Files : tails[f] # Untracked => f <= newest
  /\ \A f \in ToSet(notifyQ) : f <= newest
  /\ \A f \in unseen : f <= newest
  /\ phase = "read" => hand <= newest

UnseenIsUnknown ==
  watching =>
    \A f \in unseen :
      /\ f \notin todo /\ tails[f] = Untracked /\ f \notin ToSet(notifyQ)
      /\ phase = "read" => hand # f

WInv == TInv /\ Beginning /\ KnownIsOld /\ UnseenIsUnknown /\ NoLostWakeup

LEMMA InitWakes == IndexerConstants /\ IndexerInit => WInv
<1> SUFFICES ASSUME IndexerConstants, IndexerInit PROVE WInv
  OBVIOUS
<1>1. TInv
  BY InitTypes
<1>2. /\ watching = FALSE /\ notifyQ = << >> /\ pc = "select" /\ phase = "collect"
      /\ tails = NoTails /\ todo = {} /\ unseen = {}
  BY DEF IndexerInit, InitThread
<1>3. \A f \in Files : tails[f] = Untracked
  BY <1>2 DEF NoTails
<1>4. QED
  BY <1>1, <1>2, <1>3, QueueEmpty
     DEF WInv, Beginning, KnownIsOld, UnseenIsUnknown, NoLostWakeup, Alive

(* The watcher's part of a change of file f. *)
LEMMA NotifyIs ==
  ASSUME IndexerConstants, TInv, NEW f \in Files, Notify(f)
  PROVE  /\ ToSet(notifyQ) \subseteq ToSet(notifyQ')
         /\ ToSet(notifyQ') \subseteq ToSet(notifyQ) \union {f}
         /\ ~ watching => notifyQ' = notifyQ
         /\ f \in unseen => notifyQ' = notifyQ
         /\ watching /\ f \notin unseen => f \in ToSet(notifyQ') \/ f \in dropped'
         /\ dropped \ {f} \subseteq dropped'
<1>1. notifyQ \in Seq(Files)
  BY ThreadHas
<1>2. ToSet(Append(notifyQ, f)) = ToSet(notifyQ) \union {f}
  BY <1>1, QueueAppend
<1>3. notifyQ # << >> => Last(notifyQ) \in ToSet(notifyQ)
  BY <1>1, QueueLast
<1>4. CASE ~ (watching /\ f \notin unseen)
  <2>1. notifyQ' = notifyQ /\ dropped' = dropped
    BY <1>4 DEF Notify
  <2>2. QED
    BY <1>4, <2>1
<1>5. CASE watching /\ f \notin unseen /\ notifyQ # << >> /\ Last(notifyQ) = f
  <2>1. notifyQ' = notifyQ /\ dropped' = dropped \ {f}
    BY <1>5 DEF Notify
  <2>2. QED
    BY <1>3, <1>5, <2>1
<1>6. CASE watching /\ f \notin unseen /\ ~ (notifyQ # << >> /\ Last(notifyQ) = f)
           /\ Len(notifyQ) < NotifyCap
  <2>1. notifyQ' = Append(notifyQ, f) /\ dropped' = dropped \ {f}
    BY <1>6 DEF Notify
  <2>2. QED
    BY <1>2, <1>6, <2>1
<1>7. CASE watching /\ f \notin unseen /\ ~ (notifyQ # << >> /\ Last(notifyQ) = f)
           /\ ~ (Len(notifyQ) < NotifyCap)
  <2>1. notifyQ' = notifyQ /\ dropped' = dropped \union {f}
    BY <1>7 DEF Notify
  <2>2. QED
    BY <1>7, <2>1
<1>8. QED
  BY <1>4, <1>5, <1>6, <1>7

LEMMA AppendWakes ==
  ASSUME IndexerConstants, WInv, TInv', Append1
  PROVE  WInv'
<1>1. /\ newest \in Files /\ size' = [size EXCEPT ![newest] = @ + 1] /\ Notify(newest)
      /\ UNCHANGED <<oldest, newest, prunes, thread, lineCh, runner>>
      /\ UNCHANGED <<watching, unseen>>
  BY NodeType DEF WInv, Append1, NodeAppend, Notify
<1>2. UNCHANGED <<phase, todo, hand, tails, errors, pc>>
  BY <1>1 DEF thread, runner
<1>3. /\ ToSet(notifyQ) \subseteq ToSet(notifyQ')
      /\ ToSet(notifyQ') \subseteq ToSet(notifyQ) \union {newest}
      /\ ~ watching => notifyQ' = notifyQ
      /\ newest \in unseen => notifyQ' = notifyQ
      /\ watching /\ newest \notin unseen => newest \in ToSet(notifyQ') \/ newest \in dropped'
      /\ dropped \ {newest} \subseteq dropped'
  BY <1>1, NotifyIs DEF WInv
<1>4. Beginning'
  BY <1>1, <1>2, <1>3 DEF WInv, Beginning, Alive
<1>5. KnownIsOld'
  <2>1. \A f \in ToSet(notifyQ') : f <= newest
    <3>1. newest <= newest
      BY NodeType DEF WInv
    <3>2. QED
      BY <1>3, <3>1 DEF WInv, KnownIsOld
  <2>2. QED
    BY <1>1, <1>2, <2>1 DEF WInv, KnownIsOld
<1>6. UnseenIsUnknown'
  BY <1>1, <1>2, <1>3 DEF WInv, UnseenIsUnknown
<1>7. NoLostWakeup'
  <2> SUFFICES ASSUME NEW f \in Files, watching, errors = 0, tails[f] # Untracked,
                      tails[f] < size'[f], f \notin dropped'
               PROVE  (phase = "read" /\ hand = f) \/ f \in ToSet(notifyQ')
    BY <1>1, <1>2 DEF NoLostWakeup
  <2>1. CASE f = newest
    BY <1>3, <2>1 DEF WInv, UnseenIsUnknown
  <2>2. CASE f # newest
    <3>1. size'[f] = size[f] /\ f \notin dropped
      BY <1>1, <1>3, <2>2, ThreadHas DEF WInv
    <3>2. QED
      BY <1>3, <3>1 DEF WInv, NoLostWakeup
  <2>3. QED
    BY <2>1, <2>2
<1>8. QED
  BY <1>4, <1>5, <1>6, <1>7 DEF WInv

(* Other steps of the node and the watcher. *)
LEMMA NodeWakes ==
  ASSUME IndexerConstants, WInv, TInv', Rotate \/ Prune \/ WatchNewDir
  PROVE  WInv'
<1>1. UNCHANGED <<size, watching, notifyQ, dropped, thread, runner>>
  BY DEF Rotate, NodeRotate, Prune, NodePrune, WatchNewDir, DirWatched, node, watcher
<1>2. UNCHANGED <<phase, todo, hand, tails, errors, pc>>
  BY <1>1 DEF thread, runner
<1>3. \/ newest' = newest /\ unseen' \subseteq unseen
      \/ newest' = newest + 1 /\ unseen' \subseteq unseen \union {newest + 1}
  BY DEF Rotate, NodeRotate, Prune, NodePrune, WatchNewDir, DirWatched, node, watcher
<1>4. newest \in Nat /\ Files \subseteq Int /\ todo \subseteq Files /\ unseen \subseteq Files
      /\ ToSet(notifyQ) \subseteq Files /\ hand \in Files
  <2>1. newest \in Nat /\ Files \subseteq Int /\ NewDirs \subseteq Files
    BY NodeType DEF WInv, IndexerConstants, TailerAssumption
  <2>2. notifyQ \in Seq(Files) /\ todo \subseteq Files /\ unseen \subseteq NewDirs /\ hand \in Files
    BY ThreadHas DEF WInv
  <2>3. ToSet(notifyQ) \subseteq Files
    BY <2>2 DEF ToSet
  <2>4. QED
    BY <2>1, <2>2, <2>3
<1>5. newest' \in Int /\ newest <= newest' /\ newest + 1 \in Int /\ newest < newest + 1
  BY <1>3, <1>4
<1>6. Beginning' /\ NoLostWakeup'
  BY <1>1, <1>2 DEF WInv, Beginning, NoLostWakeup, Alive
<1>7. \A f \in Int : f <= newest => f <= newest' /\ f # newest + 1
  BY <1>4, <1>5
<1>8. KnownIsOld'
  <2>1. \A f \in unseen' : f <= newest'
    <3>1. \A f \in unseen : f <= newest'
      BY <1>4, <1>7 DEF WInv, KnownIsOld
    <3>2. newest' = newest + 1 => newest + 1 <= newest'
      BY <1>5
    <3>3. QED
      BY <1>3, <3>1, <3>2
  <2>2. QED
    BY <1>1, <1>2, <1>4, <1>7, <2>1 DEF WInv, KnownIsOld
<1>9. UnseenIsUnknown'
  <2> SUFFICES ASSUME watching, NEW f \in unseen'
               PROVE  /\ f \notin todo /\ tails[f] = Untracked /\ f \notin ToSet(notifyQ)
                      /\ phase = "read" => hand # f
    BY <1>1, <1>2 DEF UnseenIsUnknown
  <2>1. CASE f \in unseen
    BY <2>1 DEF WInv, UnseenIsUnknown
  <2>2. CASE f = newest + 1 /\ newest' = newest + 1
    <3>1. newest' \in Files
      <4>1. oldest' \in Files /\ newest' \in oldest' .. NumFiles /\ NumFiles \in Nat
        BY NodeType DEF WInv, TInv, IndexerTypeOK, TypeOK
      <4>2. QED
        BY <4>1 DEF Files
    <3>2. QED
      BY <1>4, <1>7, <2>2, <3>1 DEF WInv, KnownIsOld
  <2>3. QED
    BY <1>3, <2>1, <2>2
<1>10. QED
  BY <1>6, <1>8, <1>9 DEF WInv

(* A step of the thread that hears nothing. *)
LEMMA SweepWakes ==
  ASSUME IndexerConstants, WInv, TInv', TailerStep,
         Collect \/ Watch \/ SweepOpen \/ SweepSkip \/ SweepDone
  PROVE  WInv'
<1>1. Alive /\ pc' = pc
  BY DEF TailerStep, runner
<1>2. UNCHANGED <<node, notifyQ, dropped, tails>>
  BY DEF Collect, Watch, SweepOpen, SweepSkip, SweepDone, watcher
<1>3. UNCHANGED <<newest, size>>
  BY <1>2 DEF node
<1>4. CASE Collect
  <2>1. /\ phase = "collect" /\ phase' = "watch" /\ todo' \subseteq Existing
        /\ UNCHANGED <<watching, unseen, hand, errors>>
    BY <1>4 DEF Collect, SeekTo, watcher
  <2>2. ~ watching
    BY <2>1 DEF WInv, Beginning
  <2>3. \A f \in todo' : f <= newest
    BY <2>1, NodeType DEF Existing, WInv
  <2>4. QED
    BY <1>1, <1>2, <1>3, <2>1, <2>2, <2>3
       DEF WInv, Beginning, KnownIsOld, UnseenIsUnknown, NoLostWakeup, Alive
<1>5. CASE Watch
  <2>1. /\ phase = "watch" /\ phase' = "sweep" /\ watching' = TRUE /\ unseen' = {}
        /\ UNCHANGED <<todo, hand, errors>>
    BY <1>5 DEF Watch
  <2>2. \A f \in Files : tails[f] = Untracked
    BY <2>1 DEF WInv, Beginning, NoTails
  <2>3. QED
    BY <1>1, <1>2, <1>3, <2>1, <2>2
       DEF WInv, Beginning, KnownIsOld, UnseenIsUnknown, NoLostWakeup, Alive
<1>6. CASE SweepOpen
  <2>1. PICK f \in Existing : NextFile(f) /\ todo' = todo \ {f} /\ hand' = f
    BY <1>6 DEF SweepOpen
  <2>2. /\ phase = "sweep" /\ phase' = "read" /\ UNCHANGED <<watching, unseen, errors>>
    BY <1>6 DEF SweepOpen, watcher
  <2>3. f \in todo /\ f <= newest
    BY <2>1 DEF NextFile, WInv, KnownIsOld
  <2>4. QED
    BY <1>1, <1>2, <1>3, <2>1, <2>2, <2>3
       DEF WInv, Beginning, KnownIsOld, UnseenIsUnknown, NoLostWakeup, Alive
<1>7. CASE SweepSkip \/ SweepDone
  <2>1. /\ phase = "sweep" /\ phase' \in {"sweep", "wait"} /\ todo' \subseteq todo
        /\ UNCHANGED <<watching, unseen, hand>>
    BY <1>7 DEF SweepSkip, SweepDone, watcher
  <2>2. errors' = 0 => errors = 0
    <3>1. errors' = errors \/ errors' = errors + 1
      BY <1>7 DEF SweepSkip, SweepDone, Error
    <3>2. errors \in Nat
      BY ThreadHas DEF WInv
    <3>3. QED
      BY <3>1, <3>2
  <2>3. QED
    BY <1>1, <1>2, <1>3, <2>1, <2>2
       DEF WInv, Beginning, KnownIsOld, UnseenIsUnknown, NoLostWakeup, Alive
<1>8. QED
  BY <1>4, <1>5, <1>6, <1>7

(* The thread takes an event off the queue and then reads the file. *)
LEMMA FollowWakes ==
  ASSUME IndexerConstants, WInv, TInv', TailerStep, Notified \/ NotifiedSkip
  PROVE  WInv'
<1> DEFINE f == Head(notifyQ)
<1>1. /\ Alive /\ pc' = pc /\ phase = "wait" /\ notifyQ # << >> /\ notifyQ' = Tail(notifyQ)
      /\ UNCHANGED <<newest, size, watching, unseen, dropped, todo>>
  BY DEF TailerStep, runner, Notified, NotifiedSkip, TakeEvent, node
<1>2. notifyQ \in Seq(Files) /\ f \in Files
      /\ tails \in [Files -> 0 .. MaxLines \union {Untracked}]
  <2>1. notifyQ \in Seq(Files) /\ tails \in [Files -> 0 .. MaxLines \union {Untracked}]
    BY ThreadHas DEF WInv
  <2>2. f \in Files
    BY <1>1, <2>1
  <2>3. QED
    BY <2>1, <2>2
<1>3. f \in ToSet(notifyQ) /\ ToSet(notifyQ') \subseteq ToSet(notifyQ)
      /\ ToSet(notifyQ) \subseteq ToSet(notifyQ') \union {f}
  BY <1>1, <1>2, QueueTail
<1>4. watching /\ f <= newest
  BY <1>1, <1>3 DEF WInv, Beginning, KnownIsOld
<1>5. watching => f \notin unseen
  BY <1>3 DEF WInv, UnseenIsUnknown
<1> HIDE DEF f
<1>6. CASE Notified
  <2>1. phase' = "read" /\ hand' = f /\ errors' = errors
    BY <1>6 DEF Notified, f
  <2>2. \A g \in Files : g # f => tails'[g] = tails[g]
    BY <1>2, <1>6 DEF Notified, f
  <2>3. Beginning'
    BY <1>1, <1>4, <2>1 DEF WInv, Beginning, Alive
  <2>4. KnownIsOld'
    BY <1>1, <1>3, <1>4, <2>1, <2>2 DEF WInv, KnownIsOld
  <2>5. UnseenIsUnknown'
    <3>1. unseen \subseteq Files
      BY ThreadHas DEF WInv, IndexerConstants, TailerAssumption
    <3>2. QED
      BY <1>1, <1>3, <1>5, <2>1, <2>2, <3>1 DEF WInv, UnseenIsUnknown
  <2>6. NoLostWakeup'
    <3> SUFFICES ASSUME NEW g \in Files, watching, errors = 0, tails'[g] # Untracked,
                        tails'[g] < size[g], g \notin dropped, g # f
                 PROVE  g \in ToSet(notifyQ')
      BY <1>1, <2>1 DEF NoLostWakeup
    <3>1. g \in ToSet(notifyQ)
      BY <1>1, <2>2 DEF WInv, NoLostWakeup
    <3>2. QED
      BY <1>3, <3>1
  <2>7. QED
    BY <2>3, <2>4, <2>5, <2>6 DEF WInv
<1>7. CASE NotifiedSkip
  <2>1. /\ tails[f] = Untracked /\ UNCHANGED <<tails, phase, hand>>
        /\ errors' = errors \/ errors' = errors + 1
    BY <1>7 DEF NotifiedSkip, Error, f
  <2>2. errors' = 0 => errors = 0
    <3>1. errors \in Nat
      BY ThreadHas DEF WInv
    <3>2. QED
      BY <2>1, <3>1
  <2>3. Beginning'
    BY <1>1, <1>4, <2>1 DEF WInv, Beginning, Alive
  <2>4. KnownIsOld' /\ UnseenIsUnknown'
    BY <1>1, <1>3, <2>1 DEF WInv, KnownIsOld, UnseenIsUnknown
  <2>5. NoLostWakeup'
    BY <1>1, <1>3, <2>1, <2>2 DEF WInv, NoLostWakeup
  <2>6. QED
    BY <2>3, <2>4, <2>5 DEF WInv
<1>8. QED
  BY <1>6, <1>7

LEMMA ReadWakes ==
  ASSUME IndexerConstants, WInv, TInv', TailerStep, Emit \/ ReadEnd \/ ReadError
  PROVE  WInv'
<1>1. /\ Alive /\ pc' = pc /\ phase = "read"
      /\ UNCHANGED <<newest, size, watching, notifyQ, unseen, dropped, todo, hand>>
  BY DEF TailerStep, runner, Emit, ReadEnd, ReadError, node, watcher
<1>2. hand \in Files /\ hand <= newest /\ errors \in Nat
      /\ tails \in [Files -> 0 .. MaxLines \union {Untracked}] /\ unseen \subseteq Files
  BY <1>1, ThreadHas DEF WInv, KnownIsOld, IndexerConstants, TailerAssumption
<1>3. CASE Emit
  <2>1. UNCHANGED <<phase, tails, errors>>
    BY <1>3 DEF Emit
  <2>2. QED
    BY <1>1, <2>1 DEF WInv, Beginning, KnownIsOld, UnseenIsUnknown, NoLostWakeup, Alive
<1>4. CASE ReadEnd \/ ReadError
  <2>1. phase' \in {"sweep", "wait"} /\ \A g \in Files : g # hand => tails'[g] = tails[g]
    BY <1>2, <1>4 DEF ReadEnd, ReadError, Back
  <2>2. errors' = 0 => ReadEnd /\ errors' = errors
    <3>1. ReadError => errors' = errors + 1
      BY DEF ReadError, Error
    <3>2. errors + 1 # 0
      BY <1>2
    <3>3. QED
      BY <1>4, <3>1, <3>2 DEF ReadEnd
  <2>3. Beginning'
    BY <1>1, <2>1 DEF WInv, Beginning, Alive
  <2>4. KnownIsOld'
    BY <1>1, <1>2, <2>1 DEF WInv, KnownIsOld
  <2>5. UnseenIsUnknown'
    BY <1>1, <1>2, <2>1 DEF WInv, UnseenIsUnknown
  <2>6. NoLostWakeup'
    <3> SUFFICES ASSUME NEW g \in Files, watching, errors' = 0, tails'[g] # Untracked,
                        tails'[g] < size[g], g \notin dropped
                 PROVE  g \in ToSet(notifyQ)
      BY <1>1 DEF NoLostWakeup
    <3>1. g # hand
      <4>1. ReadEnd
        BY <2>2
      <4>2. at >= size[hand] /\ tails'[hand] = at
        BY <1>2, <4>1 DEF ReadEnd
      <4>3. at \in Int /\ size[hand] \in Int
        BY <1>2, ThreadHas DEF WInv
      <4>4. QED
        BY <4>2, <4>3
    <3>2. tails'[g] = tails[g] /\ errors = 0
      BY <2>1, <2>2, <3>1
    <3>3. QED
      BY <3>1, <3>2 DEF WInv, NoLostWakeup
  <2>7. QED
    BY <2>3, <2>4, <2>5, <2>6 DEF WInv
<1>5. QED
  BY <1>3, <1>4

(* Steps that neither the thread nor the watcher notices. *)
LEMMA SameWakes ==
  ASSUME WInv, TInv', UNCHANGED <<node, watcher, thread>>, Alive' = Alive
  PROVE  WInv'
BY DEF WInv, Beginning, KnownIsOld, UnseenIsUnknown, NoLostWakeup, node, watcher, thread

LEMMA NextWakes ==
  ASSUME IndexerConstants, WInv, [IndexerNext]_allVars
  PROVE  WInv'
<1>1. TInv'
  BY NextTypes DEF WInv
<1>2. CASE UNCHANGED allVars
  BY <1>1, <1>2, SameWakes DEF allVars, vars, runner, Alive
<1>3. CASE RunnerStep
  <2>1. RunnerDoes /\ UNCHANGED <<node, watcher, thread>>
    BY <1>3, RunnerIs DEF WInv
  <2>2. Alive' = Alive
    BY <2>1 DEF RunnerDoes, TakeLine, WriteLine, TickComes, CommitRows, SaveCheckpoint, Alive
  <2>3. QED
    BY <1>1, <2>1, <2>2, SameWakes
<1>4. CASE TailerStep
  BY <1>1, <1>4, SweepWakes, FollowWakes, ReadWakes DEF TailerStep, ThreadStep
<1>5. CASE Stop
  <2>1. /\ pc' = "down" /\ watching' = FALSE /\ unseen' = {} /\ notifyQ' = << >>
        /\ UNCHANGED <<node, thread>>
    BY <1>5, StopIs DEF WInv
  <2>2. QED
    BY <1>1, <2>1, QueueEmpty
       DEF WInv, Beginning, KnownIsOld, UnseenIsUnknown, NoLostWakeup, Alive, node, thread
<1>6. CASE Start
  <2>1. /\ pc = "down" /\ pc' = "select" /\ phase' = "collect" /\ todo' = {} /\ tails' = NoTails
        /\ UNCHANGED <<node, watcher>>
    BY <1>6, StartIs DEF WInv
  <2>2. ~ watching
    BY <2>1 DEF WInv, Beginning, Alive
  <2>3. \A f \in Files : tails'[f] = Untracked
    BY <2>1 DEF NoTails
  <2>4. QED
    BY <1>1, <2>1, <2>2, <2>3
       DEF WInv, Beginning, KnownIsOld, UnseenIsUnknown, NoLostWakeup, Alive, node, watcher
<1>7. QED
  BY <1>1, <1>2, <1>3, <1>4, <1>5, <1>6, AppendWakes, NodeWakes DEF IndexerNext

(* No notification is lost between the node, the watcher and the thread    *)
(* (NoLostWakeup), for any number of files, any queue and any new          *)
(* directories, over stops and restarts.                                   *)
THEOREM NoLostWakeupSafe ==
  ASSUME TailerAssumption, IndexerAssumption
  PROVE  IndexerSpec => []NoLostWakeup
<1>1. IndexerInit => WInv
  BY InitWakes DEF IndexerConstants
<1>2. WInv /\ [IndexerNext]_allVars => WInv'
  BY NextWakes DEF IndexerConstants
<1>3. WInv => NoLostWakeup
  BY DEF WInv
<1>4. QED
  BY <1>1, <1>2, <1>3, PTL DEF IndexerSpec

-----------------------------------------------------------------------------
(* Why SentOnce holds.  As long as no read has failed, the place at which  *)
(* a file is read, or would be read next, is the last line sent of it, or  *)
(* the one before the first that is due.                                   *)

InHand(f) == phase = "read" /\ hand = f

(* The line of f after which the next one to be sent comes. *)
SentTo(f) == IF sent[f] = Untracked THEN SweepFrom(f) ELSE sent[f]

ReadsOn    == \A f \in Files : InHand(f) => at = SentTo(f)
KeptPlace  == \A f \in Files : ~ InHand(f) /\ tails[f] # Untracked => tails[f] = SentTo(f)
NotBegun   == \A f \in Files : ~ InHand(f) /\ tails[f] = Untracked => sent[f] = Untracked
ToSweep    == \A f \in todo : tails[f] = Untracked /\ ~ InHand(f)
(* The file of the checkpoint is swept first, unless it is gone: a later   *)
(* notification cannot begin it from its beginning.                        *)
StartKnown ==
  start # NoPos /\ phase # "collect" =>
    \/ FileOf(start) \in todo \/ tails[FileOf(start)] # Untracked
    \/ InHand(FileOf(start)) \/ FileOf(start) < oldest
Sweeps ==
  /\ ~ sweeping => todo = {}
  /\ phase = "wait" => ~ sweeping
  /\ phase \in {"collect", "watch", "sweep"} => sweeping
Fresh == phase \in {"collect", "watch"} => sent = NoTails /\ tails = NoTails

Orderly == ReadsOn /\ KeptPlace /\ NotBegun /\ ToSweep /\ StartKnown /\ Sweeps /\ Fresh

OInv == TInv /\ (Alive /\ errors = 0 => Orderly)

LEMMA InitOrders == IndexerConstants /\ IndexerInit => OInv
<1> SUFFICES ASSUME IndexerConstants, IndexerInit PROVE OInv
  OBVIOUS
<1>1. TInv
  BY InitTypes
<1>2. /\ phase = "collect" /\ tails = NoTails /\ sent = NoTails /\ todo = {} /\ sweeping = TRUE
  BY DEF IndexerInit, InitThread
<1>3. \A f \in Files : tails[f] = Untracked /\ sent[f] = Untracked
  BY <1>2 DEF NoTails
<1>4. QED
  BY <1>1, <1>2, <1>3
     DEF OInv, Orderly, ReadsOn, KeptPlace, NotBegun, ToSweep, StartKnown, Sweeps, Fresh, InHand

(* The file of the start position. *)
LEMMA StartFile ==
  ASSUME IndexerConstants, TInv, start # NoPos
  PROVE  FileOf(start) \in Files /\ FileOf(start) <= newest
         /\ (FileOf(start) \in Existing \/ FileOf(start) < oldest)
<1>1. start \in Written
  BY DEF TInv, Positions
<1>2. FileOf(start) \in Files /\ FileOf(start) <= newest
  BY <1>1, WrittenPlace
<1>3. FileOf(start) \in Existing \/ FileOf(start) < oldest
  <2>1. newest \in Nat /\ oldest \in Nat /\ FileOf(start) \in Int
    BY <1>2, NodeType
  <2>2. QED
    BY <1>2, <2>1 DEF Existing
<1>4. QED
  BY <1>2, <1>3

(* An error ends what is promised; without one the step has made none. *)
LEMMA NoErrorYet ==
  ASSUME IndexerConstants, TInv, errors' = 0, Error \/ UNCHANGED errors
  PROVE  errors = 0 /\ ~ Error
<1>1. errors \in Nat
  BY ThreadHas
<1>2. Error => errors' = errors + 1
  BY DEF Error
<1>3. QED
  BY <1>1, <1>2

LEMMA CollectOrders ==
  ASSUME IndexerConstants, TInv, Orderly, Collect
  PROVE  Orderly'
<1>1. /\ phase = "collect" /\ phase' = "watch"
      /\ todo' = IF start = NoPos THEN {} ELSE SeekTo(Existing, start)
      /\ UNCHANGED <<node, watcher, start, sweeping, hand, at, tails, errors, sent, lineCh>>
  BY DEF Collect
<1>2. sent = NoTails /\ tails = NoTails /\ sweeping
  BY <1>1 DEF Orderly, Fresh, Sweeps
<1>3. \A f \in Files : tails[f] = Untracked /\ sent[f] = Untracked
  BY <1>2 DEF NoTails
<1>4. todo' \subseteq Files
  <2>1. Existing \subseteq Files
    BY NodeType DEF Existing
  <2>2. QED
    BY <1>1, <2>1 DEF SeekTo
<1>5. start # NoPos => FileOf(start) \in todo' \/ FileOf(start) < oldest
  <2>1. ASSUME start # NoPos, FileOf(start) \in Existing PROVE FileOf(start) \in todo'
    <3>1. FileOf(start) \in Files
      BY <2>1, StartFile
    <3>2. PathOrder[FileOf(start)] \in Int
      BY <3>1, NodeType DEF IndexerConstants, TailerAssumption
    <3>3. PathOrder[FileOf(start)] >= PathOrder[FileOf(start)]
      BY <3>2
    <3>4. QED
      BY <1>1, <2>1, <3>3 DEF SeekTo
  <2>2. QED
    BY <2>1, StartFile
<1>6. oldest' = oldest
  BY <1>1 DEF node
<1>7. ReadsOn' /\ KeptPlace' /\ NotBegun' /\ ToSweep'
  BY <1>1, <1>3, <1>4 DEF ReadsOn, KeptPlace, NotBegun, ToSweep, InHand
<1>8. StartKnown' /\ Sweeps' /\ Fresh'
  BY <1>1, <1>2, <1>5, <1>6 DEF StartKnown, Sweeps, Fresh
<1>9. QED
  BY <1>7, <1>8 DEF Orderly

LEMMA SweepOrders ==
  ASSUME IndexerConstants, TInv, Orderly, errors' = 0,
         Watch \/ SweepOpen \/ SweepSkip \/ SweepDone
  PROVE  Orderly'
<1>1. /\ UNCHANGED <<start, tails, sent, oldest>> /\ phase # "read" /\ phase # "collect"
      /\ todo \subseteq Files
  BY ThreadHas DEF Watch, SweepOpen, SweepSkip, SweepDone, node
<1>2. \A f : SentTo(f)' = SentTo(f)
  BY <1>1 DEF SentTo, SweepFrom
<1>3. CASE Watch \/ SweepDone
  <2>1. /\ todo' = todo /\ phase' \in {"sweep", "wait"} /\ phase \in {"watch", "sweep"}
        /\ SweepDone => todo = {} /\ sweeping' = FALSE
        /\ Watch => phase' = "sweep" /\ sweeping' = sweeping
    BY <1>3 DEF Watch, SweepDone
  <2>2. ReadsOn' /\ KeptPlace' /\ NotBegun' /\ ToSweep'
    BY <1>1, <1>2, <2>1 DEF Orderly, ReadsOn, KeptPlace, NotBegun, ToSweep, InHand
  <2>3. StartKnown' /\ Fresh'
    BY <1>1, <2>1 DEF Orderly, StartKnown, Fresh, InHand
  <2>4. Sweeps'
    BY <1>3, <2>1 DEF Orderly, Sweeps, SweepDone
  <2>5. QED
    BY <2>2, <2>3, <2>4 DEF Orderly
<1>4. CASE SweepOpen
  <2>1. PICK f \in Existing : NextFile(f) /\ todo' = todo \ {f} /\ hand' = f /\ at' = SweepFrom(f)
    BY <1>4 DEF SweepOpen
  <2>2. phase = "sweep" /\ phase' = "read" /\ sweeping' = sweeping
    BY <1>4 DEF SweepOpen
  <2>3. f \in todo /\ f \in Files /\ tails[f] = Untracked /\ sent[f] = Untracked
    BY <1>1, <2>1 DEF NextFile, Orderly, ToSweep, NotBegun
  <2>4. at' = SentTo(f)
    BY <2>1, <2>3 DEF SentTo
  <2>5. ReadsOn' /\ KeptPlace' /\ NotBegun' /\ ToSweep'
    BY <1>1, <1>2, <2>1, <2>2, <2>4 DEF Orderly, ReadsOn, KeptPlace, NotBegun, ToSweep, InHand
  <2>6. StartKnown'
    BY <1>1, <2>1, <2>2 DEF Orderly, StartKnown, InHand
  <2>7. Sweeps' /\ Fresh'
    BY <2>1, <2>2 DEF Orderly, Sweeps, Fresh
  <2>8. QED
    BY <2>5, <2>6, <2>7 DEF Orderly
<1>5. CASE SweepSkip
  <2>1. PICK f \in Files : /\ NextFile(f) /\ todo' = todo \ {f}
                           /\ IF f \in Existing THEN Error ELSE UNCHANGED errors
    BY <1>5 DEF SweepSkip
  <2>2. UNCHANGED <<phase, sweeping, hand, at>> /\ phase = "sweep"
    BY <1>5 DEF SweepSkip
  <2>3. f \notin Existing
    BY <2>1, NoErrorYet
  <2>4. start # NoPos /\ f = FileOf(start) => FileOf(start) < oldest
    BY <2>3, StartFile
  <2>5. ReadsOn' /\ KeptPlace' /\ NotBegun' /\ ToSweep'
    BY <1>1, <1>2, <2>1, <2>2 DEF Orderly, ReadsOn, KeptPlace, NotBegun, ToSweep, InHand
  <2>6. StartKnown'
    BY <1>1, <2>1, <2>2, <2>4 DEF Orderly, StartKnown, InHand
  <2>7. Sweeps' /\ Fresh'
    BY <2>1, <2>2 DEF Orderly, Sweeps, Fresh
  <2>8. QED
    BY <2>5, <2>6, <2>7 DEF Orderly
<1>6. QED
  BY <1>3, <1>4, <1>5

LEMMA FollowOrders ==
  ASSUME IndexerConstants, TInv, Orderly, errors' = 0, Notified \/ NotifiedSkip
  PROVE  Orderly'
<1>1. /\ UNCHANGED <<start, todo, sweeping, sent, oldest>> /\ phase = "wait" /\ notifyQ # << >>
      /\ ~ sweeping /\ todo = {}
  BY DEF Notified, NotifiedSkip, node, Orderly, Sweeps
<1>2. \A f : SentTo(f)' = SentTo(f)
  BY <1>1 DEF SentTo, SweepFrom
<1>3. CASE NotifiedSkip
  <2>1. UNCHANGED <<phase, hand, at, tails>>
    BY <1>3 DEF NotifiedSkip
  <2>2. ReadsOn' /\ KeptPlace' /\ NotBegun' /\ ToSweep'
    BY <1>1, <1>2, <2>1 DEF Orderly, ReadsOn, KeptPlace, NotBegun, ToSweep, InHand
  <2>3. StartKnown' /\ Sweeps' /\ Fresh'
    BY <1>1, <2>1 DEF Orderly, StartKnown, Sweeps, Fresh, InHand
  <2>4. QED
    BY <2>2, <2>3 DEF Orderly
<1>4. CASE Notified
  <2> DEFINE f == Head(notifyQ)
  <2>1. /\ tails[f] # Untracked \/ f \in Existing
        /\ phase' = "read" /\ hand' = f /\ at' = TailOf(f)
        /\ tails' = [tails EXCEPT ![f] = TailOf(f)]
    BY <1>4 DEF Notified
  <2>2. f \in Files /\ tails \in [Files -> 0 .. MaxLines \union {Untracked}] /\ ~ InHand(f)
    <3>1. notifyQ \in Seq(Files) /\ tails \in [Files -> 0 .. MaxLines \union {Untracked}]
      BY ThreadHas
    <3>2. f \in Files
      BY <1>1, <3>1
    <3>3. ~ InHand(f)
      BY <1>1 DEF InHand
    <3>4. QED
      BY <3>1, <3>2, <3>3
  <2> HIDE DEF f
  <2>3. TailOf(f) = SentTo(f)
    <3>1. CASE tails[f] # Untracked
      BY <2>2, <3>1 DEF Orderly, KeptPlace, TailOf
    <3>2. CASE tails[f] = Untracked
      <4>1. sent[f] = Untracked
        BY <2>2, <3>2 DEF Orderly, NotBegun
      <4>2. ~ (start # NoPos /\ f = FileOf(start))
        <5>1. SUFFICES ASSUME start # NoPos, f = FileOf(start) PROVE FALSE
          OBVIOUS
        <5>2. f < oldest
          BY <1>1, <2>2, <3>2, <5>1 DEF Orderly, StartKnown
        <5>3. f \in oldest .. newest
          BY <2>1, <3>2 DEF Existing
        <5>4. oldest \in Int /\ newest \in Int
          BY NodeType
        <5>5. QED
          BY <5>2, <5>3, <5>4
      <4>3. QED
        BY <3>2, <4>1, <4>2 DEF SentTo, SweepFrom, TailOf
    <3>3. QED
      BY <3>1, <3>2
  <2>4. \A g \in Files : g # f => tails'[g] = tails[g] /\ ~ InHand(g)
    BY <1>1, <2>1, <2>2 DEF InHand
  <2>5. \A g \in Files : InHand(g)' <=> g = f
    BY <2>1 DEF InHand
  <2>6. ReadsOn'
    BY <1>2, <2>1, <2>3, <2>5 DEF ReadsOn
  <2>7. KeptPlace' /\ NotBegun' /\ ToSweep'
    BY <1>1, <1>2, <2>4, <2>5 DEF Orderly, KeptPlace, NotBegun, ToSweep
  <2>8. StartKnown'
    <3>1. SUFFICES ASSUME start # NoPos PROVE StartKnown'
      BY <1>1 DEF StartKnown
    <3>2. FileOf(start) \in Files
      BY <3>1, StartFile
    <3>3. QED
      BY <1>1, <2>4, <2>5, <3>2 DEF Orderly, StartKnown
  <2>9. Sweeps' /\ Fresh'
    BY <1>1, <2>1 DEF Sweeps, Fresh
  <2>10. QED
    BY <2>6, <2>7, <2>8, <2>9 DEF Orderly
<1>5. QED
  BY <1>3, <1>4

LEMMA ReadOrders ==
  ASSUME IndexerConstants, TInv, Orderly, errors' = 0, Emit \/ ReadEnd \/ ReadError
  PROVE  Orderly'
<1>1. /\ UNCHANGED <<start, todo, sweeping, oldest, hand>> /\ phase = "read"
  BY DEF Emit, ReadEnd, ReadError, node
<1>2. /\ hand \in Files /\ at \in Nat /\ todo \subseteq Files /\ errors \in Nat
      /\ tails \in [Files -> 0 .. MaxLines \union {Untracked}]
      /\ sent \in [Files -> 0 .. MaxLines \union {Untracked}]
  BY ThreadHas
<1>3. InHand(hand) /\ hand \notin todo /\ at = SentTo(hand)
  BY <1>1, <1>2 DEF InHand, Orderly, ReadsOn, ToSweep
<1>4. ~ ReadError
  BY NoErrorYet DEF ReadError
<1>5. CASE Emit
  <2>1. /\ UNCHANGED <<phase, tails>> /\ at' = at + 1
        /\ sent' = [sent EXCEPT ![hand] = at + 1]
    BY <1>5 DEF Emit
  <2>2. at + 1 # Untracked
    BY <1>2 DEF Untracked
  <2>3. sent'[hand] = at + 1 /\ \A g \in Files : g # hand => sent'[g] = sent[g]
    BY <1>2, <2>1
  <2>4. \A g \in Files : InHand(g)' <=> InHand(g)
    BY <1>1, <2>1 DEF InHand
  <2>5. \A g \in Files : InHand(g) <=> g = hand
    BY <1>1 DEF InHand
  <2>6. \A g \in Files : SentTo(g)' = IF g = hand THEN at + 1 ELSE SentTo(g)
    BY <1>1, <2>2, <2>3 DEF SentTo, SweepFrom
  <2>7. ReadsOn' /\ KeptPlace' /\ NotBegun' /\ ToSweep'
    <3>1. ReadsOn'
      BY <2>1, <2>4, <2>5, <2>6 DEF ReadsOn
    <3>2. KeptPlace' /\ NotBegun'
      BY <2>1, <2>3, <2>4, <2>5, <2>6 DEF Orderly, KeptPlace, NotBegun
    <3>3. ToSweep'
      BY <1>1, <1>2, <2>1, <2>4 DEF Orderly, ToSweep
    <3>4. QED
      BY <3>1, <3>2, <3>3
  <2>8. StartKnown' /\ Sweeps' /\ Fresh'
    BY <1>1, <2>1 DEF Orderly, StartKnown, Sweeps, Fresh, InHand
  <2>9. QED
    BY <2>7, <2>8 DEF Orderly
<1>6. CASE ReadEnd
  <2>1. /\ UNCHANGED <<sent, at>> /\ phase' = IF sweeping THEN "sweep" ELSE "wait"
        /\ tails' = [tails EXCEPT ![hand] = at]
    BY <1>6 DEF ReadEnd, Back
  <2>2. tails'[hand] = at /\ at # Untracked /\ \A g \in Files : g # hand => tails'[g] = tails[g]
    BY <1>2, <2>1 DEF Untracked
  <2>3. \A g \in Files : ~ InHand(g)' /\ (g # hand => ~ InHand(g))
    BY <1>1, <2>1 DEF InHand
  <2>4. \A g \in Files : SentTo(g)' = SentTo(g)
    BY <1>1, <2>1 DEF SentTo, SweepFrom
  <2>5. ReadsOn' /\ KeptPlace' /\ NotBegun'
    BY <1>3, <2>1, <2>2, <2>3, <2>4 DEF Orderly, ReadsOn, KeptPlace, NotBegun
  <2>6. ToSweep'
    BY <1>1, <1>2, <1>3, <2>2, <2>3 DEF Orderly, ToSweep
  <2>7. StartKnown'
    <3>1. SUFFICES ASSUME start # NoPos PROVE StartKnown'
      BY <1>1 DEF StartKnown
    <3>2. FileOf(start) \in Files
      BY <3>1, StartFile
    <3>3. CASE FileOf(start) = hand
      BY <1>1, <2>2, <3>3 DEF StartKnown
    <3>4. CASE FileOf(start) # hand
      <4>1. ~ InHand(FileOf(start)) /\ tails'[FileOf(start)] = tails[FileOf(start)]
        BY <2>2, <2>3, <3>2, <3>4
      <4>2. FileOf(start) \in todo \/ tails[FileOf(start)] # Untracked \/ FileOf(start) < oldest
        BY <1>1, <3>1, <4>1 DEF Orderly, StartKnown
      <4>3. QED
        BY <1>1, <4>1, <4>2 DEF StartKnown
    <3>5. QED
      BY <3>3, <3>4
  <2>8. Sweeps' /\ Fresh'
    BY <1>1, <2>1 DEF Orderly, Sweeps, Fresh
  <2>9. QED
    BY <2>5, <2>6, <2>7, <2>8 DEF Orderly
<1>7. QED
  BY <1>4, <1>5, <1>6

(* Steps of the node, the watcher and the runner. *)
LEMMA SameOrders ==
  ASSUME Orderly, UNCHANGED thread, oldest <= oldest', oldest \in Int, oldest' \in Int,
         start # NoPos => FileOf(start) \in Int
  PROVE  Orderly'
<1>1. UNCHANGED <<phase, start, todo, sweeping, hand, at, tails, sent>>
  BY DEF thread
<1>2. ReadsOn' /\ KeptPlace' /\ NotBegun' /\ ToSweep' /\ Sweeps' /\ Fresh'
  BY <1>1 DEF Orderly, ReadsOn, KeptPlace, NotBegun, ToSweep, Sweeps, Fresh, InHand, SentTo, SweepFrom
<1>3. StartKnown'
  BY <1>1 DEF Orderly, StartKnown, InHand
<1>4. QED
  BY <1>2, <1>3 DEF Orderly

LEMMA NextOrders ==
  ASSUME IndexerConstants, OInv, [IndexerNext]_allVars
  PROVE  OInv'
<1>1. TInv'
  BY NextTypes DEF OInv
<1> SUFFICES ASSUME Alive', errors' = 0 PROVE Orderly'
  BY <1>1 DEF OInv
<1>2. /\ oldest \in Int
      /\ start # NoPos => FileOf(start) \in Int
  BY NodeType, StartFile DEF OInv
<1>3. CASE TailerStep
  <2>1. Alive /\ ThreadStep
    BY <1>3 DEF TailerStep
  <2>2. errors = 0
    <3>1. Error \/ UNCHANGED errors
      BY <2>1 DEF ThreadStep, Collect, Watch, SweepOpen, SweepSkip, SweepDone, Notified,
         NotifiedSkip, Emit, ReadEnd, ReadError
    <3>2. QED
      BY <3>1, NoErrorYet DEF OInv
  <2>3. QED
    BY <2>1, <2>2, CollectOrders, SweepOrders, FollowOrders, ReadOrders DEF ThreadStep, OInv
<1>4. CASE Start
  <2>1. /\ phase' = "collect" /\ todo' = {} /\ sweeping' = TRUE
        /\ tails' = NoTails /\ sent' = NoTails
    BY <1>4, StartIs DEF OInv
  <2>2. \A f \in Files : tails'[f] = Untracked /\ sent'[f] = Untracked
    BY <2>1 DEF NoTails
  <2>3. QED
    BY <2>1, <2>2
       DEF Orderly, ReadsOn, KeptPlace, NotBegun, ToSweep, StartKnown, Sweeps, Fresh, InHand
<1>5. CASE Stop
  BY <1>5, StopIs DEF OInv, Alive
<1>6. CASE RunnerStep
  <2>1. UNCHANGED <<node, thread>> /\ RunnerDoes
    BY <1>6, RunnerIs DEF OInv
  <2>2. Alive
    BY <2>1 DEF RunnerDoes, TakeLine, WriteLine, TickComes, CommitRows, SaveCheckpoint, Alive
  <2>3. oldest' = oldest /\ errors' = errors
    BY <2>1 DEF node, thread
  <2>4. QED
    BY <1>2, <2>1, <2>2, <2>3, SameOrders DEF OInv
<1>7. CASE Append1 \/ Rotate \/ Prune \/ WatchNewDir \/ UNCHANGED allVars
  <2>1. UNCHANGED <<thread, runner>> /\ (oldest' = oldest \/ oldest' = oldest + 1)
    BY <1>7 DEF Append1, NodeAppend, Rotate, NodeRotate, Prune, NodePrune, WatchNewDir, DirWatched,
       node, allVars, vars
  <2>2. Alive /\ errors = 0
    BY <2>1 DEF thread, runner, Alive
  <2>3. oldest <= oldest' /\ oldest' \in Int
    BY <1>2, <2>1
  <2>4. QED
    BY <1>2, <2>1, <2>2, <2>3, SameOrders DEF OInv
<1>8. QED
  BY <1>3, <1>4, <1>5, <1>6, <1>7 DEF IndexerNext

(* What one step sends. *)
SendsNext ==
  \A f \in Files : sent'[f] \notin {sent[f], Untracked} /\ errors = 0 =>
    sent'[f] = IF sent[f] = Untracked THEN SweepFrom(f) + 1 ELSE sent[f] + 1

LEMMA StepSends ==
  ASSUME IndexerConstants, OInv, [IndexerNext]_allVars
  PROVE  [SendsNext]_vars
<1> SUFFICES ASSUME NEW f \in Files, sent'[f] \notin {sent[f], Untracked}, errors = 0
             PROVE  sent'[f] = IF sent[f] = Untracked THEN SweepFrom(f) + 1 ELSE sent[f] + 1
  BY DEF SendsNext
<1>1. sent' # sent
  OBVIOUS
<1>2. ~ Start
  <2>1. ASSUME Start PROVE FALSE
    <3>1. sent' = NoTails
      BY <2>1, StartIs DEF OInv
    <3>2. QED
      BY <3>1 DEF NoTails
  <2>2. QED
    BY <2>1
<1>3. TailerStep
  <2>1. RunnerStep => sent' = sent
    BY DEF RunnerStep, thread
  <2>2. QED
    BY <1>1, <1>2, <2>1 DEF IndexerNext, Append1, NodeAppend, Rotate, NodeRotate, Prune, NodePrune,
       WatchNewDir, DirWatched, Stop, thread, allVars, vars
<1>4. Emit /\ Alive
  BY <1>1, <1>3 DEF TailerStep, ThreadStep, Collect, Watch, SweepOpen, SweepSkip, SweepDone,
     Notified, NotifiedSkip, ReadEnd, ReadError
<1>5. sent \in [Files -> 0 .. MaxLines \union {Untracked}] /\ hand \in Files
  BY ThreadHas DEF OInv
<1>6. f = hand /\ sent'[f] = at + 1
  BY <1>4, <1>5 DEF Emit
<1>7. at = SentTo(f)
  BY <1>4, <1>6 DEF OInv, Orderly, ReadsOn, InHand, Emit
<1>8. QED
  BY <1>6, <1>7 DEF SentTo

(* Within a process every line of a file is sent once and in order         *)
(* (SentOnce), whichever of the sweep and a notification comes first, as   *)
(* long as no read fails.                                                  *)
THEOREM SentOnceSafe ==
  ASSUME TailerAssumption, IndexerAssumption
  PROVE  IndexerSpec => SentOnce
<1>1. IndexerInit => OInv
  BY InitOrders DEF IndexerConstants
<1>2. OInv /\ [IndexerNext]_allVars => OInv'
  BY NextOrders DEF IndexerConstants
<1>3. OInv /\ [IndexerNext]_allVars => [SendsNext]_vars
  BY StepSends DEF IndexerConstants
<1>4. IndexerSpec => [][SendsNext]_vars
  BY <1>1, <1>2, <1>3, PTL DEF IndexerSpec
<1>5. QED
  BY <1>4 DEF SentOnce, SendsNext
=============================================================================
