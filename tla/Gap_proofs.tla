----------------------------- MODULE Gap_proofs ------------------------------
(***************************************************************************)
(* Proofs about what a restart may rely on in Indexer: where nothing in    *)
(* its surroundings is lost, no line owed is passed by a checkpoint        *)
(* (NoGap), and nothing up to the checkpoint is written again              *)
(* (ResumesFromCheckpoint).                                                *)
(***************************************************************************)
EXTENDS Indexer_proofs

(* The node names its files so that they sort in the order it begins them. *)
PathsInOrder == \A f, g \in Files : f < g => PathOrder[f] < PathOrder[g]

(* data_dir is canonical and files can be read. *)
Undisturbed == PathsInOrder /\ RawIsCanonical /\ MaxErrors = 0

(* Moreover no event is lost: no file is begun between collecting and      *)
(* watching or in a directory that is not watched yet, none is deleted,    *)
(* and the watcher's queue has room for an event of each.                  *)
Calm == /\ Undisturbed /\ CalmStart
        /\ MaxPrunes = 0 /\ NewDirs = {} /\ NumFiles <= NotifyCap

-----------------------------------------------------------------------------
(* The order of lines. *)

LEMMA LineNumber ==
  ASSUME IndexerConstants, NEW p \in 1 .. NumLines
  PROVE  /\ FileOf(p) \in Files /\ LineOf(p) \in 1 .. MaxLines
         /\ p = (FileOf(p) - 1) * MaxLines + LineOf(p)
BY Places DEF Id

LEMMA EarlierFile ==
  ASSUME IndexerConstants, NEW p \in 1 .. NumLines, NEW q \in 1 .. NumLines,
         FileOf(p) < FileOf(q)
  PROVE  p < q
<1>1. PICK f \in Int, g \in Int, i \in Int, k \in Int :
        /\ f = FileOf(p) /\ g = FileOf(q) /\ i = LineOf(p) /\ k = LineOf(q)
        /\ i <= MaxLines /\ k >= 1 /\ MaxLines \in Nat /\ f <= g - 1
        /\ p = (f - 1) * MaxLines + i /\ q = (g - 1) * MaxLines + k
  <2>1. MaxLines \in Nat /\ NumFiles \in Nat
    BY DEF IndexerConstants, TailerAssumption
  <2>2. /\ FileOf(p) \in Int /\ FileOf(q) \in Int /\ LineOf(p) \in 1 .. MaxLines
        /\ LineOf(q) \in 1 .. MaxLines /\ p = (FileOf(p) - 1) * MaxLines + LineOf(p)
        /\ q = (FileOf(q) - 1) * MaxLines + LineOf(q)
    BY LineNumber, <2>1 DEF Files
  <2>3. \A f, g \in Int : f < g => f <= g - 1
    OBVIOUS
  <2>4. FileOf(p) <= FileOf(q) - 1
    BY <2>2, <2>3
  <2>5. QED
    BY <2>1, <2>2, <2>4
<1>2. f * MaxLines <= (g - 1) * MaxLines /\ f * MaxLines \in Int /\ (g - 1) * MaxLines \in Int
  BY <1>1, MulMono
<1>3. (f - 1) * MaxLines = f * MaxLines - MaxLines
  BY <1>1
<1>4. QED
  BY <1>1, <1>2, <1>3

LEMMA SameFile ==
  ASSUME IndexerConstants, NEW p \in 1 .. NumLines, NEW q \in 1 .. NumLines,
         FileOf(p) = FileOf(q)
  PROVE  p < q <=> LineOf(p) < LineOf(q)
<1>1. PICK f \in Int, i \in Int, k \in Int :
        /\ f = FileOf(p) /\ i = LineOf(p) /\ k = LineOf(q) /\ MaxLines \in Nat
        /\ p = (f - 1) * MaxLines + i /\ q = (f - 1) * MaxLines + k
  <2>1. MaxLines \in Nat /\ NumFiles \in Nat
    BY DEF IndexerConstants, TailerAssumption
  <2>2. /\ FileOf(p) \in Int /\ LineOf(p) \in Int /\ LineOf(q) \in Int
        /\ p = (FileOf(p) - 1) * MaxLines + LineOf(p)
        /\ q = (FileOf(p) - 1) * MaxLines + LineOf(q)
    BY LineNumber, <2>1 DEF Files
  <2>3. QED
    BY <2>1, <2>2
<1>2. PICK b \in Int : b = (f - 1) * MaxLines
  BY <1>1
<1>3. p = b + i /\ q = b + k
  BY <1>1, <1>2
<1>4. QED
  BY <1>1, <1>3

LEMMA LineOrder ==
  ASSUME IndexerConstants, NEW p \in 1 .. NumLines, NEW q \in 1 .. NumLines
  PROVE  p < q <=> \/ FileOf(p) < FileOf(q)
                   \/ FileOf(p) = FileOf(q) /\ LineOf(p) < LineOf(q)
<1>1. FileOf(p) \in Int /\ FileOf(q) \in Int /\ p \in Int /\ q \in Int
  <2>1. NumFiles \in Nat /\ NumLines \in Nat
    BY DEF IndexerConstants, TailerAssumption, NumLines
  <2>2. QED
    BY <2>1, Places DEF Files
<1>2. CASE FileOf(p) < FileOf(q)
  BY <1>2, EarlierFile
<1>3. CASE FileOf(p) = FileOf(q)
  BY <1>1, <1>3, SameFile
<1>4. CASE FileOf(q) < FileOf(p)
  <2>1. q < p
    BY <1>4, EarlierFile
  <2>2. QED
    BY <1>1, <1>4, <2>1
<1>5. QED
  BY <1>1, <1>2, <1>3, <1>4

(* The next line of the node comes after all there are. *)
LEMMA NewestLine ==
  ASSUME IndexerConstants, TInv, size[newest] < MaxLines
  PROVE  /\ Id(newest, size[newest] + 1) \in 1 .. NumLines
         /\ FileOf(Id(newest, size[newest] + 1)) = newest
         /\ \A p \in Written : p < Id(newest, size[newest] + 1)
<1>1. newest \in Files /\ newest \in Int /\ size[newest] + 1 \in 1 .. MaxLines /\ Files \subseteq Int
      /\ size[newest] \in Int
  <2>1. size[newest] \in 0 .. MaxLines /\ MaxLines \in Nat /\ newest \in Files /\ newest \in Int
        /\ Files \subseteq Int
    BY NodeType, ThreadHas
  <2>2. QED
    BY <2>1
<1>2. PICK n : n = Id(newest, size[newest] + 1)
  OBVIOUS
<1>3. n \in 1 .. NumLines /\ FileOf(n) = newest /\ LineOf(n) = size[newest] + 1
  BY <1>1, <1>2, Numbers
<1>4. ASSUME NEW p \in Written PROVE p < n
  <2>1. p \in 1 .. NumLines /\ FileOf(p) \in Files /\ FileOf(p) <= newest
        /\ LineOf(p) <= size[FileOf(p)] /\ LineOf(p) \in Int
    <3>1. MaxLines \in Nat
      BY NodeType
    <3>2. QED
      BY <3>1, WrittenPlace
  <2>2. FileOf(p) < newest \/ FileOf(p) = newest
    <3>1. FileOf(p) \in Int
      BY <1>1, <2>1
    <3>2. QED
      BY <1>1, <2>1, <3>1
  <2>3. FileOf(p) = newest => LineOf(p) < size[newest] + 1
    BY <1>1, <2>1
  <2>4. QED
    BY <1>3, <2>1, <2>2, <2>3, LineOrder
<1>5. QED
  BY <1>2, <1>3, <1>4

-----------------------------------------------------------------------------
(* Why NoGap holds.  Whatever a line has got to on its way to the table,   *)
(* every line owed that comes before it in the order of the node is        *)
(* further on that way: in an earlier file, because the sweep and the      *)
(* notifications come to the files in their order and finish each; in the  *)
(* same file by SentInOrder.                                               *)

OwedUpTo(x, set) == \A l \in owed : l <= x => l \in set

(* The runner's side. *)
HandledInTurn ==
  Alive =>
    /\ OwedUpTo(pending, Settled)
    /\ pc = "write" => OwedUpTo(cur - 1, Settled)
    /\ pc = "commit" /\ why = "event" => OwedUpTo(cur, Settled)
    /\ OwedUpTo(start, durable[1])
QueuedInTurn == \A i \in 1 .. Len(lineCh) : OwedUpTo(lineCh[i] - 1, Ahead(i))
FirstOwed ==
  /\ checkpoint = NoPos => owed = {}
  /\ Alive /\ phase \in {"collect", "watch"} => checkpoint = start

OwedInv == HandledInTurn /\ QueuedInTurn /\ FirstOwed /\ NoGap

(* The tailer's side: which files are collected, swept and notified. *)
Collected == phase = "watch" /\ start # NoPos => FileOf(start) .. newest \subseteq todo
SweptBehind ==
  Alive =>
    \A g \in todo : /\ start # NoPos
                    /\ \A f \in FileOf(start) .. g - 1 :
                         f \in todo \/ InHand(f) \/ tails[f] >= size[f]
Heard ==
  watching =>
    \A f \in Files :
      \/ tails[f] # Untracked \/ f \in todo \/ InHand(f) \/ f \in ToSet(notifyQ)
      \/ \A l \in owed : FileOf(l) = f => l <= start
NothingBehind ==
  Alive /\ phase = "read" => \A l \in owed : FileOf(l) < hand => l \in OnItsWay
EventsInTurn   == \A i, j \in 1 .. Len(notifyQ) : i < j => notifyQ[i] < notifyQ[j]
NothingDropped ==
  dropped = {} /\ EventsInTurn /\ \A i \in 1 .. Len(notifyQ) : notifyQ[i] >= i

FilesInv == oldest = 1 /\ Collected /\ SweptBehind /\ Heard /\ NothingBehind /\ NothingDropped

GapInv == CInv /\ WInv /\ OInv /\ OwedInv /\ FilesInv

LEMMA OwedMono ==
  ASSUME NEW x, NEW S, NEW T, OwedUpTo(x, S), S \subseteq T
  PROVE  OwedUpTo(x, T)
BY DEF OwedUpTo

LEMMA GapTypes ==
  ASSUME IndexerConstants, GapInv
  PROVE  /\ TInv /\ owed \subseteq Written /\ Written \subseteq Int /\ 0 \notin Written
         /\ \A p \in Written : p > 0
         /\ {start, pending, checkpoint} \subseteq Positions /\ Positions \subseteq Int
         /\ \A f \in Files : f \in Int /\ size[f] \in Int /\ tails[f] \in Int
                             /\ (tails[f] # Untracked => tails[f] >= 0) /\ size[f] >= 0
         /\ todo \subseteq Files /\ newest \in Files /\ hand \in Files
         /\ Files = 1 .. NumFiles /\ NumFiles \in Nat
<1>1. TInv /\ NumLines \in Nat
  BY NodeType DEF GapInv, CInv
<1>2. owed \subseteq Written /\ {start, pending, checkpoint} \subseteq Positions
  BY <1>1 DEF TInv, IndexerTypeOK
<1>3. Written \subseteq 1 .. NumLines
  BY DEF Written
<1>4. Written \subseteq Int /\ 0 \notin Written /\ Positions \subseteq Int
      /\ \A p \in Written : p > 0
  BY <1>1, <1>3 DEF Positions, NoPos
<1>5. /\ \A f \in Files : f \in Int /\ size[f] \in Int /\ tails[f] \in Int
                          /\ (tails[f] # Untracked => tails[f] >= 0) /\ size[f] >= 0
      /\ todo \subseteq Files /\ newest \in Files /\ hand \in Files
      /\ Files = 1 .. NumFiles /\ NumFiles \in Nat
  <2>1. /\ size \in [Files -> 0 .. MaxLines] /\ tails \in [Files -> 0 .. MaxLines \union {-1}]
        /\ MaxLines \in Nat /\ todo \subseteq Files /\ newest \in Files /\ hand \in Files
        /\ Files = 1 .. NumFiles /\ NumFiles \in Nat
    BY <1>1, ThreadHas, NodeType DEF Untracked
  <2>2. \A f \in Files : size[f] \in 0 .. MaxLines /\ tails[f] \in 0 .. MaxLines \union {-1} /\ f \in 1 .. NumFiles
    BY <2>1
  <2>3. QED
    BY <2>1, <2>2 DEF Untracked
<1>6. QED
  BY <1>1, <1>2, <1>4, <1>5

LEMMA CalmHas ==
  ASSUME IndexerConstants, Calm, GapInv
  PROVE  errors = 0 /\ unseen = {} /\ Existing = 1 .. newest /\ ~ Error /\ (Alive => Orderly)
<1>1. errors \in 0 .. MaxErrors /\ unseen \subseteq NewDirs
  BY GapTypes, ThreadHas
<1>2. MaxErrors = 0 /\ NewDirs = {} /\ oldest = 1
  BY DEF Calm, Undisturbed, GapInv, FilesInv
<1>3. errors = 0 /\ unseen = {}
  BY <1>1, <1>2
<1>4. QED
  BY <1>2, <1>3 DEF Existing, Error, GapInv, OInv

LEMMA InitGap == IndexerConstants /\ IndexerInit => GapInv
<1> SUFFICES ASSUME IndexerConstants, IndexerInit PROVE GapInv
  OBVIOUS
<1>1. CInv /\ WInv /\ OInv
  BY InitCovered, InitWakes, InitOrders
<1>2. /\ owed = {} /\ lineCh = << >> /\ phase = "collect" /\ checkpoint = NoPos /\ start = NoPos
      /\ watching = FALSE /\ todo = {} /\ dropped = {} /\ notifyQ = << >> /\ oldest = 1
  BY DEF IndexerInit, InitThread, InitNode
<1>3. Len(lineCh) = 0 /\ Len(notifyQ) = 0
  BY <1>2
<1>4. OwedInv
  BY <1>2, <1>3 DEF OwedInv, HandledInTurn, QueuedInTurn, FirstOwed, NoGap, OwedUpTo
<1>5. FilesInv
  BY <1>2, <1>3 DEF FilesInv, Collected, SweptBehind, Heard, NothingBehind, NothingDropped, EventsInTurn
<1>6. QED
  BY <1>1, <1>4, <1>5 DEF GapInv

-----------------------------------------------------------------------------
(* The runner's steps. *)

LEMMA FilesAsTheyWere ==
  ASSUME GapInv, UNCHANGED <<node, watcher, thread, owed>>, Alive, OnItsWay \subseteq OnItsWay'
  PROVE  FilesInv'
<1>1. /\ UNCHANGED <<oldest, newest, size, watching, unseen, notifyQ, dropped, owed>>
      /\ UNCHANGED <<phase, start, todo, sweeping, hand, at, tails>>
  BY DEF node, watcher, thread
<1>2. FilesInv
  BY DEF GapInv
<1>3. NothingBehind'
  BY <1>1, <1>2 DEF FilesInv, NothingBehind
<1>4. QED
  BY <1>1, <1>2, <1>3 DEF FilesInv, Collected, SweptBehind, Heard, NothingDropped, EventsInTurn, InHand

LEMMA TakeGap ==
  ASSUME IndexerConstants, GapInv, TakeLine, UNCHANGED <<thread, owed>>
  PROVE  OwedInv'
<1>1. /\ pc = "select" /\ pc' = "write"
      /\ UNCHANGED <<why, pending, active, durable, checkpoint, start, phase, owed>>
  BY DEF TakeLine, thread
<1>2. PICK n \in Nat : n = Len(lineCh) /\ n > 0
  BY TakeAhead DEF GapInv, CInv
<1>3. /\ cur' = lineCh[1] /\ Len(lineCh') = n - 1 /\ Settled' = Settled
      /\ \A j \in 1 .. n - 1 : lineCh'[j] = lineCh[j + 1]
      /\ \A i \in 1 .. n : Ahead(i + 1) \subseteq Ahead(i)'
  BY <1>2, TakeAhead DEF GapInv, CInv
<1>4. HandledInTurn /\ QueuedInTurn /\ FirstOwed /\ NoGap
  BY DEF GapInv, OwedInv
<1>5. OwedUpTo(cur' - 1, Settled)
  <2>1. OwedUpTo(lineCh[1] - 1, Ahead(1))
    BY <1>2, <1>4 DEF QueuedInTurn
  <2>2. Ahead(1) \subseteq Settled
    BY <1>1 DEF Ahead
  <2>3. QED
    BY <1>3, <2>1, <2>2, OwedMono
<1>6. HandledInTurn'
  BY <1>1, <1>3, <1>4, <1>5 DEF HandledInTurn, OwedUpTo, Alive
<1>7. QueuedInTurn'
  <2> SUFFICES ASSUME NEW i \in 1 .. n - 1 PROVE OwedUpTo(lineCh'[i] - 1, Ahead(i)')
    BY <1>1, <1>3 DEF QueuedInTurn, OwedUpTo
  <2>1. i + 1 \in 1 .. n /\ i \in 1 .. n
    OBVIOUS
  <2>2. OwedUpTo(lineCh[i + 1] - 1, Ahead(i + 1))
    BY <1>2, <1>4, <2>1 DEF QueuedInTurn
  <2>3. Ahead(i + 1) \subseteq Ahead(i)' /\ lineCh'[i] = lineCh[i + 1]
    BY <1>3, <2>1
  <2>4. QED
    BY <2>2, <2>3, OwedMono
<1>8. QED
  BY <1>1, <1>4, <1>6, <1>7 DEF OwedInv, FirstOwed, NoGap, Alive

(* Steps after which no line is less far on its way. *)
LEMMA FurtherQueued ==
  ASSUME GapInv, Settled \subseteq Settled', UNCHANGED <<lineCh, owed>>, pc = "write" => cur \in Settled'
  PROVE  QueuedInTurn' /\ OnItsWay \subseteq OnItsWay'
<1>1. \A i : Ahead(i) \subseteq Ahead(i)'
  BY FurtherAhead
<1>2. OnItsWay \subseteq OnItsWay'
  BY FurtherAhead
<1>3. QueuedInTurn'
  <2> SUFFICES ASSUME NEW i \in 1 .. Len(lineCh) PROVE OwedUpTo(lineCh[i] - 1, Ahead(i)')
    BY DEF QueuedInTurn, OwedUpTo
  <2>1. OwedUpTo(lineCh[i] - 1, Ahead(i))
    BY DEF GapInv, OwedInv, QueuedInTurn
  <2>2. QED
    BY <1>1, <2>1, OwedMono
<1>4. QED
  BY <1>2, <1>3

LEMMA RunnerGap ==
  ASSUME IndexerConstants, GapInv, RunnerStep
  PROVE  OwedInv' /\ FilesInv'
<1>1. /\ RunnerDoes /\ UNCHANGED <<node, watcher, thread, owed>>
      /\ phase \notin {"collect", "watch"}
  BY RunnerIs DEF GapInv, CInv, RunnerStep
<1>2. Alive
  BY <1>1 DEF RunnerDoes, TakeLine, WriteLine, TickComes, CommitRows, SaveCheckpoint, Alive
<1>3. HandledInTurn /\ QueuedInTurn /\ FirstOwed /\ NoGap
  BY DEF GapInv, OwedInv
<1>4. UNCHANGED <<phase, start, owed>>
  BY <1>1 DEF thread
<1>5. CASE TakeLine
  <2>1. OnItsWay \subseteq OnItsWay'
    BY <1>5, TakeAhead DEF GapInv, CInv
  <2>2. QED
    BY <1>1, <1>2, <1>5, <2>1, TakeGap, FilesAsTheyWere
<1>6. CASE WriteLine
  <2>1. /\ pc = "write" /\ pc' = "commit" /\ why' = "event"
        /\ active' = [active EXCEPT ![1] = @ \union {cur}]
        /\ UNCHANGED <<cur, lineCh, pending, durable, checkpoint>>
    BY <1>6 DEF WriteLine
  <2>2. active'[1] = active[1] \union {cur} /\ cur \in Written
    BY <2>1 DEF GapInv, CInv, TInv
  <2>3. Settled \subseteq Settled' /\ cur \in Settled'
    BY <2>1, <2>2 DEF Settled
  <2>4. QueuedInTurn' /\ OnItsWay \subseteq OnItsWay'
    BY <1>4, <2>1, <2>3, FurtherQueued
  <2>5. OwedUpTo(cur, Settled')
    <3>1. OwedUpTo(cur - 1, Settled)
      BY <1>2, <1>3, <2>1 DEF HandledInTurn
    <3>2. cur \in Int /\ \A l \in owed : l \in Int
      BY <2>2, GapTypes
    <3>3. \A l \in owed : l <= cur => l <= cur - 1 \/ l = cur
      BY <3>2
    <3>4. QED
      BY <2>3, <3>1, <3>3 DEF OwedUpTo
  <2>6. OwedUpTo(pending, Settled') /\ OwedUpTo(start, durable[1])
    BY <1>2, <1>3, <2>3, OwedMono DEF HandledInTurn
  <2>7. HandledInTurn'
    BY <1>4, <2>1, <2>5, <2>6 DEF HandledInTurn, OwedUpTo
  <2>8. FirstOwed' /\ NoGap'
    BY <1>1, <1>3, <1>4, <2>1 DEF FirstOwed, NoGap
  <2>9. QED
    BY <1>1, <1>2, <2>4, <2>7, <2>8, FilesAsTheyWere DEF OwedInv
<1>7. CASE TickComes
  <2>1. /\ pc = "select" /\ pc' = "commit" /\ why' = "tick"
        /\ UNCHANGED <<cur, lineCh, pending, active, durable, checkpoint>>
    BY <1>7 DEF TickComes
  <2>2. Settled' = Settled
    BY <2>1 DEF Settled
  <2>3. QueuedInTurn' /\ OnItsWay \subseteq OnItsWay'
    BY <1>4, <2>1, <2>2, FurtherQueued
  <2>4. HandledInTurn' /\ FirstOwed' /\ NoGap'
    BY <1>1, <1>2, <1>3, <1>4, <2>1, <2>2 DEF HandledInTurn, OwedUpTo, FirstOwed, NoGap
  <2>5. QED
    BY <1>1, <1>2, <2>3, <2>4, FilesAsTheyWere DEF OwedInv
<1>8. CASE CommitRows
  <2>1. /\ pc = "commit" /\ UNCHANGED <<cur, lineCh, why, checkpoint>>
        /\ \/ why = "event" /\ pending' = cur /\ pc' = "select"
           \/ /\ why # "event" /\ UNCHANGED pending
              /\ pc' = IF pending # NoPos THEN "save" ELSE "select"
    BY <1>8 DEF CommitRows
  <2>2. \/ durable'[1] = durable[1] \union active[1] /\ active'[1] = {}
        \/ why = "event" /\ UNCHANGED <<active, durable>>
    <3>1. active \in [1 .. 1 -> SUBSET Written] /\ durable \in [1 .. 1 -> SUBSET Written]
      BY DEF GapInv, CInv, TInv
    <3>2. QED
      BY <1>8, <3>1 DEF CommitRows
  <2>3. Settled' = Settled /\ durable[1] \subseteq durable'[1]
    BY <2>2 DEF Settled
  <2>4. QueuedInTurn' /\ OnItsWay \subseteq OnItsWay'
    BY <1>4, <2>1, <2>3, FurtherQueued
  <2>5. /\ OwedUpTo(pending, Settled) /\ OwedUpTo(start, durable'[1])
        /\ why = "event" => OwedUpTo(cur, Settled)
    BY <1>2, <1>3, <2>1, <2>3, OwedMono DEF HandledInTurn
  <2>6. HandledInTurn'
    BY <1>4, <2>1, <2>3, <2>5 DEF HandledInTurn, OwedUpTo
  <2>7. FirstOwed' /\ NoGap'
    BY <1>1, <1>3, <1>4, <2>1, <2>3 DEF FirstOwed, NoGap
  <2>8. QED
    BY <1>1, <1>2, <2>4, <2>6, <2>7, FilesAsTheyWere DEF OwedInv
<1>9. CASE SaveCheckpoint
  <2>1. /\ pc = "save" /\ checkpoint' = pending /\ pc' = "select"
        /\ UNCHANGED <<cur, lineCh, why, pending, active, durable>>
    BY <1>9 DEF SaveCheckpoint
  <2>2. Settled' = Settled
    BY <2>1 DEF Settled
  <2>3. QueuedInTurn' /\ OnItsWay \subseteq OnItsWay'
    BY <1>4, <2>1, <2>2, FurtherQueued
  <2>4. HandledInTurn'
    BY <1>2, <1>3, <1>4, <2>1, <2>2 DEF HandledInTurn, OwedUpTo
  <2>5. NoGap'
    <3>1. Settled = durable[1]
      BY <2>1 DEF GapInv, CInv, SaveIsAfterCommit, Settled
    <3>2. OwedUpTo(pending, Settled)
      BY <1>2, <1>3 DEF HandledInTurn
    <3>3. QED
      BY <1>4, <2>1, <3>1, <3>2 DEF NoGap, OwedUpTo
  <2>6. FirstOwed'
    <3>1. pending # NoPos
      BY <2>1 DEF GapInv, CInv, SaveIsAfterCommit
    <3>2. QED
      BY <1>1, <1>4, <2>1, <3>1 DEF FirstOwed
  <2>7. QED
    BY <1>1, <1>2, <2>3, <2>4, <2>5, <2>6, FilesAsTheyWere DEF OwedInv
<1>10. QED
  BY <1>1, <1>5, <1>6, <1>7, <1>8, <1>9 DEF RunnerDoes

LEMMA StopGap ==
  ASSUME IndexerConstants, GapInv, Stop
  PROVE  OwedInv' /\ FilesInv'
<1>1. /\ durable[1] \subseteq durable'[1] /\ lineCh' = << >> /\ pc' = "down"
      /\ watching' = FALSE /\ notifyQ' = << >> /\ dropped' = {}
      /\ UNCHANGED <<checkpoint, node, thread, owed>>
  BY StopIs DEF GapInv, CInv
<1>2. Len(lineCh') = 0 /\ Len(notifyQ') = 0
  BY <1>1
<1>3. UNCHANGED <<phase, start, todo, newest, oldest>>
  BY <1>1 DEF thread, node
<1>4. OwedInv'
  BY <1>1, <1>2 DEF GapInv, OwedInv, HandledInTurn, QueuedInTurn, FirstOwed, NoGap, Alive
<1>5. FilesInv'
  BY <1>1, <1>2, <1>3
     DEF GapInv, FilesInv, Collected, SweptBehind, Heard, NothingBehind, NothingDropped, EventsInTurn, Alive
<1>6. QED
  BY <1>4, <1>5

LEMMA StartGap ==
  ASSUME IndexerConstants, GapInv, Start
  PROVE  OwedInv' /\ FilesInv'
<1>1. /\ pc = "down" /\ pc' = "select"
      /\ phase' = "collect" /\ start' = checkpoint /\ todo' = {}
      /\ UNCHANGED <<node, watcher, owed, lineCh, pending, active, durable, checkpoint>>
  BY StartIs DEF GapInv, CInv
<1>2. lineCh = << >> /\ pending = NoPos /\ ~ watching
  BY <1>1 DEF GapInv, CInv, WInv, Beginning, StopEmpties, Alive
<1>3. Len(lineCh') = 0
  BY <1>1, <1>2
<1>4. UNCHANGED <<oldest, watching, notifyQ, dropped>>
  BY <1>1 DEF node, watcher
<1>5. HandledInTurn'
  <2>1. \A l \in owed : ~ (l <= pending)
    BY <1>2, GapTypes DEF NoPos
  <2>2. \A l \in owed : l <= checkpoint => l \in durable[1]
    BY DEF GapInv, OwedInv, NoGap
  <2>3. QED
    BY <1>1, <2>1, <2>2 DEF HandledInTurn, OwedUpTo
<1>6. OwedInv'
  BY <1>1, <1>3, <1>5 DEF GapInv, OwedInv, QueuedInTurn, FirstOwed, NoGap
<1>7. FilesInv'
  BY <1>1, <1>2, <1>4
     DEF GapInv, FilesInv, Collected, SweptBehind, Heard, NothingBehind, NothingDropped, EventsInTurn
<1>8. QED
  BY <1>6, <1>7

-----------------------------------------------------------------------------
(* The node's steps. *)

(* The event for the newest file comes after all there are. *)
LEMMA NewestEvent ==
  ASSUME IndexerConstants, WInv, EventsInTurn
  PROVE  /\ \A i \in 1 .. Len(notifyQ) : notifyQ[i] \in Int /\ notifyQ[i] <= newest
         /\ \/ notifyQ # << >> /\ Last(notifyQ) = newest
            \/ \A i \in 1 .. Len(notifyQ) : notifyQ[i] < newest
<1>1. notifyQ \in Seq(Files) /\ newest \in Int /\ Files \subseteq Int
  BY ThreadHas, NodeType DEF WInv
<1>2. PICK n \in Nat : n = Len(notifyQ)
  BY <1>1
<1>3. \A i \in 1 .. n : notifyQ[i] \in Int /\ notifyQ[i] <= newest
  <2>1. \A i \in 1 .. n : notifyQ[i] \in Files /\ notifyQ[i] \in ToSet(notifyQ)
    BY <1>1, <1>2 DEF ToSet
  <2>2. \A f \in ToSet(notifyQ) : f <= newest
    BY DEF WInv, KnownIsOld
  <2>3. QED
    BY <1>1, <2>1, <2>2
<1>4. ASSUME ~ (notifyQ # << >> /\ Last(notifyQ) = newest)
      PROVE  \A i \in 1 .. n : notifyQ[i] < newest
  <2> SUFFICES ASSUME NEW i \in 1 .. n PROVE notifyQ[i] < newest
    OBVIOUS
  <2>1. notifyQ[n] # newest /\ n \in 1 .. n
    <3>1. notifyQ # << >>
      BY <1>2
    <3>2. QED
      BY <1>2, <1>4, <3>1 DEF Last
  <2>2. notifyQ[n] <= newest /\ notifyQ[n] \in Int /\ notifyQ[i] \in Int
    BY <1>3, <2>1
  <2>3. i = n \/ notifyQ[i] < notifyQ[n]
    BY <1>2, <2>1 DEF EventsInTurn
  <2>4. QED
    BY <1>1, <2>1, <2>2, <2>3
<1>5. QED
  BY <1>2, <1>3, <1>4

LEMMA NotifyInTurn ==
  ASSUME IndexerConstants, WInv, EventsInTurn, Notify(newest)
  PROVE  EventsInTurn'
<1>1. notifyQ \in Seq(Files) /\ newest \in Files
  BY ThreadHas, NodeType DEF WInv
<1>2. PICK n \in Nat : n = Len(notifyQ)
  BY <1>1
<1>3. CASE notifyQ' = notifyQ
  BY <1>3 DEF EventsInTurn
<1>4. CASE ~ (notifyQ # << >> /\ Last(notifyQ) = newest) /\ notifyQ' = Append(notifyQ, newest)
  <2>1. /\ Len(notifyQ') = n + 1 /\ notifyQ'[n + 1] = newest
        /\ \A i \in 1 .. n : notifyQ'[i] = notifyQ[i]
    BY <1>1, <1>2, <1>4
  <2>2. \A i, j \in 1 .. n + 1 : i < j => i \in 1 .. n /\ (j \in 1 .. n \/ j = n + 1)
    OBVIOUS
  <2>3. \A i \in 1 .. n : notifyQ[i] < newest
    BY <1>2, <1>4, NewestEvent
  <2>4. QED
    BY <1>2, <2>1, <2>2, <2>3 DEF EventsInTurn
<1>5. QED
  BY <1>3, <1>4 DEF Notify

(* The queue of events, in the order of the files, is as short as there    *)
(* are files; the event for the newest one finds room.                     *)
LEMMA NotifyInOrder ==
  ASSUME IndexerConstants, Calm, GapInv, Notify(newest)
  PROVE  NothingDropped'
<1>1. /\ notifyQ \in Seq(Files) /\ NotifyCap \in Nat /\ NumFiles \in Nat /\ NumFiles <= NotifyCap
      /\ newest \in 1 .. NumFiles /\ unseen = {}
  BY ThreadHas, GapTypes, CalmHas DEF Calm
<1>2. PICK n \in Nat : n = Len(notifyQ)
  BY <1>1
<1>3. dropped = {} /\ EventsInTurn /\ \A i \in 1 .. n : notifyQ[i] >= i
  BY <1>2 DEF GapInv, FilesInv, NothingDropped, EventsInTurn
<1>4. EventsInTurn'
  BY <1>3, NotifyInTurn DEF GapInv
<1>5. CASE notifyQ' = notifyQ /\ dropped' = {}
  BY <1>2, <1>3, <1>4, <1>5 DEF NothingDropped
<1>6. CASE /\ ~ (notifyQ # << >> /\ Last(notifyQ) = newest)
           /\ IF n < NotifyCap THEN notifyQ' = Append(notifyQ, newest) /\ dropped' = {}
                               ELSE notifyQ' = notifyQ /\ dropped' = {newest}
  <2>1. \A i \in 1 .. n : notifyQ[i] \in Int /\ notifyQ[i] < newest
    BY <1>2, <1>3, <1>6, NewestEvent DEF GapInv
  <2>2. newest \in Int /\ newest <= NumFiles /\ newest >= n + 1
    <3>1. newest \in Int /\ newest >= 1 /\ newest <= NumFiles
      BY <1>1
    <3>2. n # 0 => n \in 1 .. n /\ notifyQ[n] >= n /\ notifyQ[n] < newest /\ notifyQ[n] \in Int
      BY <1>3, <2>1
    <3>3. QED
      BY <3>1, <3>2
  <2>3. n < NotifyCap
    BY <1>1, <2>2
  <2>4. notifyQ' = Append(notifyQ, newest) /\ dropped' = {}
    BY <1>6, <2>3
  <2>5. /\ Len(notifyQ') = n + 1 /\ notifyQ'[n + 1] = newest
        /\ \A i \in 1 .. n : notifyQ'[i] = notifyQ[i]
    BY <1>1, <1>2, <2>4
  <2>6. \A i \in 1 .. n + 1 : i \in 1 .. n \/ i = n + 1
    OBVIOUS
  <2>7. \A i \in 1 .. n + 1 : notifyQ'[i] >= i
    BY <1>3, <2>2, <2>5, <2>6
  <2>8. QED
    BY <1>4, <2>4, <2>5, <2>7 DEF NothingDropped
<1>7. QED
  BY <1>1, <1>2, <1>3, <1>5, <1>6 DEF Notify

LEMMA AppendGap ==
  ASSUME IndexerConstants, Calm, GapInv, Append1
  PROVE  OwedInv' /\ FilesInv'
<1>1. PICK n : n = Id(newest, size[newest] + 1)
  OBVIOUS
<1>2. /\ newest \in Files /\ size' = [size EXCEPT ![newest] = @ + 1] /\ Notify(newest)
      /\ size[newest] < MaxLines
      /\ owed' = IF checkpoint = NoPos THEN owed ELSE owed \union {n}
      /\ UNCHANGED <<oldest, newest, prunes, thread, lineCh, runner, watching, unseen>>
  BY <1>1, GapTypes DEF Append1, NodeAppend, Notify
<1>3. /\ UNCHANGED <<phase, start, todo, hand, at, tails>>
      /\ UNCHANGED <<pc, cur, why, pending, active, durable, checkpoint>>
  BY <1>2 DEF thread, runner
<1>4. n \in Int /\ n > 0 /\ FileOf(n) = newest /\ \A p \in Written : p < n
  <2>1. n \in 1 .. NumLines /\ FileOf(n) = newest /\ \A p \in Written : p < n
    BY <1>1, <1>2, NewestLine, GapTypes
  <2>2. QED
    BY <2>1
<1>5. \A p \in Positions : p < n
  BY <1>4 DEF Positions, NoPos
<1>6. owed \subseteq owed' /\ \A l \in owed' : l \in owed \/ l = n
  BY <1>2
<1>7. Settled' = Settled /\ OnItsWay' = OnItsWay /\ \A i : Ahead(i)' = Ahead(i)
  BY <1>2, <1>3 DEF Settled, OnItsWay, Ahead
<1>8. \A x, S : OwedUpTo(x, S) /\ x \in Positions => \A l \in owed' : l <= x => l \in S
  <2> SUFFICES ASSUME NEW x \in Positions, NEW S, OwedUpTo(x, S), NEW l \in owed', l <= x
               PROVE  l \in S
    OBVIOUS
  <2>1. l # n
    BY <1>4, <1>5, GapTypes
  <2>2. QED
    BY <1>6, <2>1 DEF OwedUpTo
<1>9. \A x, S : OwedUpTo(x - 1, S) /\ x \in Positions => \A l \in owed' : l <= x - 1 => l \in S
  <2> SUFFICES ASSUME NEW x \in Positions, NEW S, OwedUpTo(x - 1, S), NEW l \in owed', l <= x - 1
               PROVE  l \in S
    OBVIOUS
  <2>1. l # n
    BY <1>4, <1>5, GapTypes
  <2>2. QED
    BY <1>6, <2>1 DEF OwedUpTo
<1>10. /\ {start, pending, checkpoint} \subseteq Positions
       /\ pc = "write" \/ (pc = "commit" /\ why = "event") => cur \in Positions
       /\ \A i \in 1 .. Len(lineCh) : lineCh[i] \in Positions
  <2>1. lineCh \in Seq(Written) /\ TInv
    BY GapTypes, ThreadHas
  <2>2. QED
    BY <2>1 DEF TInv, Positions
<1>11. HandledInTurn'
  <2>1. HandledInTurn
    BY DEF GapInv, OwedInv
  <2>2. QED
    BY <1>3, <1>7, <1>8, <1>9, <1>10, <2>1 DEF HandledInTurn, OwedUpTo, Alive
<1>12. QueuedInTurn'
  <2> SUFFICES ASSUME NEW i \in 1 .. Len(lineCh)
               PROVE  \A l \in owed' : l <= lineCh[i] - 1 => l \in Ahead(i)
    BY <1>2, <1>7 DEF QueuedInTurn, OwedUpTo
  <2>1. OwedUpTo(lineCh[i] - 1, Ahead(i)) /\ lineCh[i] \in Positions
    BY <1>10 DEF GapInv, OwedInv, QueuedInTurn
  <2>2. QED
    BY <1>9, <2>1
<1>13. FirstOwed'
  BY <1>2, <1>3 DEF GapInv, OwedInv, FirstOwed, Alive
<1>14. NoGap'
  <2>1. OwedUpTo(checkpoint, durable[1])
    BY DEF GapInv, OwedInv, NoGap, OwedUpTo
  <2>2. QED
    BY <1>3, <1>8, <1>10, <2>1 DEF NoGap
<1>15. /\ \A f \in Files : f # newest => size'[f] = size[f]
       /\ \A f \in Files : f < newest => size'[f] = size[f]
  <2>1. size \in [Files -> 0 .. MaxLines]
    BY GapTypes, ThreadHas
  <2>2. \A f \in Files : f # newest => size'[f] = size[f]
    BY <1>2, <2>1
  <2>3. \A f \in Files : f < newest => f # newest
    BY GapTypes
  <2>4. QED
    BY <2>2, <2>3
<1>16. SweptBehind'
  <2> SUFFICES ASSUME Alive, NEW g \in todo
               PROVE  /\ start # NoPos
                      /\ \A f \in FileOf(start) .. g - 1 :
                           f \in todo \/ InHand(f) \/ tails[f] >= size'[f]
    BY <1>3 DEF SweptBehind, InHand, Alive
  <2>1. /\ start # NoPos
        /\ \A f \in FileOf(start) .. g - 1 : f \in todo \/ InHand(f) \/ tails[f] >= size[f]
    BY DEF GapInv, FilesInv, SweptBehind
  <2>2. \A f \in FileOf(start) .. g - 1 : f \in Files /\ f < newest
    <3>1. g <= newest /\ g \in Int /\ newest \in Int /\ FileOf(start) \in 1 .. NumFiles
          /\ NumFiles \in Nat /\ newest <= NumFiles /\ Files = 1 .. NumFiles
      BY <2>1, GapTypes, StartFile DEF GapInv, WInv, KnownIsOld
    <3>2. QED
      BY <3>1
  <2>3. QED
    BY <1>15, <2>1, <2>2
<1>17. NothingDropped'
  BY <1>2, NotifyInOrder
<1>18. Heard'
  <2> SUFFICES ASSUME watching, NEW f \in Files
               PROVE  \/ tails[f] # Untracked \/ f \in todo \/ InHand(f) \/ f \in ToSet(notifyQ')
                      \/ \A l \in owed' : FileOf(l) = f => l <= start
    BY <1>2, <1>3 DEF Heard, InHand
  <2>1. /\ ToSet(notifyQ) \subseteq ToSet(notifyQ')
        /\ watching /\ newest \notin unseen => newest \in ToSet(notifyQ') \/ newest \in dropped'
    BY <1>2, NotifyIs, GapTypes
  <2>2. newest \in ToSet(notifyQ')
    BY <1>17, <2>1, CalmHas DEF NothingDropped
  <2>3. \/ tails[f] # Untracked \/ f \in todo \/ InHand(f) \/ f \in ToSet(notifyQ)
        \/ \A l \in owed : FileOf(l) = f => l <= start
    BY DEF GapInv, FilesInv, Heard
  <2>4. QED
    BY <1>4, <1>6, <2>1, <2>2, <2>3
<1>19. NothingBehind'
  <2>1. phase = "read" => hand <= newest
    BY DEF GapInv, WInv, KnownIsOld
  <2>2. phase = "read" => ~ (FileOf(n) < hand)
    BY <1>4, <2>1, GapTypes
  <2>3. QED
    BY <1>3, <1>6, <1>7, <2>2 DEF GapInv, FilesInv, NothingBehind, Alive
<1>20. oldest' = 1 /\ Collected'
  BY <1>2, <1>3 DEF GapInv, FilesInv, Collected
<1>21. QED
  BY <1>11, <1>12, <1>13, <1>14, <1>16, <1>17, <1>18, <1>19, <1>20 DEF OwedInv, FilesInv

LEMMA RotateGap ==
  ASSUME IndexerConstants, Calm, GapInv, Rotate
  PROVE  OwedInv' /\ FilesInv'
<1>1. /\ phase # "watch"
      /\ UNCHANGED <<oldest, size, watching, notifyQ, dropped, thread, lineCh, runner, owed>>
  BY DEF Rotate, NodeRotate, Calm
<1>2. /\ UNCHANGED <<phase, start, todo, hand, at, tails>>
      /\ UNCHANGED <<pc, cur, why, pending, active, durable, checkpoint>>
  BY <1>1 DEF thread, runner
<1>3. Settled' = Settled /\ OnItsWay' = OnItsWay /\ \A i : Ahead(i)' = Ahead(i)
  BY <1>1, <1>2 DEF Settled, OnItsWay, Ahead
<1>4. OwedInv'
  BY <1>1, <1>2, <1>3
     DEF GapInv, OwedInv, HandledInTurn, QueuedInTurn, FirstOwed, NoGap, OwedUpTo, Alive
<1>5. FilesInv'
  BY <1>1, <1>2, <1>3
     DEF GapInv, FilesInv, Collected, SweptBehind, Heard, NothingBehind, NothingDropped, EventsInTurn, InHand, Alive
<1>6. QED
  BY <1>4, <1>5

LEMMA NeverHappen ==
  ASSUME IndexerConstants, Calm, GapInv
  PROVE  ~ Prune /\ ~ WatchNewDir /\ ~ SweepSkip /\ ~ NotifiedSkip /\ ~ ReadError
<1>1. prunes \in 0 .. MaxPrunes /\ MaxPrunes = 0
  BY GapTypes, NodeType DEF TypeOK, Calm
<1>2. ~ Prune /\ ~ WatchNewDir /\ ~ ReadError
  BY <1>1, CalmHas DEF Prune, NodePrune, WatchNewDir, DirWatched, ReadError
<1>3. ~ SweepSkip
  <2>1. \A f \in todo : f \in Existing
    <3>1. \A f \in todo : f \in Files /\ f <= newest
      BY GapTypes DEF GapInv, WInv, KnownIsOld
    <3>2. QED
      BY <3>1, GapTypes, CalmHas
  <2>2. QED
    BY <2>1, CalmHas DEF SweepSkip, NextFile
<1>4. ~ NotifiedSkip
  <2>1. notifyQ # << >> => Head(notifyQ) \in Existing
    <3>1. ASSUME notifyQ # << >> PROVE Head(notifyQ) \in Files /\ Head(notifyQ) <= newest
      <4>1. notifyQ \in Seq(Files)
        BY GapTypes, ThreadHas
      <4>2. Head(notifyQ) \in Files /\ Head(notifyQ) \in ToSet(notifyQ)
        BY <3>1, <4>1, QueueTail
      <4>3. QED
        BY <4>2 DEF GapInv, WInv, KnownIsOld
    <3>2. QED
      BY <3>1, GapTypes, CalmHas
  <2>2. QED
    BY <2>1, CalmHas DEF NotifiedSkip
<1>5. QED
  BY <1>2, <1>3, <1>4

-----------------------------------------------------------------------------
(* The thread's steps. *)

(* A line owed in a file that has been read to its end. *)
LEMMA ReadIsSent ==
  ASSUME IndexerConstants, GapInv, Alive, NEW l \in owed,
         tails[FileOf(l)] >= size[FileOf(l)]
  PROVE  l \in OnItsWay
<1>1. /\ FileOf(l) \in Files /\ LineOf(l) \in 1 .. MaxLines /\ LineOf(l) <= size[FileOf(l)]
      /\ Id(FileOf(l), LineOf(l)) = l /\ MaxLines \in Nat
  BY GapTypes, WrittenPlace, NodeType
<1>2. tails[FileOf(l)] # Untracked /\ LineOf(l) \in 1 .. tails[FileOf(l)]
  BY <1>1, GapTypes DEF Untracked
<1>3. LinesUpTo(FileOf(l), tails[FileOf(l)], OnItsWay)
  BY <1>1, <1>2 DEF GapInv, CInv, SentInOrder
<1>4. QED
  BY <1>1, <1>2, <1>3 DEF LinesUpTo

(* A line owed that comes before the start position. *)
LEMMA PassedIsSent ==
  ASSUME GapInv, Alive, NEW l \in owed, l <= start
  PROVE  l \in OnItsWay
BY DEF GapInv, OwedInv, HandledInTurn, OwedUpTo, OnItsWay, Ahead, Settled

(* What the thread leaves alone when it sends nothing. *)
LEMMA ThreadOwes ==
  ASSUME IndexerConstants, GapInv, TailerStep, ~ Emit
  PROVE  /\ OwedInv' /\ OnItsWay' = OnItsWay /\ Alive /\ Alive' /\ ThreadStep
         /\ UNCHANGED <<oldest, newest, size, dropped, start, owed>>
<1>1. Alive /\ ThreadStep /\ UNCHANGED <<runner, owed>>
  BY DEF TailerStep
<1>2. UNCHANGED <<node, dropped, lineCh, start>>
  BY <1>1 DEF ThreadStep, Collect, Watch, SweepOpen, SweepSkip, SweepDone, Notified,
     NotifiedSkip, ReadEnd, ReadError, watcher
<1>3. UNCHANGED <<pc, cur, why, pending, active, durable, checkpoint>>
  BY <1>1 DEF runner
<1>4. Settled' = Settled /\ OnItsWay' = OnItsWay /\ \A i : Ahead(i)' = Ahead(i)
  BY <1>2, <1>3 DEF Settled, OnItsWay, Ahead
<1>5. HandledInTurn' /\ QueuedInTurn' /\ NoGap'
  BY <1>1, <1>2, <1>3, <1>4 DEF GapInv, OwedInv, HandledInTurn, QueuedInTurn, NoGap, OwedUpTo, Alive
<1>6. FirstOwed'
  <2>1. phase' \in {"collect", "watch"} => phase \in {"collect", "watch"}
    BY <1>1 DEF ThreadStep, Collect, Watch, SweepOpen, SweepSkip, SweepDone, Notified,
       NotifiedSkip, ReadEnd, ReadError, Back
  <2>2. QED
    BY <1>1, <1>2, <1>3, <2>1 DEF GapInv, OwedInv, FirstOwed, Alive
<1>7. QED
  BY <1>1, <1>2, <1>3, <1>4, <1>5, <1>6 DEF OwedInv, Alive, node

(* The files collected: the one of the start position and those after it. *)
LEMMA CollectGap ==
  ASSUME IndexerConstants, Calm, GapInv, TailerStep, Collect
  PROVE  FilesInv'
<1>1. /\ phase = "collect" /\ phase' = "watch"
      /\ todo' = IF start = NoPos THEN {} ELSE SeekTo(Existing, start)
      /\ UNCHANGED <<watching, notifyQ, hand, at, tails>>
  BY DEF Collect, watcher
<1>2. OnItsWay' = OnItsWay /\ Alive' /\ UNCHANGED <<oldest, newest, size, dropped, start, owed>>
  BY ThreadOwes DEF Collect, Emit
<1>3. ~ watching
  BY <1>1 DEF GapInv, WInv, Beginning
<1>4. ASSUME start # NoPos
      PROVE  FileOf(start) .. newest \subseteq todo' /\ todo' \subseteq Existing
  <2>1. FileOf(start) \in Existing /\ FileOf(start) \in 1 .. NumFiles /\ NumFiles \in Nat
        /\ newest \in 1 .. NumFiles /\ Existing = 1 .. newest
    <3>1. FileOf(start) \in Files /\ FileOf(start) <= newest
      BY <1>4, StartFile, GapTypes
    <3>2. QED
      BY <3>1, GapTypes, CalmHas
  <2>2. todo' = {f \in Existing : PathOrder[f] >= PathOrder[FileOf(start)]}
    BY <1>1, <1>4, <2>1 DEF SeekTo, Calm, Undisturbed
  <2>3. \A f \in FileOf(start) .. newest : f \in Existing /\ PathOrder[f] >= PathOrder[FileOf(start)]
    <3>1. PathOrder \in [1 .. NumFiles -> 1 .. NumFiles] /\ Files = 1 .. NumFiles
      BY GapTypes DEF IndexerConstants, TailerAssumption
    <3>2. \A f \in FileOf(start) .. newest :
            /\ f \in 1 .. NumFiles /\ f \in Existing
            /\ f = FileOf(start) \/ FileOf(start) < f
      BY <2>1
    <3>3. \A f \in FileOf(start) .. newest :
            f = FileOf(start) \/ PathOrder[FileOf(start)] < PathOrder[f]
      BY <2>1, <3>1, <3>2 DEF Calm, Undisturbed, PathsInOrder
    <3>4. /\ PathOrder[FileOf(start)] \in Int
          /\ \A f \in FileOf(start) .. newest : PathOrder[f] \in Int
      BY <2>1, <3>1, <3>2
    <3>5. QED
      BY <3>2, <3>3, <3>4
  <2>4. QED
    BY <2>2, <2>3
<1>5. Collected'
  BY <1>2, <1>4 DEF Collected
<1>6. SweptBehind'
  <2> SUFFICES ASSUME NEW g \in todo'
               PROVE  start # NoPos /\ \A f \in FileOf(start) .. g - 1 : f \in todo'
    BY <1>2 DEF SweptBehind
  <2>1. start # NoPos
    BY <1>1
  <2>2. g \in 1 .. newest /\ newest \in Int /\ FileOf(start) \in Int
    BY <1>4, <2>1, StartFile, GapTypes, CalmHas
  <2>3. \A f \in FileOf(start) .. g - 1 : f \in FileOf(start) .. newest
    BY <2>2
  <2>4. QED
    BY <1>4, <2>1, <2>3
<1>7. Heard' /\ NothingBehind'
  BY <1>1, <1>3 DEF Heard, NothingBehind
<1>8. oldest' = 1 /\ NothingDropped'
  BY <1>1, <1>2 DEF GapInv, FilesInv, NothingDropped, EventsInTurn
<1>9. QED
  BY <1>5, <1>6, <1>7, <1>8 DEF FilesInv

(* The window between collecting and watching closes. *)
LEMMA WatchGap ==
  ASSUME IndexerConstants, Calm, GapInv, TailerStep, Watch
  PROVE  FilesInv'
<1>1. /\ phase = "watch" /\ phase' = "sweep" /\ watching' = TRUE
      /\ UNCHANGED <<notifyQ, hand, at, tails, todo>>
  BY DEF Watch
<1>2. OnItsWay' = OnItsWay /\ Alive /\ Alive' /\ UNCHANGED <<oldest, newest, size, dropped, start, owed>>
  BY ThreadOwes DEF Watch, Emit
<1>3. Heard'
  <2> SUFFICES ASSUME NEW f \in Files, NEW l \in owed, FileOf(l) = f, f \notin todo
               PROVE  l <= start
    BY <1>1, <1>2 DEF Heard
  <2>1. start # NoPos
    BY <1>1, <1>2 DEF GapInv, OwedInv, FirstOwed
  <2>2. f \notin FileOf(start) .. newest
    BY <1>1, <2>1 DEF GapInv, FilesInv, Collected
  <2>3. l \in 1 .. NumLines /\ start \in 1 .. NumLines /\ f <= newest /\ l \in Int /\ start \in Int
    <3>1. l \in Written /\ start \in Written
      BY <2>1, GapTypes DEF Positions
    <3>2. QED
      BY <3>1, WrittenPlace, GapTypes
  <2>4. f < FileOf(start)
    <3>1. f \in Int /\ newest \in Int /\ FileOf(start) \in Int
      BY <2>1, GapTypes, StartFile
    <3>2. QED
      BY <2>2, <2>3, <3>1
  <2>5. l < start
    BY <2>3, <2>4, EarlierFile
  <2>6. QED
    BY <2>3, <2>5
<1>4. SweptBehind'
  BY <1>1, <1>2 DEF GapInv, FilesInv, SweptBehind, InHand
<1>5. QED
  BY <1>1, <1>2, <1>3, <1>4 DEF GapInv, FilesInv, Collected, NothingBehind, NothingDropped, EventsInTurn

(* The file swept next: the ones before it were read to their ends. *)
LEMMA SweepGap ==
  ASSUME IndexerConstants, Calm, GapInv, TailerStep, SweepOpen
  PROVE  FilesInv'
<1>1. PICK h \in Existing : NextFile(h) /\ todo' = todo \ {h} /\ hand' = h
  BY DEF SweepOpen
<1>2. phase = "sweep" /\ phase' = "read" /\ UNCHANGED <<watching, notifyQ, tails>>
  BY DEF SweepOpen, watcher
<1>3. OnItsWay' = OnItsWay /\ Alive /\ Alive' /\ UNCHANGED <<oldest, newest, size, dropped, start, owed>>
  BY <1>2, ThreadOwes DEF Emit
<1>4. h \in todo /\ h \in Files /\ h \in Int
  BY <1>1, GapTypes DEF NextFile
<1>5. /\ start # NoPos
      /\ \A f \in FileOf(start) .. h - 1 : f \in todo \/ tails[f] >= size[f]
  BY <1>2, <1>3, <1>4 DEF GapInv, FilesInv, SweptBehind, InHand
<1>6. \A f \in todo : ~ (f < h)
  <2> SUFFICES ASSUME NEW f \in todo, f < h PROVE FALSE
    OBVIOUS
  <2>1. f \in Files /\ PathOrder[f] < PathOrder[h]
    BY <1>4, GapTypes DEF Calm, Undisturbed, PathsInOrder
  <2>2. PathOrder[h] <= PathOrder[f]
    BY <1>1 DEF NextFile
  <2>3. PathOrder[f] \in Int /\ PathOrder[h] \in Int
    <3>1. PathOrder \in [Files -> Files] /\ Files \subseteq Int
      BY GapTypes DEF IndexerConstants, TailerAssumption
    <3>2. QED
      BY <1>4, <2>1, <3>1
  <2>4. QED
    BY <2>1, <2>2, <2>3
<1>7. NothingBehind'
  <2> SUFFICES ASSUME NEW l \in owed, FileOf(l) < h PROVE l \in OnItsWay
    BY <1>1, <1>3 DEF NothingBehind
  <2>1. /\ l \in 1 .. NumLines /\ start \in 1 .. NumLines /\ FileOf(l) \in Int /\ FileOf(start) \in Int
        /\ l \in Int /\ start \in Int
    <3>1. l \in Written /\ start \in Written
      BY <1>5, GapTypes DEF Positions
    <3>2. QED
      BY <3>1, WrittenPlace, GapTypes
  <2>2. CASE FileOf(l) < FileOf(start)
    <3>1. l <= start
      BY <2>1, <2>2, EarlierFile
    <3>2. QED
      BY <1>3, <3>1, PassedIsSent
  <2>3. CASE ~ (FileOf(l) < FileOf(start))
    <3>1. FileOf(l) \in FileOf(start) .. h - 1
      BY <1>4, <2>1, <2>3
    <3>2. tails[FileOf(l)] >= size[FileOf(l)]
      BY <1>5, <1>6, <3>1
    <3>3. QED
      BY <1>3, <3>2, ReadIsSent
  <2>4. QED
    BY <2>2, <2>3
<1>8. SweptBehind'
  BY <1>1, <1>2, <1>3 DEF GapInv, FilesInv, SweptBehind, InHand
<1>9. Heard'
  BY <1>1, <1>2, <1>3 DEF GapInv, FilesInv, Heard, InHand
<1>10. QED
  BY <1>2, <1>3, <1>7, <1>8, <1>9 DEF GapInv, FilesInv, Collected, NothingDropped, EventsInTurn

(* The event taken is for the earliest file. *)
LEMMA HeadEvent ==
  ASSUME IndexerConstants, TInv, EventsInTurn, notifyQ # << >>, notifyQ' = Tail(notifyQ)
  PROVE  /\ EventsInTurn' /\ \A f \in ToSet(notifyQ) : ~ (f < Head(notifyQ))
         /\ \A f \in ToSet(notifyQ') : Head(notifyQ) < f
<1>1. PICK h : h = Head(notifyQ)
  OBVIOUS
<1>2. PICK n \in Nat : n = Len(notifyQ) /\ n > 0
  <2>1. notifyQ \in Seq(Files)
    BY ThreadHas
  <2>2. QED
    BY <2>1
<1>3. /\ notifyQ[1] = h /\ DOMAIN notifyQ = 1 .. n /\ DOMAIN notifyQ' = 1 .. n - 1
      /\ Len(notifyQ') = n - 1
      /\ \A i \in 1 .. n - 1 : notifyQ'[i] = notifyQ[i + 1]
      /\ \A i \in 1 .. n : notifyQ[i] \in Files
  <2>1. notifyQ \in Seq(Files)
    BY ThreadHas
  <2>2. QED
    BY <1>1, <1>2, <2>1
<1>4. \A i, j \in 1 .. n : i < j => notifyQ[i] < notifyQ[j]
  BY <1>2 DEF EventsInTurn
<1>5. 1 \in 1 .. n /\ Files \subseteq Int /\ \A i \in 1 .. n - 1 : i + 1 \in 1 .. n /\ 1 < i + 1
  BY <1>2, ThreadHas
<1>6. \A i, j \in 1 .. n - 1 : i < j => i + 1 < j + 1
  OBVIOUS
<1>7. EventsInTurn'
  BY <1>3, <1>4, <1>5, <1>6 DEF EventsInTurn
<1>8. ASSUME NEW i \in 1 .. n, notifyQ[i] < h PROVE FALSE
  <2>1. i = 1 \/ 1 < i
    OBVIOUS
  <2>2. h = notifyQ[i] \/ h < notifyQ[i]
    BY <1>3, <1>4, <1>5, <2>1
  <2>3. h \in Int /\ notifyQ[i] \in Int
    BY <1>3, <1>5
  <2>4. QED
    BY <1>8, <2>2, <2>3
<1>9. \A i \in 1 .. n - 1 : h < notifyQ'[i]
  BY <1>3, <1>4, <1>5
<1>10. QED
  BY <1>1, <1>3, <1>7, <1>8, <1>9 DEF ToSet

(* The file of the next notification: an earlier file with unread lines    *)
(* would have an event too, and further ahead in the queue.                *)
LEMMA FollowGap ==
  ASSUME IndexerConstants, Calm, GapInv, TailerStep, Notified
  PROVE  FilesInv'
<1>1. PICK h : h = Head(notifyQ)
  OBVIOUS
<1>2. /\ phase = "wait" /\ phase' = "read" /\ notifyQ # << >> /\ notifyQ' = Tail(notifyQ) /\ hand' = h
      /\ tails' = [tails EXCEPT ![h] = TailOf(h)]
      /\ UNCHANGED <<watching, todo>>
  BY <1>1 DEF Notified, TakeEvent
<1>3. OnItsWay' = OnItsWay /\ Alive /\ Alive' /\ UNCHANGED <<oldest, newest, size, dropped, start, owed>>
  BY <1>2, ThreadOwes DEF Emit
<1>4. watching
  BY <1>2 DEF GapInv, WInv, Beginning
<1>5. PICK n \in Nat : n = Len(notifyQ) /\ n > 0
  <2>1. notifyQ \in Seq(Files)
    BY GapTypes, ThreadHas
  <2>2. QED
    BY <1>2, <2>1
<1>6. /\ notifyQ[1] = h /\ Len(notifyQ') = n - 1
      /\ \A i \in 1 .. n - 1 : notifyQ'[i] = notifyQ[i + 1]
      /\ h \in Files /\ \A i \in 1 .. n : notifyQ[i] \in Files
  <2>1. notifyQ \in Seq(Files)
    BY GapTypes, ThreadHas
  <2>2. QED
    BY <1>1, <1>2, <1>5, <2>1
<1>7. dropped = {} /\ \A i \in 1 .. n : notifyQ[i] >= i
  BY <1>5 DEF GapInv, FilesInv, NothingDropped, EventsInTurn
<1>8. \A i \in 1 .. n - 1 : i + 1 \in 1 .. n
  OBVIOUS
<1>9. NothingDropped'
  <2>1. EventsInTurn'
    BY <1>2, HeadEvent, GapTypes DEF GapInv, FilesInv, NothingDropped
  <2>2. \A i \in 1 .. n - 1 : notifyQ'[i] >= i
    <3> SUFFICES ASSUME NEW i \in 1 .. n - 1 PROVE notifyQ'[i] >= i
      OBVIOUS
    <3>1. notifyQ'[i] >= i + 1 /\ notifyQ'[i] \in Int
      BY <1>6, <1>7, <1>8, GapTypes
    <3>2. QED
      BY <3>1
  <2>3. QED
    BY <1>3, <1>6, <1>7, <2>1, <2>2 DEF NothingDropped
<1>10. \A f \in ToSet(notifyQ) : ~ (f < h)
  BY <1>1, <1>2, HeadEvent, GapTypes DEF GapInv, FilesInv, NothingDropped
<1>11. todo = {}
  BY <1>2, <1>3, CalmHas DEF Orderly, Sweeps
<1>12. \A f \in Files : tails'[f] = IF f = h THEN TailOf(h) ELSE tails[f]
  BY <1>2, <1>6, GapTypes, ThreadHas
<1>13. TailOf(h) # Untracked
  BY <1>6, GapTypes DEF TailOf, Untracked
<1>14. NothingBehind'
  <2> SUFFICES ASSUME NEW l \in owed, FileOf(l) < h PROVE l \in OnItsWay
    BY <1>2, <1>3 DEF NothingBehind
  <2> DEFINE f == FileOf(l)
  <2>1. f \in Files /\ f \notin ToSet(notifyQ) /\ tails[f] \in Int /\ size[f] \in Int
    <3>1. l \in Written
      BY GapTypes
    <3>2. QED
      BY <1>10, <3>1, WrittenPlace, GapTypes
  <2>2. CASE l <= start
    BY <1>3, <2>2, PassedIsSent
  <2>3. CASE tails[f] # Untracked
    <3>1. ~ (tails[f] < size[f])
      BY <1>2, <1>4, <1>7, <2>1, <2>3, CalmHas DEF GapInv, WInv, NoLostWakeup
    <3>2. tails[f] >= size[f]
      BY <2>1, <3>1
    <3>3. QED
      BY <1>3, <3>2, ReadIsSent
  <2>4. QED
    BY <1>2, <1>4, <1>11, <2>1, <2>2, <2>3 DEF GapInv, FilesInv, Heard, InHand
<1>15. SweptBehind'
  BY <1>2, <1>11 DEF SweptBehind
<1>16. Heard'
  <2>1. ToSet(notifyQ) \subseteq ToSet(notifyQ') \union {h}
    <3>1. notifyQ \in Seq(Files)
      BY GapTypes, ThreadHas
    <3>2. QED
      BY <1>1, <1>2, <3>1, QueueTail
  <2> SUFFICES ASSUME NEW f \in Files
               PROVE  \/ tails'[f] # Untracked \/ f \in todo \/ InHand(f)' \/ f \in ToSet(notifyQ')
                      \/ \A l \in owed : FileOf(l) = f => l <= start
    BY <1>2, <1>3 DEF Heard
  <2>2. CASE f = h
    BY <1>12, <1>13, <2>2
  <2>3. CASE f # h
    <3>1. \/ tails[f] # Untracked \/ f \in todo \/ f \in ToSet(notifyQ)
          \/ \A l \in owed : FileOf(l) = f => l <= start
      BY <1>2, <1>4 DEF GapInv, FilesInv, Heard, InHand
    <3>2. QED
      BY <1>12, <2>1, <2>3, <3>1
  <2>4. QED
    BY <2>2, <2>3
<1>17. QED
  BY <1>2, <1>3, <1>9, <1>14, <1>15, <1>16 DEF GapInv, FilesInv, Collected

LEMMA EndGap ==
  ASSUME IndexerConstants, Calm, GapInv, TailerStep, SweepDone \/ ReadEnd
  PROVE  FilesInv'
<1>1. /\ phase' \in {"sweep", "wait"} /\ phase \in {"sweep", "read"}
      /\ UNCHANGED <<todo, watching, notifyQ>>
      /\ \/ phase = "sweep" /\ tails' = tails
         \/ phase = "read" /\ at >= size[hand] /\ tails' = [tails EXCEPT ![hand] = at]
  BY DEF SweepDone, ReadEnd, Back, watcher
<1>2. OnItsWay' = OnItsWay /\ Alive /\ Alive' /\ UNCHANGED <<oldest, newest, size, dropped, start, owed>>
  BY ThreadOwes DEF SweepDone, ReadEnd, Emit
<1>3. at # Untracked
  BY GapTypes, ThreadHas DEF Untracked
<1>4. \A f \in Files : IF InHand(f) THEN tails'[f] >= size[f] /\ tails'[f] # Untracked
                                   ELSE tails'[f] = tails[f]
  <2>1. hand \in Files /\ tails \in [Files -> 0 .. MaxLines \union {Untracked}]
    BY GapTypes, ThreadHas
  <2>2. QED
    BY <1>1, <1>3, <2>1 DEF InHand
<1>5. SweptBehind'
  <2> SUFFICES ASSUME NEW g \in todo
               PROVE  /\ start # NoPos
                      /\ \A f \in FileOf(start) .. g - 1 : f \in todo \/ tails'[f] >= size[f]
    BY <1>1, <1>2 DEF SweptBehind
  <2>1. /\ start # NoPos
        /\ \A f \in FileOf(start) .. g - 1 : f \in todo \/ InHand(f) \/ tails[f] >= size[f]
    BY <1>2 DEF GapInv, FilesInv, SweptBehind
  <2>2. \A f \in FileOf(start) .. g - 1 : f \in Files
    <3>1. FileOf(start) \in 1 .. NumFiles /\ NumFiles \in Nat /\ Files = 1 .. NumFiles /\ g \in 1 .. NumFiles
      BY <2>1, GapTypes, StartFile
    <3>2. QED
      BY <3>1
  <2>3. QED
    BY <1>4, <2>1, <2>2
<1>6. Heard'
  BY <1>1, <1>2, <1>4 DEF GapInv, FilesInv, Heard
<1>7. NothingBehind'
  BY <1>1 DEF NothingBehind
<1>8. QED
  BY <1>1, <1>2, <1>5, <1>6, <1>7 DEF GapInv, FilesInv, Collected, NothingDropped, EventsInTurn

LEMMA EmitGap ==
  ASSUME IndexerConstants, GapInv, TailerStep, Emit
  PROVE  OwedInv' /\ FilesInv'
<1>1. /\ phase = "read"
      /\ UNCHANGED <<node, watcher, phase, start, todo, sweeping, hand, tails, errors>>
  BY DEF Emit
<1>2. Alive /\ UNCHANGED <<runner, owed>>
  BY DEF TailerStep
<1>3. UNCHANGED <<pc, cur, why, pending, active, durable, checkpoint>>
  BY <1>2 DEF runner
<1>4. PICK n \in Nat : n = Len(lineCh)
  BY EmitAhead DEF GapInv, CInv
<1>5. PICK m : m = Id(hand, at + 1)
  OBVIOUS
<1>6. /\ at \in Nat /\ hand \in Files /\ FileOf(m) = hand /\ LineOf(m) = at + 1 /\ m \in 1 .. NumLines
      /\ Len(lineCh') = n + 1 /\ lineCh'[n + 1] = m
      /\ \A j \in 1 .. n : lineCh'[j] = lineCh[j]
  BY <1>5, <1>4, EmitAhead, Numbers DEF GapInv, CInv
<1>7. Settled' = Settled /\ OnItsWay \subseteq OnItsWay' /\ \A i \in 1 .. n + 1 : Ahead(i)' = Ahead(i)
  BY <1>4, EmitAhead DEF GapInv, CInv
<1>8. OwedUpTo(m - 1, OnItsWay)
  <2> SUFFICES ASSUME NEW l \in owed, l <= m - 1 PROVE l \in OnItsWay
    BY DEF OwedUpTo
  <2>1. l \in 1 .. NumLines /\ l \in Int /\ m \in Int /\ FileOf(l) \in Files /\ LineOf(l) \in 1 .. MaxLines
        /\ Id(FileOf(l), LineOf(l)) = l
    <3>1. l \in Written
      BY GapTypes
    <3>2. QED
      BY <1>6, <3>1, WrittenPlace, GapTypes
  <2>2. l < m
    BY <2>1
  <2>3. FileOf(l) < hand \/ (FileOf(l) = hand /\ LineOf(l) < at + 1)
    BY <1>6, <2>1, <2>2, LineOrder
  <2>4. CASE FileOf(l) < hand
    BY <1>1, <1>2, <2>4 DEF GapInv, FilesInv, NothingBehind
  <2>5. CASE FileOf(l) = hand /\ LineOf(l) < at + 1
    <3>1. LineOf(l) \in 1 .. at
      BY <1>6, <2>1, <2>5
    <3>2. LinesUpTo(hand, at, OnItsWay)
      BY <1>1, <1>2 DEF GapInv, CInv, SentInOrder
    <3>3. QED
      BY <2>1, <2>5, <3>1, <3>2 DEF LinesUpTo
  <2>6. QED
    BY <2>3, <2>4, <2>5
<1>9. QueuedInTurn'
  <2> SUFFICES ASSUME NEW i \in 1 .. n + 1 PROVE OwedUpTo(lineCh'[i] - 1, Ahead(i)')
    BY <1>2, <1>6 DEF QueuedInTurn, OwedUpTo
  <2>1. CASE i \in 1 .. n
    <3>1. OwedUpTo(lineCh[i] - 1, Ahead(i))
      BY <1>4, <2>1 DEF GapInv, OwedInv, QueuedInTurn
    <3>2. lineCh'[i] = lineCh[i] /\ Ahead(i)' = Ahead(i)
      BY <1>6, <1>7, <2>1
    <3>3. QED
      BY <3>1, <3>2
  <2>2. CASE i = n + 1
    <3>1. Ahead(i)' = OnItsWay
      BY <1>4, <1>7, <2>2 DEF OnItsWay
    <3>2. QED
      BY <1>6, <1>8, <2>2, <3>1
  <2>3. QED
    BY <2>1, <2>2
<1>10. HandledInTurn' /\ FirstOwed' /\ NoGap'
  BY <1>1, <1>2, <1>3, <1>7 DEF GapInv, OwedInv, HandledInTurn, OwedUpTo, FirstOwed, NoGap, Alive
<1>11. FilesInv'
  <2>1. UNCHANGED <<oldest, newest, size, watching, notifyQ, dropped>>
    BY <1>1 DEF node, watcher
  <2>2. NothingBehind'
    BY <1>1, <1>2, <1>7 DEF GapInv, FilesInv, NothingBehind
  <2>3. QED
    BY <1>1, <1>2, <1>3, <2>1, <2>2
       DEF GapInv, FilesInv, Collected, SweptBehind, Heard, NothingDropped, EventsInTurn, InHand, Alive
<1>12. QED
  BY <1>9, <1>10, <1>11 DEF OwedInv

-----------------------------------------------------------------------------
LEMMA NextGap ==
  ASSUME IndexerConstants, Calm, GapInv, [IndexerNext]_allVars
  PROVE  GapInv'
<1>1. CInv' /\ WInv' /\ OInv'
  BY NextCovers, NextWakes, NextOrders DEF GapInv
<1>2. CASE UNCHANGED allVars
  <2>1. UNCHANGED <<node, watcher, thread, lineCh, runner, owed>>
    BY <1>2 DEF allVars, vars
  <2>2. /\ UNCHANGED <<oldest, newest, size, watching, notifyQ, dropped, lineCh, owed>>
        /\ UNCHANGED <<phase, start, todo, hand, at, tails>>
        /\ UNCHANGED <<pc, cur, why, pending, active, durable, checkpoint>>
    BY <2>1 DEF node, watcher, thread, runner
  <2>3. Settled' = Settled /\ OnItsWay' = OnItsWay /\ \A i : Ahead(i)' = Ahead(i)
    BY <2>2 DEF Settled, OnItsWay, Ahead
  <2>4. OwedInv'
    BY <2>2, <2>3
       DEF GapInv, OwedInv, HandledInTurn, QueuedInTurn, FirstOwed, NoGap, OwedUpTo, Alive
  <2>5. FilesInv'
    BY <2>2, <2>3
       DEF GapInv, FilesInv, Collected, SweptBehind, Heard, NothingBehind, NothingDropped, EventsInTurn, InHand, Alive
  <2>6. QED
    BY <1>1, <2>4, <2>5 DEF GapInv
<1>3. CASE TailerStep /\ ~ Emit
  <2>1. OwedInv' /\ ThreadStep
    BY <1>3, ThreadOwes
  <2>2. FilesInv'
    BY <1>3, <2>1, NeverHappen, CollectGap, WatchGap, SweepGap, FollowGap, EndGap DEF ThreadStep
  <2>3. QED
    BY <1>1, <2>1, <2>2 DEF GapInv
<1>4. CASE TailerStep /\ Emit
  BY <1>1, <1>4, EmitGap DEF GapInv
<1>5. QED
  BY <1>1, <1>2, <1>3, <1>4, NeverHappen, AppendGap, RotateGap, RunnerGap, StopGap, StartGap
     DEF IndexerNext, GapInv

(* README "On restart the indexer resumes from the last checkpoint": where *)
(* nothing is lost on the way to the tailer, no checkpoint passes a line   *)
(* written since the first one that is not stored (NoGap), for any number  *)
(* of files, lines, stops and restarts and any capacity of the channel.    *)
THEOREM NoGapSafe ==
  ASSUME TailerAssumption, IndexerAssumption, Calm
  PROVE  IndexerSpec => []NoGap
<1>1. IndexerInit => GapInv
  BY InitGap DEF IndexerConstants
<1>2. GapInv /\ [IndexerNext]_allVars => GapInv'
  BY NextGap DEF IndexerConstants
<1>3. GapInv => NoGap
  BY DEF GapInv, OwedInv
<1>4. QED
  BY <1>1, <1>2, <1>3, PTL DEF IndexerSpec

-----------------------------------------------------------------------------
(* Why ResumesFromCheckpoint holds.  The files are taken up in their order *)
(* (a new one comes after all that are known) from the one of the start    *)
(* position on, so each line sent comes after all that were sent before    *)
(* and after the start position.                                           *)

Known(f) == f \in todo \/ tails[f] # Untracked \/ sent[f] # Untracked \/ InHand(f)
Sent(x)  == x <= start \/ (sent[FileOf(x)] # Untracked /\ LineOf(x) <= sent[FileOf(x)])
Busy     == pc = "write" \/ (pc = "commit" /\ why = "event")

(* The positions of the runner are of lines that this process has sent or  *)
(* that it has passed over by its start position.                          *)
AllSent ==
  Alive => /\ Sent(checkpoint) /\ Sent(pending)
           /\ Busy => Sent(cur)
           /\ \A i \in 1 .. Len(lineCh) : Sent(lineCh[i])

FilesInTurn ==
  /\ EventsInTurn
  /\ watching => \A q \in ToSet(notifyQ), f \in Files : Known(f) => f <= q
  /\ Alive => \A f \in Files : Known(f) => f <= newest
  /\ Alive => \A g \in todo, f \in Files : sent[f] # Untracked \/ InHand(f) => f < g
  /\ Alive /\ phase = "read" => \A f \in Files : sent[f] # Untracked => f <= hand

FromStart ==
  Alive /\ start # NoPos =>
    /\ \A f \in Files : Known(f) => f >= FileOf(start)
    /\ \A q \in ToSet(notifyQ) : q >= FileOf(start)
    /\ sent[FileOf(start)] # Untracked => sent[FileOf(start)] >= LineOf(start)

LinesInTurn ==
  Alive =>
    /\ pc = "write" => cur > checkpoint /\ cur > pending
    /\ \A i \in 1 .. Len(lineCh) :
         /\ lineCh[i] > checkpoint /\ lineCh[i] > pending
         /\ Busy => lineCh[i] > cur
    /\ \A i, j \in 1 .. Len(lineCh) : i < j => lineCh[i] < lineCh[j]

Passing    == AllSent /\ LinesInTurn
TakingUp   == FilesInTurn /\ FromStart
ResumeInv  == CInv /\ WInv /\ OInv /\ Passing /\ TakingUp

LEMMA ResumeTypes ==
  ASSUME IndexerConstants, Undisturbed, ResumeInv
  PROVE  /\ TInv /\ errors = 0 /\ (Alive => Orderly)
         /\ Positions \subseteq Int /\ \A p \in Positions : p >= 0
         /\ {start, pending, checkpoint} \subseteq Positions
         /\ Files \subseteq Int /\ newest \in Files /\ hand \in Files /\ todo \subseteq Files
         /\ ToSet(notifyQ) \subseteq Files
         /\ sent \in [Files -> 0 .. MaxLines \union {Untracked}]
         /\ tails \in [Files -> 0 .. MaxLines \union {Untracked}]
         /\ MaxLines \in Nat /\ Untracked = -1
<1>1. TInv /\ NumLines \in Nat /\ newest \in Files
  BY NodeType DEF ResumeInv, WInv
<1>2. errors = 0
  <2>1. errors \in 0 .. MaxErrors /\ MaxErrors = 0
    BY <1>1, ThreadHas DEF Undisturbed
  <2>2. QED
    BY <2>1
<1>3. Positions \subseteq 0 .. NumLines
  BY <1>1 DEF Positions, NoPos, Written
<1>4. {start, pending, checkpoint} \subseteq Positions
  BY <1>1 DEF TInv
<1>5. ToSet(notifyQ) \subseteq Files
  <2>1. notifyQ \in Seq(Files)
    BY <1>1, ThreadHas
  <2>2. QED
    BY <2>1 DEF ToSet
<1>6. Positions \subseteq Int /\ \A p \in Positions : p >= 0
  BY <1>1, <1>3
<1>7. QED
  BY <1>1, <1>2, <1>4, <1>5, <1>6, ThreadHas DEF ResumeInv, OInv

LEMMA InitResumes == IndexerConstants /\ IndexerInit => ResumeInv
<1> SUFFICES ASSUME IndexerConstants, IndexerInit PROVE ResumeInv
  OBVIOUS
<1>1. CInv /\ WInv /\ OInv
  BY InitCovered, InitWakes, InitOrders
<1>2. /\ lineCh = << >> /\ phase = "collect" /\ checkpoint = 0 /\ start = 0 /\ pending = 0
      /\ watching = FALSE /\ todo = {} /\ notifyQ = << >> /\ pc = "select"
      /\ tails = NoTails /\ sent = NoTails
  BY DEF IndexerInit, InitThread, InitNode, NoPos
<1>3. Len(lineCh) = 0 /\ Len(notifyQ) = 0
  BY <1>2
<1>4. \A f \in Files : tails[f] = Untracked /\ sent[f] = Untracked /\ ~ Known(f)
  BY <1>2 DEF NoTails, Known, InHand
<1>5. Passing
  BY <1>2, <1>3 DEF Passing, AllSent, LinesInTurn, Sent, Busy
<1>6. TakingUp
  BY <1>2, <1>3, <1>4 DEF TakingUp, FilesInTurn, EventsInTurn, FromStart, NoPos
<1>7. QED
  BY <1>1, <1>5, <1>6 DEF ResumeInv

-----------------------------------------------------------------------------
(* The runner passes the lines on in the order of the channel. *)

LEMMA RunnerResumes ==
  ASSUME IndexerConstants, Undisturbed, ResumeInv, RunnerStep
  PROVE  Passing' /\ TakingUp'
<1>1. RunnerDoes /\ UNCHANGED <<node, watcher, thread>>
  BY RunnerIs, ResumeTypes
<1>2. Alive /\ Alive'
  BY <1>1 DEF RunnerDoes, TakeLine, WriteLine, TickComes, CommitRows, SaveCheckpoint, Alive
<1>3. UNCHANGED <<newest, watching, notifyQ, phase, start, todo, hand, tails, sent>>
  BY <1>1 DEF node, watcher, thread
<1>4. TakingUp'
  BY <1>2, <1>3
     DEF ResumeInv, TakingUp, FilesInTurn, EventsInTurn, FromStart, Known, InHand
<1>5. \A x : Sent(x)' <=> Sent(x)
  BY <1>3 DEF Sent
<1>6. AllSent /\ LinesInTurn
  BY DEF ResumeInv, Passing
<1>7. CASE TakeLine
  <2>1. /\ pc = "select" /\ pc' = "write" /\ UNCHANGED <<pending, checkpoint>>
    BY <1>7 DEF TakeLine
  <2>2. PICK n \in Nat : n = Len(lineCh) /\ n > 0
    BY <1>7, TakeAhead, ResumeTypes
  <2>3. /\ cur' = lineCh[1] /\ Len(lineCh') = n - 1
        /\ \A j \in 1 .. n - 1 : lineCh'[j] = lineCh[j + 1]
    BY <1>7, <2>2, TakeAhead, ResumeTypes
  <2>4. 1 \in 1 .. n /\ \A j \in 1 .. n - 1 : j + 1 \in 1 .. n /\ 1 < j + 1
    BY <2>2
  <2>5. \A i, j \in 1 .. n - 1 : i < j => i + 1 < j + 1
    OBVIOUS
  <2>6. AllSent'
    BY <1>2, <1>5, <1>6, <2>1, <2>2, <2>3, <2>4 DEF AllSent
  <2>7. /\ \A i \in 1 .. n : lineCh[i] > checkpoint /\ lineCh[i] > pending
        /\ \A i, j \in 1 .. n : i < j => lineCh[i] < lineCh[j]
        /\ \A i \in 1 .. n : lineCh[i] \in Int
    <3>1. lineCh \in Seq(Written) /\ Written \subseteq Int
      BY ResumeTypes, ThreadHas DEF Positions
    <3>2. \A i \in 1 .. n : lineCh[i] \in Int
      <4>1. \A i \in 1 .. n : lineCh[i] \in Written
        BY <2>2, <3>1
      <4>2. QED
        BY <3>1, <4>1
    <3>3. QED
      BY <1>2, <1>6, <2>2, <3>2 DEF LinesInTurn
  <2>8. /\ cur' > checkpoint /\ cur' > pending
        /\ \A i \in 1 .. n - 1 : lineCh'[i] > checkpoint /\ lineCh'[i] > pending /\ lineCh'[i] > cur'
    BY <2>3, <2>4, <2>7
  <2>9. \A i, j \in 1 .. n - 1 : i < j => lineCh'[i] < lineCh'[j]
    BY <2>3, <2>4, <2>5, <2>7
  <2>10. LinesInTurn'
    BY <2>1, <2>3, <2>8, <2>9 DEF LinesInTurn
  <2>11. QED
    BY <1>4, <2>6, <2>10 DEF Passing
<1>8. CASE WriteLine \/ TickComes \/ SaveCheckpoint
  <2>1. /\ UNCHANGED <<cur, lineCh, pending>>
        /\ pc' # "write" /\ (pc' = "commit" /\ why' = "event" => pc = "write")
        /\ checkpoint' \in {checkpoint, pending}
    BY <1>8 DEF WriteLine, TickComes, SaveCheckpoint
  <2>2. QED
    BY <1>2, <1>4, <1>5, <1>6, <2>1 DEF Passing, AllSent, LinesInTurn, Busy
<1>9. CASE CommitRows
  <2>1. /\ UNCHANGED <<cur, lineCh, checkpoint>> /\ pc = "commit"
        /\ pc' \notin {"write", "commit"}
        /\ pending' = pending \/ (why = "event" /\ pending' = cur)
    BY <1>9 DEF CommitRows
  <2>2. QED
    BY <1>2, <1>4, <1>5, <1>6, <2>1 DEF Passing, AllSent, LinesInTurn, Busy
<1>10. QED
  BY <1>1, <1>7, <1>8, <1>9 DEF RunnerDoes

LEMMA StopResumes ==
  ASSUME IndexerConstants, Undisturbed, ResumeInv, Stop
  PROVE  Passing' /\ TakingUp'
<1>1. pc' = "down" /\ watching' = FALSE /\ notifyQ' = << >>
  BY StopIs, ResumeTypes
<1>2. Len(notifyQ') = 0
  BY <1>1
<1>3. QED
  BY <1>1, <1>2
     DEF Passing, AllSent, LinesInTurn, TakingUp, FilesInTurn, EventsInTurn, FromStart, Alive

LEMMA StartResumes ==
  ASSUME IndexerConstants, Undisturbed, ResumeInv, OInv', Start
  PROVE  Passing' /\ TakingUp'
<1>1. /\ pc = "down" /\ pc' = "select"
      /\ phase' = "collect" /\ start' = checkpoint /\ todo' = {}
      /\ tails' = NoTails /\ sent' = NoTails
      /\ UNCHANGED <<watcher, lineCh, pending, checkpoint>>
  BY StartIs, ResumeTypes
<1>2. ~ watching /\ notifyQ = << >> /\ lineCh = << >> /\ pending = NoPos
  <2>1. ~ watching /\ notifyQ = << >>
    BY <1>1 DEF ResumeInv, WInv, Beginning, Alive
  <2>2. QED
    BY <1>1, <2>1 DEF ResumeInv, CInv, StopEmpties, Alive
<1>3. \A f \in Files : tails'[f] = Untracked /\ sent'[f] = Untracked /\ ~ Known(f)'
  BY <1>1 DEF NoTails, Known, InHand
<1>4. Len(lineCh') = 0 /\ Len(notifyQ') = 0 /\ ToSet(notifyQ') = {} /\ ~ watching' /\ notifyQ' = << >>
  BY <1>1, <1>2, QueueEmpty DEF watcher
<1>5. Passing'
  <2>1. checkpoint <= checkpoint /\ 0 <= checkpoint
    BY ResumeTypes
  <2>2. QED
    BY <1>1, <1>2, <1>4, <2>1 DEF Passing, AllSent, LinesInTurn, Sent, Busy, NoPos
<1>6. checkpoint # NoPos => FileOf(checkpoint) \in Files
  BY ResumeTypes, WrittenPlace DEF Positions
<1>7. TakingUp'
  BY <1>1, <1>3, <1>4, <1>6 DEF TakingUp, FilesInTurn, EventsInTurn, FromStart, InHand
<1>8. QED
  BY <1>5, <1>7

-----------------------------------------------------------------------------
(* The node's steps. *)

LEMMA AppendResumes ==
  ASSUME IndexerConstants, Undisturbed, ResumeInv, Append1
  PROVE  Passing' /\ TakingUp'
<1>1. /\ newest \in Files /\ Notify(newest) /\ UNCHANGED <<newest, watching, thread, lineCh, runner>>
  BY ResumeTypes DEF Append1, NodeAppend, Notify
<1>2. /\ UNCHANGED <<phase, start, todo, hand, tails, sent>>
      /\ UNCHANGED <<pc, cur, why, pending, checkpoint>>
  BY <1>1 DEF thread, runner
<1>3. Passing'
  BY <1>1, <1>2 DEF ResumeInv, Passing, AllSent, LinesInTurn, Sent, Busy, Alive
<1>4. FilesInTurn /\ FromStart
  BY DEF ResumeInv, TakingUp
<1>5. EventsInTurn'
  BY <1>1, <1>4, NotifyInTurn DEF ResumeInv, FilesInTurn
<1>6. /\ ToSet(notifyQ') \subseteq ToSet(notifyQ) \union {newest}
      /\ ~ watching => notifyQ' = notifyQ
  BY <1>1, NotifyIs, ResumeTypes
<1>7. watching => Alive
  BY DEF ResumeInv, WInv, Beginning
<1>8. \A f : Known(f)' <=> Known(f)
  BY <1>2 DEF Known, InHand
<1>9. FilesInTurn'
  <2>1. watching => \A q \in ToSet(notifyQ'), f \in Files : Known(f) => f <= q
    BY <1>4, <1>6, <1>7 DEF FilesInTurn
  <2>2. QED
    BY <1>1, <1>2, <1>4, <1>5, <1>8, <2>1 DEF FilesInTurn, InHand, Alive
<1>10. FromStart'
  <2>1. start # NoPos => newest >= FileOf(start)
    BY StartFile, ResumeTypes
  <2>2. QED
    BY <1>1, <1>2, <1>4, <1>6, <1>8, <2>1 DEF FromStart, Alive
<1>11. QED
  BY <1>3, <1>9, <1>10 DEF TakingUp

LEMMA NodeResumes ==
  ASSUME IndexerConstants, Undisturbed, ResumeInv, Rotate \/ Prune \/ WatchNewDir
  PROVE  Passing' /\ TakingUp'
<1>1. UNCHANGED <<watching, notifyQ, thread, lineCh, runner>> /\ newest' \in {newest, newest + 1}
  BY DEF Rotate, NodeRotate, Prune, NodePrune, WatchNewDir, DirWatched, node, watcher
<1>2. /\ UNCHANGED <<phase, start, todo, hand, tails, sent>>
      /\ UNCHANGED <<pc, cur, why, pending, checkpoint>>
  BY <1>1 DEF thread, runner
<1>3. Passing'
  BY <1>1, <1>2 DEF ResumeInv, Passing, AllSent, LinesInTurn, Sent, Busy, Alive
<1>4. \A f : Known(f)' <=> Known(f)
  BY <1>2 DEF Known, InHand
<1>5. Alive => \A f \in Files : Known(f) => f <= newest'
  <2>1. Alive => \A f \in Files : Known(f) => f <= newest
    BY DEF ResumeInv, TakingUp, FilesInTurn
  <2>2. newest \in Int /\ Files \subseteq Int
    BY ResumeTypes
  <2>3. \A f \in Int : f <= newest => f <= newest'
    BY <1>1, <2>2
  <2>4. QED
    BY <2>1, <2>2, <2>3
<1>6. QED
  BY <1>1, <1>2, <1>3, <1>4, <1>5
     DEF ResumeInv, TakingUp, FilesInTurn, EventsInTurn, FromStart, InHand, Alive

-----------------------------------------------------------------------------
(* The thread's steps. *)

(* A step of the thread that sends nothing. *)
LEMMA ThreadPasses ==
  ASSUME IndexerConstants, Undisturbed, ResumeInv, TailerStep, ~ Emit
  PROVE  /\ Passing' /\ Alive /\ Alive' /\ ThreadStep
         /\ UNCHANGED <<newest, start, sent>> /\ ~ Error
<1>1. Alive /\ ThreadStep /\ UNCHANGED <<runner, owed>>
  BY DEF TailerStep
<1>2. UNCHANGED <<node, lineCh, start, sent>>
  BY <1>1 DEF ThreadStep, Collect, Watch, SweepOpen, SweepSkip, SweepDone, Notified,
     NotifiedSkip, ReadEnd, ReadError
<1>3. UNCHANGED <<pc, cur, why, pending, checkpoint>>
  BY <1>1 DEF runner
<1>4. Passing'
  BY <1>2, <1>3 DEF ResumeInv, Passing, AllSent, LinesInTurn, Sent, Busy, Alive
<1>5. ~ Error
  BY ResumeTypes DEF Undisturbed, Error
<1>6. QED
  BY <1>1, <1>2, <1>3, <1>4, <1>5 DEF Alive, node

LEMMA CollectTakesUp ==
  ASSUME IndexerConstants, Undisturbed, ResumeInv, TailerStep, Collect
  PROVE  TakingUp'
<1>1. /\ phase = "collect" /\ phase' = "watch"
      /\ todo' = IF start = NoPos THEN {} ELSE SeekTo(Existing, start)
      /\ UNCHANGED <<watching, notifyQ, hand, at, tails>>
  BY DEF Collect, watcher
<1>2. Alive /\ Alive' /\ UNCHANGED <<newest, start, sent>>
  BY <1>1, ThreadPasses DEF Emit
<1>3. ~ watching /\ notifyQ = << >>
  BY <1>1 DEF ResumeInv, WInv, Beginning
<1>4. \A f \in Files : tails[f] = Untracked /\ sent[f] = Untracked
  <2>1. sent = NoTails /\ tails = NoTails
    BY <1>1, <1>2, ResumeTypes DEF Orderly, Fresh
  <2>2. QED
    BY <2>1 DEF NoTails
<1>5. \A f \in Files : Known(f)' => f \in todo'
  BY <1>1, <1>2, <1>4 DEF Known, InHand
<1>6. \A f \in todo' : f <= newest
  <2>1. todo' \subseteq Existing
    BY <1>1 DEF SeekTo
  <2>2. QED
    BY <2>1, NodeType, ResumeTypes DEF Existing
<1>7. ASSUME start # NoPos, NEW f \in Files, f \in todo' PROVE f >= FileOf(start)
  <2>1. FileOf(start) \in Files /\ (FileOf(start) \in Existing \/ FileOf(start) < oldest)
        /\ f \in Int /\ FileOf(start) \in Int /\ oldest \in Int
    BY <1>7, StartFile, NodeType, ResumeTypes
  <2>2. f \in SeekTo(Existing, start)
    BY <1>1, <1>7
  <2>3. CASE FileOf(start) \in Existing
    <3>1. PathOrder[f] >= PathOrder[FileOf(start)]
      BY <2>2, <2>3 DEF SeekTo, Undisturbed
    <3>2. PathOrder[f] \in Int /\ PathOrder[FileOf(start)] \in Int
      <4>1. PathOrder \in [Files -> Files] /\ Files \subseteq Int
        BY ResumeTypes DEF IndexerConstants, TailerAssumption
      <4>2. QED
        BY <1>7, <2>1, <4>1
    <3>3. ~ (f < FileOf(start))
      <4>1. f < FileOf(start) => PathOrder[f] < PathOrder[FileOf(start)]
        BY <1>7, <2>1 DEF Undisturbed, PathsInOrder
      <4>2. QED
        BY <3>1, <3>2, <4>1
    <3>4. QED
      BY <2>1, <3>3
  <2>4. CASE FileOf(start) < oldest
    <3>1. f \in Existing
      BY <2>2 DEF SeekTo
    <3>2. f >= oldest
      BY <3>1 DEF Existing
    <3>3. QED
      BY <2>1, <2>4, <3>2
  <2>5. QED
    BY <2>1, <2>3, <2>4
<1>8. FilesInTurn'
  BY <1>1, <1>2, <1>3, <1>4, <1>5, <1>6
     DEF ResumeInv, TakingUp, FilesInTurn, EventsInTurn, InHand
<1>9. FromStart'
  <2>1. start # NoPos => FileOf(start) \in Files
    BY StartFile, ResumeTypes
  <2>2. QED
    BY <1>1, <1>2, <1>3, <1>4, <1>5, <1>7, <2>1, QueueEmpty DEF FromStart
<1>10. QED
  BY <1>8, <1>9 DEF TakingUp

LEMMA SweepTakesUp ==
  ASSUME IndexerConstants, Undisturbed, ResumeInv, TailerStep, SweepOpen
  PROVE  TakingUp'
<1>1. PICK h \in Existing : NextFile(h) /\ todo' = todo \ {h} /\ hand' = h
  BY DEF SweepOpen
<1>2. phase = "sweep" /\ phase' = "read" /\ UNCHANGED <<watching, notifyQ, tails>>
  BY DEF SweepOpen, watcher
<1>3. Alive /\ Alive' /\ UNCHANGED <<newest, start, sent>>
  BY <1>2, ThreadPasses DEF Emit
<1>4. h \in todo /\ h \in Files
  BY <1>1, ResumeTypes DEF NextFile
<1>5. \A f \in Files : Known(f)' => Known(f)
  BY <1>1, <1>2, <1>3, <1>4 DEF Known, InHand
<1>6. FilesInTurn /\ FromStart
  BY DEF ResumeInv, TakingUp
<1>7. \A g \in todo' : h < g
  <2> SUFFICES ASSUME NEW g \in todo, g # h PROVE h < g
    BY <1>1
  <2>1. g \in Files /\ g \in Int /\ h \in Int /\ PathOrder[h] \in Int /\ PathOrder[g] \in Int
    <3>1. PathOrder \in [Files -> Files] /\ Files \subseteq Int /\ g \in Files
      BY ResumeTypes DEF IndexerConstants, TailerAssumption
    <3>2. QED
      BY <1>4, <3>1
  <2>2. PathOrder[h] <= PathOrder[g]
    BY <1>1 DEF NextFile
  <2>3. g < h => PathOrder[g] < PathOrder[h]
    BY <1>4, <2>1 DEF Undisturbed, PathsInOrder
  <2>4. ~ (g < h)
    BY <2>1, <2>2, <2>3
  <2>5. QED
    BY <2>1, <2>4
<1>8. /\ \A g \in todo', f \in Files : sent[f] # Untracked \/ f = h => f < g
      /\ \A f \in Files : sent[f] # Untracked => f <= h
  <2>1. \A f \in Files : sent[f] # Untracked => f < h /\ \A g \in todo : f < g
    BY <1>3, <1>4, <1>6 DEF FilesInTurn
  <2>2. \A f \in Files : f < h => f <= h
    BY <1>4, ResumeTypes
  <2>3. QED
    BY <1>1, <1>7, <2>1, <2>2
<1>9. FilesInTurn'
  BY <1>1, <1>2, <1>3, <1>5, <1>6, <1>8 DEF FilesInTurn, EventsInTurn, InHand
<1>10. FromStart'
  BY <1>2, <1>3, <1>5, <1>6 DEF FromStart
<1>11. QED
  BY <1>9, <1>10 DEF TakingUp

LEMMA FollowTakesUp ==
  ASSUME IndexerConstants, Undisturbed, ResumeInv, TailerStep, Notified
  PROVE  TakingUp'
<1>1. PICK h : h = Head(notifyQ)
  OBVIOUS
<1>2. /\ phase = "wait" /\ phase' = "read" /\ notifyQ # << >> /\ notifyQ' = Tail(notifyQ) /\ hand' = h
      /\ tails' = [tails EXCEPT ![h] = TailOf(h)]
      /\ UNCHANGED <<watching, todo>>
  BY <1>1 DEF Notified, TakeEvent
<1>3. Alive /\ Alive' /\ UNCHANGED <<newest, start, sent>>
  BY <1>2, ThreadPasses DEF Emit
<1>4. watching
  BY <1>2 DEF ResumeInv, WInv, Beginning
<1>5. h \in ToSet(notifyQ) /\ h \in Files /\ ToSet(notifyQ') \subseteq ToSet(notifyQ)
  <2>1. notifyQ \in Seq(Files)
    BY ResumeTypes, ThreadHas
  <2>2. h \in ToSet(notifyQ) /\ ToSet(notifyQ') \subseteq ToSet(notifyQ)
    BY <1>1, <1>2, <2>1, QueueTail
  <2>3. QED
    BY <2>2, ResumeTypes
<1>6. EventsInTurn /\ FilesInTurn /\ FromStart
  BY DEF ResumeInv, TakingUp, FilesInTurn
<1>7. EventsInTurn' /\ \A q \in ToSet(notifyQ') : h < q
  BY <1>1, <1>2, <1>6, HeadEvent, ResumeTypes
<1>8. todo = {}
  BY <1>2, <1>3, ResumeTypes DEF Orderly, Sweeps
<1>9. \A f \in Files : Known(f)' => Known(f) \/ f = h
  <2>1. \A f \in Files : f # h => tails'[f] = tails[f]
    BY <1>2, <1>5, ResumeTypes
  <2>2. QED
    BY <1>2, <1>3, <2>1 DEF Known, InHand
<1>10. FilesInTurn'
  <2>1. \A q \in ToSet(notifyQ'), f \in Files : Known(f)' => f <= q
    <3>1. \A q \in ToSet(notifyQ'), f \in Files : Known(f) => f <= q
      BY <1>4, <1>5, <1>6 DEF FilesInTurn
    <3>2. \A q \in ToSet(notifyQ') : h <= q
      BY <1>5, <1>7, ResumeTypes
    <3>3. QED
      BY <1>9, <3>1, <3>2
  <2>2. \A f \in Files : Known(f)' => f <= newest
    <3>1. h <= newest
      BY <1>5 DEF ResumeInv, WInv, KnownIsOld
    <3>2. QED
      BY <1>3, <1>6, <1>9, <3>1 DEF FilesInTurn
  <2>3. \A f \in Files : sent[f] # Untracked => f <= h
    BY <1>4, <1>5, <1>6 DEF FilesInTurn, Known
  <2>4. QED
    BY <1>2, <1>3, <1>7, <1>8, <2>1, <2>2, <2>3 DEF FilesInTurn
<1>11. FromStart'
  <2>1. start # NoPos => h >= FileOf(start)
    BY <1>3, <1>5, <1>6 DEF FromStart
  <2>2. QED
    BY <1>3, <1>5, <1>6, <1>9, <2>1 DEF FromStart
<1>12. QED
  BY <1>10, <1>11 DEF TakingUp

(* The thread's other steps take up no file. *)
LEMMA OthersTakeUp ==
  ASSUME IndexerConstants, Undisturbed, ResumeInv, TailerStep,
         Watch \/ SweepSkip \/ SweepDone \/ NotifiedSkip \/ ReadEnd \/ ReadError
  PROVE  TakingUp'
<1>1. Alive /\ Alive' /\ UNCHANGED <<newest, start, sent>>
  <2>1. ~ Emit \/ ReadEnd \/ ReadError
    BY DEF Watch, SweepSkip, SweepDone, NotifiedSkip, Emit
  <2>2. QED
    BY <2>1, ThreadPasses DEF TailerStep, ReadEnd, ReadError, runner, node, Alive
<1>2. FilesInTurn /\ FromStart
  BY DEF ResumeInv, TakingUp
<1>3. todo' \subseteq todo /\ hand' = hand /\ phase' # "read"
  BY DEF Watch, SweepSkip, SweepDone, NotifiedSkip, ReadEnd, ReadError, Back
<1>4. \A f \in Files : tails'[f] # tails[f] => InHand(f)
  <2>1. tails' = tails \/ (phase = "read" /\ tails' = [tails EXCEPT ![hand] = at])
    BY DEF Watch, SweepSkip, SweepDone, NotifiedSkip, ReadEnd, ReadError
  <2>2. QED
    BY <2>1, ResumeTypes DEF InHand
<1>5. \A f \in Files : Known(f)' => Known(f)
  BY <1>1, <1>3, <1>4 DEF Known, InHand
<1>6. /\ ToSet(notifyQ') \subseteq ToSet(notifyQ) /\ EventsInTurn'
      /\ watching' => watching \/ notifyQ' = << >>
  <2>1. CASE NotifiedSkip
    <3>1. notifyQ # << >> /\ notifyQ' = Tail(notifyQ) /\ watching' = watching
      BY <2>1 DEF NotifiedSkip, TakeEvent
    <3>2. notifyQ \in Seq(Files)
      BY ResumeTypes, ThreadHas
    <3>3. QED
      BY <1>2, <3>1, <3>2, HeadEvent, QueueTail, ResumeTypes DEF FilesInTurn
  <2>2. CASE ~ NotifiedSkip
    <3>1. notifyQ' = notifyQ /\ (watching' = watching \/ Watch)
      BY <2>2 DEF Watch, SweepSkip, SweepDone, ReadEnd, ReadError, watcher
    <3>2. Watch => notifyQ = << >>
      BY DEF Watch, ResumeInv, WInv, Beginning
    <3>3. QED
      BY <1>2, <3>1, <3>2 DEF FilesInTurn, EventsInTurn
  <2>3. QED
    BY <2>1, <2>2
<1>7. FilesInTurn'
  BY <1>1, <1>2, <1>3, <1>5, <1>6, QueueEmpty DEF FilesInTurn, InHand
<1>8. FromStart'
  BY <1>1, <1>2, <1>5, <1>6 DEF FromStart
<1>9. QED
  BY <1>7, <1>8 DEF TakingUp

(* The line sent comes after all that were sent, and after the start. *)
LEMMA EmitResumes ==
  ASSUME IndexerConstants, Undisturbed, ResumeInv, TailerStep, Emit
  PROVE  Passing' /\ TakingUp'
<1>1. /\ phase = "read" /\ sent' = [sent EXCEPT ![hand] = at + 1]
      /\ UNCHANGED <<node, watcher, phase, start, todo, hand, tails>>
  BY DEF Emit
<1>2. Alive /\ UNCHANGED runner
  BY DEF TailerStep
<1>3. /\ UNCHANGED <<pc, cur, why, pending, checkpoint>>
      /\ UNCHANGED <<newest, watching, notifyQ>>
  BY <1>1, <1>2 DEF runner, node, watcher
<1>4. PICK n \in Nat : n = Len(lineCh)
  BY EmitAhead, ResumeTypes
<1>5. PICK m : m = Id(hand, at + 1)
  OBVIOUS
<1>6. /\ at \in Nat /\ hand \in Files /\ FileOf(m) = hand /\ LineOf(m) = at + 1
      /\ m \in 1 .. NumLines /\ m \in Int /\ m >= 1
      /\ Len(lineCh') = n + 1 /\ lineCh'[n + 1] = m
      /\ \A j \in 1 .. n : lineCh'[j] = lineCh[j]
  <2>1. /\ at \in Nat /\ hand \in Files /\ FileOf(m) = hand /\ LineOf(m) = at + 1
        /\ m \in 1 .. NumLines
        /\ Len(lineCh') = n + 1 /\ lineCh'[n + 1] = m
        /\ \A j \in 1 .. n : lineCh'[j] = lineCh[j]
    BY <1>4, <1>5, EmitAhead, Numbers, ResumeTypes
  <2>2. QED
    BY <2>1
<1>7. at = SentTo(hand) /\ InHand(hand) /\ Known(hand)
  BY <1>1, <1>2, <1>6, ResumeTypes DEF Orderly, ReadsOn, InHand, Known
<1>8. FilesInTurn /\ FromStart /\ AllSent /\ LinesInTurn
  BY DEF ResumeInv, TakingUp, Passing
<1>9. \A f \in Files : sent'[f] = IF f = hand THEN at + 1 ELSE sent[f]
  BY <1>1, ResumeTypes
<1>10. start # NoPos => /\ FileOf(start) <= hand
                        /\ FileOf(start) = hand => LineOf(start) <= at
  <2> SUFFICES ASSUME start # NoPos
               PROVE  FileOf(start) <= hand /\ (FileOf(start) = hand => LineOf(start) <= at)
    OBVIOUS
  <2>1. FileOf(start) <= hand
    <3>1. hand >= FileOf(start)
      BY <1>2, <1>6, <1>7, <1>8 DEF FromStart
    <3>2. hand \in Int /\ FileOf(start) \in Int
      BY StartFile, ResumeTypes
    <3>3. QED
      BY <3>1, <3>2
  <2>2. ASSUME FileOf(start) = hand PROVE LineOf(start) <= at
    <3>1. sent[hand] = Untracked => at = LineOf(start)
      BY <1>7, <2>2 DEF SentTo, SweepFrom
    <3>2. sent[hand] # Untracked => at = sent[hand] /\ sent[hand] >= LineOf(start)
      BY <1>2, <1>7, <1>8, <2>2 DEF SentTo, FromStart
    <3>3. LineOf(start) \in Int
      BY WrittenPlace, ResumeTypes DEF Positions
    <3>4. QED
      BY <1>6, <3>1, <3>2, <3>3
  <2>3. QED
    BY <2>1, <2>2
<1>11. start < m
  <2>1. CASE start = NoPos
    BY <1>6, <2>1 DEF NoPos
  <2>2. CASE start # NoPos
    <3>1. /\ start \in 1 .. NumLines /\ FileOf(start) \in Int /\ LineOf(start) \in Int
          /\ hand \in Int
      <4>1. start \in Written
        BY <2>2, ResumeTypes DEF Positions
      <4>2. QED
        BY <4>1, WrittenPlace, ResumeTypes
    <3>2. FileOf(start) < FileOf(m) \/ (FileOf(start) = FileOf(m) /\ LineOf(start) < LineOf(m))
      BY <1>6, <1>10, <2>2, <3>1
    <3>3. QED
      BY <1>6, <3>1, <3>2, LineOrder
  <2>3. QED
    BY <2>1, <2>2
<1>12. ASSUME NEW x \in Positions, Sent(x) PROVE x < m
  <2>1. CASE x <= start
    <3>1. x \in Int /\ start \in Int
      BY ResumeTypes
    <3>2. QED
      BY <1>6, <1>11, <2>1, <3>1
  <2>2. CASE ~ (x <= start)
    <3>1. x \in Written /\ sent[FileOf(x)] # Untracked /\ LineOf(x) <= sent[FileOf(x)]
      BY <1>12, <2>2, ResumeTypes DEF Sent, Positions, NoPos
    <3>2. /\ x \in 1 .. NumLines /\ FileOf(x) \in Files /\ FileOf(x) \in Int /\ LineOf(x) \in Int
          /\ hand \in Int
      BY <3>1, WrittenPlace, ResumeTypes
    <3>3. FileOf(x) <= hand
      BY <1>1, <1>2, <1>8, <3>1, <3>2 DEF FilesInTurn
    <3>4. FileOf(x) = hand => LineOf(x) < at + 1
      <4>1. FileOf(x) = hand => LineOf(x) <= at
        BY <1>7, <3>1 DEF SentTo
      <4>2. QED
        BY <1>6, <3>2, <4>1
    <3>5. FileOf(x) < FileOf(m) \/ (FileOf(x) = FileOf(m) /\ LineOf(x) < LineOf(m))
      BY <1>6, <3>2, <3>3, <3>4
    <3>6. QED
      BY <1>6, <3>2, <3>5, LineOrder
  <2>3. QED
    BY <2>1, <2>2
<1>13. ASSUME NEW x \in Positions, Sent(x) PROVE Sent(x)'
  <2>1. CASE x <= start
    BY <1>1, <2>1 DEF Sent
  <2>2. CASE ~ (x <= start)
    <3>1. x \in Written /\ sent[FileOf(x)] # Untracked /\ LineOf(x) <= sent[FileOf(x)]
      BY <1>13, <2>2, ResumeTypes DEF Sent, Positions, NoPos
    <3>2. FileOf(x) \in Files /\ LineOf(x) \in Int
      BY <3>1, WrittenPlace, ResumeTypes
    <3>3. CASE FileOf(x) = hand
      <4>1. LineOf(x) <= at /\ sent'[FileOf(x)] = at + 1
        BY <1>7, <1>9, <3>1, <3>2, <3>3 DEF SentTo
      <4>2. LineOf(x) <= sent'[FileOf(x)] /\ sent'[FileOf(x)] # Untracked
        BY <1>6, <3>2, <4>1, ResumeTypes
      <4>3. QED
        BY <4>2 DEF Sent
    <3>4. CASE FileOf(x) # hand
      BY <1>9, <3>1, <3>2, <3>4 DEF Sent
    <3>5. QED
      BY <3>3, <3>4
  <2>3. QED
    BY <2>1, <2>2
<1>14. /\ {pending, checkpoint} \subseteq Positions
       /\ Busy => cur \in Positions
       /\ \A i \in 1 .. n : lineCh[i] \in Positions
  <2>1. lineCh \in Seq(Written) /\ TInv /\ {pending, checkpoint} \subseteq Positions
    BY ResumeTypes, ThreadHas
  <2>2. \A i \in 1 .. n : lineCh[i] \in Written
    BY <1>4, <2>1
  <2>3. QED
    BY <2>1, <2>2 DEF TInv, Positions, Busy
<1>15. /\ Sent(checkpoint) /\ Sent(pending) /\ (Busy => Sent(cur))
       /\ \A i \in 1 .. n : Sent(lineCh[i])
  BY <1>2, <1>4, <1>8 DEF AllSent
<1>16. \A i \in 1 .. n + 1 : i \in 1 .. n \/ i = n + 1
  OBVIOUS
<1>17. AllSent'
  <2>1. Sent(m)'
    <3>1. sent'[FileOf(m)] = at + 1
      BY <1>6, <1>9
    <3>2. LineOf(m) <= at + 1 /\ at + 1 # Untracked
      BY <1>6, ResumeTypes
    <3>3. QED
      BY <3>1, <3>2 DEF Sent
  <2>2. /\ Sent(checkpoint)' /\ Sent(pending)' /\ (Busy => Sent(cur)')
        /\ \A i \in 1 .. n : Sent(lineCh[i])'
    <3>1. \A x \in Positions : Sent(x) => x <= start \/ (sent'[FileOf(x)] # Untracked /\ LineOf(x) <= sent'[FileOf(x)])
      BY <1>1, <1>13 DEF Sent
    <3>2. QED
      BY <1>1, <1>3, <1>6, <1>14, <1>15, <3>1 DEF Sent
  <2>3. QED
    BY <1>3, <1>6, <1>16, <2>1, <2>2 DEF AllSent, Busy, Sent
<1>18. LinesInTurn'
  <2>1. /\ checkpoint < m /\ pending < m /\ (Busy => cur < m)
        /\ \A i \in 1 .. n : lineCh[i] < m
    BY <1>12, <1>14, <1>15
  <2>2. /\ m > checkpoint /\ m > pending /\ (Busy => m > cur)
    <3>1. checkpoint \in Int /\ pending \in Int /\ (Busy => cur \in Int)
      BY <1>14, ResumeTypes
    <3>2. QED
      BY <1>6, <2>1, <3>1
  <2>3. \A i, j \in 1 .. n + 1 : i < j => i \in 1 .. n
    OBVIOUS
  <2>4. \A i, j \in 1 .. n + 1 : i < j => lineCh'[i] < lineCh'[j]
    BY <1>2, <1>4, <1>6, <1>8, <1>16, <2>1, <2>3 DEF LinesInTurn
  <2>5. QED
    BY <1>2, <1>3, <1>4, <1>6, <1>8, <1>16, <2>2, <2>4 DEF LinesInTurn, Busy, Alive
<1>19. \A f \in Files : Known(f)' => Known(f)
  BY <1>1, <1>7, <1>9 DEF Known, InHand
<1>20. FilesInTurn'
  <2>1. \A f \in Files : sent'[f] # Untracked => sent[f] # Untracked \/ f = hand
    BY <1>9
  <2>2. hand <= hand
    BY <1>6, ResumeTypes
  <2>3. \A g \in todo, f \in Files : sent'[f] # Untracked \/ InHand(f) => f < g
    BY <1>2, <1>7, <1>8, <2>1 DEF FilesInTurn
  <2>4. \A f \in Files : sent'[f] # Untracked => f <= hand
    BY <1>1, <1>2, <1>8, <2>1, <2>2 DEF FilesInTurn
  <2>5. QED
    BY <1>1, <1>2, <1>3, <1>8, <1>19, <2>3, <2>4 DEF FilesInTurn, EventsInTurn, InHand
<1>21. FromStart'
  <2>1. start # NoPos /\ sent'[FileOf(start)] # Untracked => sent'[FileOf(start)] >= LineOf(start)
    <3> SUFFICES ASSUME start # NoPos, sent'[FileOf(start)] # Untracked
                 PROVE  sent'[FileOf(start)] >= LineOf(start)
      OBVIOUS
    <3>1. FileOf(start) \in Files /\ LineOf(start) \in Int
      BY StartFile, WrittenPlace, ResumeTypes DEF Positions
    <3>2. CASE FileOf(start) = hand
      <4>1. sent'[FileOf(start)] = at + 1 /\ LineOf(start) <= at
        BY <1>9, <1>10, <3>1, <3>2
      <4>2. QED
        BY <1>6, <3>1, <4>1
    <3>3. CASE FileOf(start) # hand
      BY <1>2, <1>8, <1>9, <3>1, <3>3 DEF FromStart
    <3>4. QED
      BY <3>2, <3>3
  <2>2. QED
    BY <1>1, <1>2, <1>3, <1>8, <1>19, <2>1 DEF FromStart
<1>22. QED
  BY <1>17, <1>18, <1>20, <1>21 DEF Passing, TakingUp

-----------------------------------------------------------------------------
LEMMA NextResumes ==
  ASSUME IndexerConstants, Undisturbed, ResumeInv, [IndexerNext]_allVars
  PROVE  ResumeInv'
<1>1. CInv' /\ WInv' /\ OInv'
  BY NextCovers, NextWakes, NextOrders DEF ResumeInv
<1>2. CASE UNCHANGED allVars
  <2>1. UNCHANGED <<node, watcher, thread, lineCh, runner>>
    BY <1>2 DEF allVars, vars
  <2>2. /\ UNCHANGED <<newest, watching, notifyQ, lineCh>>
        /\ UNCHANGED <<phase, start, todo, hand, tails, sent>>
        /\ UNCHANGED <<pc, cur, why, pending, checkpoint>>
    BY <2>1 DEF node, watcher, thread, runner
  <2>3. Passing'
    BY <2>2 DEF ResumeInv, Passing, AllSent, LinesInTurn, Sent, Busy, Alive
  <2>4. TakingUp'
    BY <2>2 DEF ResumeInv, TakingUp, FilesInTurn, EventsInTurn, FromStart, Known, InHand, Alive
  <2>5. QED
    BY <1>1, <2>3, <2>4 DEF ResumeInv
<1>3. CASE TailerStep /\ ~ Emit
  <2>1. Passing' /\ ThreadStep
    BY <1>3, ThreadPasses
  <2>2. TakingUp'
    BY <1>3, <2>1, CollectTakesUp, SweepTakesUp, FollowTakesUp, OthersTakeUp DEF ThreadStep
  <2>3. QED
    BY <1>1, <2>1, <2>2 DEF ResumeInv
<1>4. CASE TailerStep /\ Emit
  BY <1>1, <1>4, EmitResumes DEF ResumeInv
<1>5. QED
  BY <1>1, <1>2, <1>3, <1>4, AppendResumes, NodeResumes, RunnerResumes, StopResumes, StartResumes
     DEF IndexerNext, ResumeInv

(* What one step writes. *)
WritesPast == \A l \in active'[1] \ active[1] : l > checkpoint

LEMMA StepWrites ==
  ASSUME IndexerConstants, Undisturbed, ResumeInv, [IndexerNext]_allVars
  PROVE  WritesPast
<1> SUFFICES ASSUME NEW l \in active'[1], l \notin active[1] PROVE l > checkpoint
  BY DEF WritesPast
<1>1. active' # active
  OBVIOUS
<1>2. ~ Stop
  <2>1. Stop => active'[1] = {}
    BY StopIs, ResumeTypes
  <2>2. QED
    BY <2>1
<1>3. RunnerStep
  BY <1>1, <1>2, StartIs, ResumeTypes
     DEF IndexerNext, Append1, Rotate, Prune, WatchNewDir, TailerStep, runner, allVars
<1>4. RunnerDoes /\ active \in [1 .. 1 -> SUBSET Written]
  BY <1>3, RunnerIs, ResumeTypes DEF TInv
<1>5. ~ CommitRows
  BY <1>4 DEF CommitRows
<1>6. WriteLine
  BY <1>1, <1>4, <1>5 DEF RunnerDoes, TakeLine, TickComes, SaveCheckpoint
<1>7. l = cur /\ pc = "write"
  BY <1>4, <1>6 DEF WriteLine
<1>8. QED
  BY <1>7 DEF ResumeInv, Passing, LinesInTurn, Alive

(* README "On restart the indexer resumes from the last checkpoint": the   *)
(* rows written in any process are of lines after the checkpoint           *)
(* (ResumesFromCheckpoint), also where events are lost and files deleted,  *)
(* as long as reads succeed and the collector's order is the node's.       *)
THEOREM ResumesSafe ==
  ASSUME TailerAssumption, IndexerAssumption, Undisturbed
  PROVE  IndexerSpec => ResumesFromCheckpoint
<1>1. IndexerInit => ResumeInv
  BY InitResumes DEF IndexerConstants
<1>2. ResumeInv /\ [IndexerNext]_allVars => ResumeInv'
  BY NextResumes DEF IndexerConstants
<1>3. ResumeInv /\ [IndexerNext]_allVars => [WritesPast]_allVars
  BY StepWrites DEF IndexerConstants
<1>4. IndexerSpec => [][WritesPast]_allVars
  BY <1>1, <1>2, <1>3, PTL DEF IndexerSpec
<1>5. QED
  BY <1>4 DEF ResumesFromCheckpoint, WritesPast
=============================================================================
