------------------------- MODULE StreamRunner_proofs -------------------------
(***************************************************************************)
(* Proofs about StreamRunner, for every number of lines, tables, crashes   *)
(* and every capacity.                                                     *)
(***************************************************************************)
EXTENDS StreamRunner, TLAPS, SequenceTheorems

(* The constants without the rows of the lines. *)
LEMMA ConstantNumbers ==
  /\ NumLines \in Nat /\ NumTables \in Nat \ {0} /\ Bad \subseteq Lines
  /\ LineCap \in Nat \ {0} /\ MaxRows \in Nat \ {0} /\ MaxDeaths \in Nat /\ MaxCrashes \in Nat
  BY ConstantsAssumption DEF ConstantsAssumption

(* The tables a line has rows in are tables of the stream. *)
LEMMA RowsOfType == RowsOf \in [Lines -> SUBSET Tables]
  BY DEF RowsOf

(* What Take and DropBad do to the channel: the head is a line, and the    *)
(* rest keeps its order.                                                   *)
LEMMA ChannelHead ==
  ASSUME NEW q \in Seq(Lines), q # << >>
  PROVE  /\ Head(q) \in Lines /\ Head(q) = q[1]
         /\ Tail(q) \in Seq(Lines) /\ Len(Tail(q)) = Len(q) - 1 /\ Len(q) \in Nat \ {0}
         /\ \A i \in 1 .. Len(Tail(q)) : Tail(q)[i] = q[i + 1]
  BY HeadTailProperties

(* What SourceSend does to the channel. *)
LEMMA ChannelAppend ==
  ASSUME NEW q \in Seq(Lines), NEW l \in Lines
  PROVE  /\ Append(q, l) \in Seq(Lines) /\ Len(Append(q, l)) = Len(q) + 1
         /\ Len(q) \in Nat
         /\ \A i \in 1 .. Len(q) : Append(q, l)[i] = q[i]
         /\ Append(q, l)[Len(q) + 1] = l
  BY AppendProperties, LenProperties

(* A crash adds to each table some of the rows of its open INSERT.         *)
LEMMA CrashStorage ==
  ASSUME TypeOK, CrashRunner
  PROVE  /\ active' = Empty /\ rows' = NoRows
         /\ durable' \in [Tables -> SUBSET Lines]
         /\ \A t \in Tables : durable[t] \subseteq durable'[t]
         /\ \A t \in Tables : durable'[t] \subseteq durable[t] \union active[t]
<1>1. PICK landed \in SUBSET (UNION {{t} \X active[t] : t \in Tables}) :
        durable' = [t \in Tables |->
                      durable[t] \union {l \in active[t] : <<t, l>> \in landed}]
  BY DEF CrashRunner
<1>2. QED
  BY <1>1 DEF CrashRunner, TypeOK

(* One step of write() adds the current line to one table, and leaves the  *)
(* other tables alone.                                                     *)
LEMMA WriteStorage ==
  ASSUME ConstantsAssumption, TypeOK, WriteTable
  PROVE  /\ active' \in [Tables -> SUBSET Lines] /\ durable' = durable /\ cur \in Lines
         /\ rows' \in [Tables -> Nat]
         /\ \A t \in Tables : rows'[t] = IF t = tbl THEN rows[t] + RowsIn[cur][t] ELSE rows[t]
         /\ \A t \in Tables : active[t] \subseteq active'[t]
         /\ \A t \in Tables : active'[t] \subseteq active[t] \union {cur}
         /\ tbl \in RowsOf[cur] => cur \in active'[tbl]
<1> USE DEF Lines, Tables, Good
<1>1. cur \in Lines /\ durable' = durable
  BY DEF WriteTable, TypeOK
<1>2. \A t \in Tables :
        active'[t] = IF t = tbl /\ t \in RowsOf[cur] THEN active[t] \union {cur} ELSE active[t]
  BY DEF WriteTable, TypeOK
<1>3. active' \in [Tables -> SUBSET Lines]
  <2>1. CASE tbl \in RowsOf[cur]
    <3>1. active' = [active EXCEPT ![tbl] = @ \union {cur}]
      BY <2>1 DEF WriteTable
    <3>2. active[tbl] \union {cur} \subseteq Lines
      BY <1>1 DEF TypeOK
    <3>3. QED
      BY <3>1, <3>2 DEF TypeOK
  <2>2. CASE tbl \notin RowsOf[cur]
    <3>1. active' = [active EXCEPT ![tbl] = @]
      BY <2>2 DEF WriteTable
    <3>2. QED
      BY <3>1 DEF TypeOK
  <2>3. QED
    BY <2>1, <2>2
<1>4. /\ rows' \in [Tables -> Nat]
      /\ \A t \in Tables : rows'[t] = IF t = tbl THEN rows[t] + RowsIn[cur][t] ELSE rows[t]
  <2>1. RowsIn[cur] \in [Tables -> Nat] /\ rows \in [Tables -> Nat] /\ tbl \in Tables
    BY <1>1 DEF TypeOK, ConstantsAssumption
  <2>2. rows[tbl] + RowsIn[cur][tbl] \in Nat
    <3>1. rows[tbl] \in Nat /\ RowsIn[cur][tbl] \in Nat
      BY <2>1
    <3>2. \A a, b \in Nat : a + b \in Nat
      OBVIOUS
    <3>3. QED
      BY <3>1, <3>2
  <2>3. rows' = [rows EXCEPT ![tbl] = @ + RowsIn[cur][tbl]]
    BY DEF WriteTable
  <2>4. QED
    BY <2>1, <2>2, <2>3
<1>5. QED
  BY <1>1, <1>2, <1>3, <1>4 DEF TypeOK

(* One step of commit() moves what one table has open to ClickHouse, or    *)
(* does nothing; a forced one always moves it.                             *)
LEMMA CommitStorage ==
  ASSUME TypeOK, CommitTable
  PROVE  /\ active' \in [Tables -> SUBSET Lines] /\ durable' \in [Tables -> SUBSET Lines]
         /\ \A t \in Tables : active'[t] \subseteq active[t]
         /\ \A t \in Tables : durable[t] \subseteq durable'[t]
         /\ \A t \in Tables : active[t] \union durable[t] = active'[t] \union durable'[t]
         /\ why # "event" => active'[tbl] = {}
         /\ rows' \in [Tables -> Nat]
         /\ \/ \A t \in Tables : rows'[t] = IF t = tbl THEN 0 ELSE rows[t]
            \/ why = "event" /\ rows[tbl] < MaxRows /\ rows' = rows
<1>1. CASE UNCHANGED storage /\ MayDefer
  BY <1>1 DEF storage, TypeOK, MayDefer
<1>2. CASE EndInsert(tbl)
  <2> USE DEF EndInsert
  <2>1. durable[tbl] \union active[tbl] \subseteq Lines
    BY DEF TypeOK
  <2>2. active' \in [Tables -> SUBSET Lines] /\ durable' \in [Tables -> SUBSET Lines]
    BY <1>2, <2>1 DEF TypeOK
  <2>3. \A t \in Tables : /\ active'[t] = IF t = tbl THEN {} ELSE active[t]
                          /\ durable'[t] = IF t = tbl THEN durable[t] \union active[t]
                                                      ELSE durable[t]
    BY <1>2 DEF TypeOK
  <2>4. /\ rows' \in [Tables -> Nat]
        /\ \A t \in Tables : rows'[t] = IF t = tbl THEN 0 ELSE rows[t]
    BY <1>2 DEF TypeOK
  <2>5. QED
    BY <2>2, <2>3, <2>4 DEF TypeOK
<1>3. QED
  BY <1>1, <1>2 DEF CommitTable

(* The initial state is well typed. *)
LEMMA TypeCorrectInit == Init => TypeOK
<1> USE ConstantNumbers, RowsOfType DEF Lines, Tables, Good, NoPos
<1> SUFFICES ASSUME Init PROVE TypeOK
  OBVIOUS
<1>1. lineCh \in Seq(Lines)
  BY EmptySeq DEF Init
<1>2. active \in [Tables -> SUBSET Lines] /\ durable \in [Tables -> SUBSET Lines]
  BY DEF Init, Empty
<1>2a. rows \in [Tables -> Nat] /\ written \in 0 .. NumLines /\ heard \in BOOLEAN
  BY DEF Init, NoRows
<1>3. tbl \in Tables
  BY DEF Init
<1>4. /\ sent \in 0 .. NumLines /\ cur \in 0 .. NumLines
      /\ pending \in 0 .. NumLines /\ checkpoint \in 0 .. NumLines
      /\ deaths \in 0 .. MaxDeaths /\ crashes \in 0 .. MaxCrashes
  BY DEF Init
<1>5. closed \in BOOLEAN /\ follow \in BOOLEAN /\ why = "event" /\ pc = "select"
  BY DEF Init
<1>6. QED
  BY <1>1, <1>2, <1>2a, <1>3, <1>4, <1>5 DEF TypeOK

(* Every step keeps the types. *)
LEMMA TypeCorrectStep == TypeOK /\ [Next]_vars => TypeOK'
<1> USE ConstantNumbers, RowsOfType DEF Lines, Tables, Good, NoPos
<1> SUFFICES ASSUME TypeOK, [Next]_vars
             PROVE  TypeOK'
  OBVIOUS
<1>0. CASE NodeAppend
  BY <1>0 DEF NodeAppend, Running, TypeOK, control, storage, process
<1>1. CASE SourceSend
  <2>1. lineCh' \in Seq(Lines) /\ sent' \in 0 .. NumLines
    BY <1>1, ChannelAppend DEF SourceSend, TypeOK
  <2>2. QED
    BY <1>1, <2>1 DEF SourceSend, TypeOK, control, storage, process
<1>2. CASE SourceClose
  BY <1>2 DEF SourceClose, TypeOK, control, storage
<1>3. CASE DropBad
  BY <1>3, ChannelHead DEF DropBad, TypeOK, source, control, storage, process
<1>4. CASE Take
  <2>1. Head(lineCh) \in Lines /\ Tail(lineCh) \in Seq(Lines)
    BY <1>4, ChannelHead DEF Take, TypeOK
  <2>2. QED
    BY <1>4, <2>1 DEF Take, TypeOK, source, storage, process
<1>5. CASE WriteTable
  <2>1. active' \in [Tables -> SUBSET Lines] /\ rows' \in [Tables -> Nat]
    BY <1>5, WriteStorage, ConstantsAssumption
  <2>2. tbl' \in Tables /\ why' \in {"event", "tick", "end"} /\ pc' \in {"write", "commit"}
    BY <1>5 DEF WriteTable, StartCommit, TypeOK
  <2>3. QED
    BY <1>5, <2>1, <2>2 DEF WriteTable, TypeOK, source, process
<1>6. CASE Tick
  BY <1>6 DEF Tick, StartCommit, TypeOK, source, storage, process
<1>7. CASE EndOfStream
  BY <1>7 DEF EndOfStream, StartCommit, TypeOK, source, storage, process
<1>8. CASE CommitTable
  <2>1. /\ durable' \in [Tables -> SUBSET Lines] /\ active' \in [Tables -> SUBSET Lines]
        /\ rows' \in [Tables -> Nat]
    BY <1>8, CommitStorage
  <2>2. /\ pc' \in {"select", "commit", "save", "done"}
        /\ tbl' \in Tables /\ pending' \in 0 .. NumLines
    BY <1>8 DEF CommitTable, AfterCommit, Onward, TypeOK
  <2>3. QED
    BY <1>8, <2>1, <2>2 DEF CommitTable, TypeOK, source, process
<1>9. CASE Save
  BY <1>9 DEF Save, Onward, TypeOK, source, storage, process
<1>10. CASE Crash
  BY <1>10, CrashStorage DEF Crash, CrashRunner, TypeOK, source, Empty, NoRows
<1>11. CASE Restart
  BY <1>11 DEF Restart, RestartRunner, TypeOK, storage, process
<1>12. CASE UNCHANGED vars
  BY <1>12 DEF vars, source, control, storage, process, TypeOK
<1>13. QED
  BY <1>0, <1>1, <1>2, <1>3, <1>4, <1>5, <1>6, <1>7, <1>8, <1>9, <1>10, <1>11, <1>12
     DEF Next, RunnerStep

(* Every variable keeps its type, whatever the constants: proved for the   *)
(* whole loop, the stops and the restarts.                                 *)
THEOREM TypeCorrect == Spec => []TypeOK
<1>1. Init => TypeOK
  BY TypeCorrectInit
<1>2. TypeOK /\ [Next]_vars => TypeOK'
  BY TypeCorrectStep
<1>3. QED
  BY <1>1, <1>2, PTL DEF Spec

-----------------------------------------------------------------------------
(* The initial state satisfies the invariant: nothing taken, nothing saved. *)
LEMMA InitIInv == Init => IInv
<1> USE ConstantNumbers, RowsOfType DEF Lines, Tables, Good, NoPos
<1> SUFFICES ASSUME Init PROVE IInv
  OBVIOUS
<1>1. TypeOK
  BY TypeCorrectInit
<1>2. Len(lineCh) = 0 /\ Taken = 0
  <2>1. sent = 0 /\ Len(lineCh) = 0
    BY DEF Init
  <2>2. Taken = sent - Len(lineCh)
    BY DEF Taken
  <2>3. Taken = 0
    BY <2>1, <2>2
  <2>4. QED
    BY <2>1, <2>3
<1>3. ChannelInOrder
  BY <1>2 DEF Init, ChannelInOrder
<1>4. TakenIsHandled /\ CheckpointCovered
  BY <1>2 DEF Init, TakenIsHandled, CheckpointCovered
<1>5. CurrentIsTaken /\ ForcedCommitEmpties
  BY DEF Init, CurrentIsTaken, ForcedCommitEmpties
<1>6. PositionsOrdered /\ EndIsFinal
  BY <1>2 DEF Init, PositionsOrdered, EndIsFinal
<1>7. QED
  BY <1>1, <1>3, <1>4, <1>5, <1>6 DEF IInv

(* NodeAppend touches nothing that has been read. *)
LEMMA AppendIInv ==
  ASSUME IInv, NodeAppend, TypeOK'
  PROVE  IInv'
<1> USE DEF IInv
<1>1. /\ UNCHANGED <<follow, sent, closed, lineCh, pc, cur, tbl, why, pending>>
      /\ UNCHANGED <<active, durable, checkpoint>>
      /\ follow
  BY DEF NodeAppend, control, storage, process
<1>2. Taken' = Taken
  BY <1>1 DEF Taken
<1>3. ChannelInOrder' /\ TakenIsHandled' /\ CheckpointCovered'
  BY <1>1, <1>2 DEF ChannelInOrder, TakenIsHandled, StillToWrite, CheckpointCovered, StoredLines
<1>4. CurrentIsTaken' /\ ForcedCommitEmpties' /\ PositionsOrdered' /\ EndIsFinal'
  BY <1>1, <1>2 DEF CurrentIsTaken, ForcedCommitEmpties, PositionsOrdered, EndIsFinal
<1>5. QED
  BY <1>3, <1>4

(* SourceSend lengthens the channel and leaves the last line taken alone. *)
LEMMA SendIInv ==
  ASSUME IInv, SourceSend, TypeOK'
  PROVE  IInv'
<1> USE ConstantNumbers, RowsOfType DEF IInv, Lines, Tables, Good, NoPos
<1>1. /\ Len(lineCh') = Len(lineCh) + 1 /\ Len(lineCh) \in Nat
      /\ \A i \in 1 .. Len(lineCh) : lineCh'[i] = lineCh[i]
      /\ lineCh'[Len(lineCh) + 1] = sent + 1
  <2>1. lineCh \in Seq(Lines) /\ lineCh' = Append(lineCh, sent + 1)
    BY DEF SourceSend, TypeOK
  <2>2. sent + 1 \in Lines
    BY DEF SourceSend, TypeOK
  <2> HIDE DEF Lines
  <2>3. QED
    BY ONLY <2>1, <2>2, ChannelAppend
<1>2. Taken' = Taken
  BY <1>1 DEF Taken, SourceSend, TypeOK
<1>3. /\ UNCHANGED <<pc, cur, tbl, why, pending, active, durable, checkpoint, closed,
                   follow, written>>
      /\ sent' = sent + 1 /\ ~closed /\ pc # "down" /\ pc # "done"
  BY DEF SourceSend, Running, control, storage, process
<1>4. ChannelInOrder'
  <2> DEFINE n == Len(lineCh)
  <2>1. n + 1 <= sent' /\ n \in Nat
    BY <1>1, <1>3 DEF ChannelInOrder, TypeOK
  <2>2. \A i \in 1 .. n : lineCh'[i] = Taken' + i
    BY <1>1, <1>2 DEF ChannelInOrder
  <2>3. lineCh'[n + 1] = Taken' + (n + 1)
    BY <1>1, <1>2 DEF Taken, TypeOK
  <2>4. \A i \in 1 .. n + 1 : i \in 1 .. n \/ i = n + 1
    BY <2>1
  <2>5. QED
    BY <1>1, <1>3, <2>1, <2>2, <2>3, <2>4 DEF ChannelInOrder
<1>5. TakenIsHandled'
  BY <1>2, <1>3 DEF TakenIsHandled, StillToWrite
<1>6. CheckpointCovered'
  BY <1>3 DEF CheckpointCovered, StoredLines
<1>7. CurrentIsTaken' /\ ForcedCommitEmpties' /\ PositionsOrdered'
  BY <1>2, <1>3 DEF CurrentIsTaken, ForcedCommitEmpties, PositionsOrdered
<1>8. EndIsFinal'
  BY <1>3 DEF EndIsFinal
<1>9. QED
  BY <1>4, <1>5, <1>6, <1>7, <1>8

(* SourceClose: a one-shot source closes only behind its last line. *)
LEMMA CloseIInv ==
  ASSUME IInv, SourceClose, TypeOK'
  PROVE  IInv'
<1> USE DEF IInv
<1>1. /\ UNCHANGED <<follow, written, sent, lineCh, pc, cur, tbl, why, pending, active, durable, checkpoint>>
      /\ closed' = TRUE
  BY DEF SourceClose, control, storage, process
<1>2. Taken' = Taken
  BY <1>1 DEF Taken
<1>3. ChannelInOrder' /\ TakenIsHandled' /\ CheckpointCovered'
  BY <1>1, <1>2 DEF ChannelInOrder, TakenIsHandled, StillToWrite, CheckpointCovered, StoredLines
<1>4. CurrentIsTaken' /\ ForcedCommitEmpties' /\ PositionsOrdered'
  BY <1>1, <1>2 DEF CurrentIsTaken, ForcedCommitEmpties, PositionsOrdered
<1>5. EndIsFinal'
  BY <1>1 DEF EndIsFinal, SourceClose, Running
<1>6. QED
  BY <1>3, <1>4, <1>5

(* DropBad takes a line that has nothing to store. *)
LEMMA DropIInv ==
  ASSUME IInv, DropBad, TypeOK'
  PROVE  IInv'
<1> USE ConstantNumbers, RowsOfType DEF IInv, Lines, Tables, Good, NoPos
<1>1. /\ lineCh # << >> /\ Head(lineCh) \in Bad /\ lineCh' = Tail(lineCh) /\ pc = "select"
      /\ UNCHANGED <<follow, written, sent, closed, pc, cur, tbl, why, pending, active, durable, checkpoint>>
  BY DEF DropBad, source, control, storage, process
<1>2. /\ Len(lineCh') = Len(lineCh) - 1 /\ Len(lineCh) \in Nat \ {0}
      /\ \A i \in 1 .. Len(lineCh') : lineCh'[i] = lineCh[i + 1]
      /\ Head(lineCh) = lineCh[1]
  BY <1>1, ChannelHead DEF TypeOK
<1>3. Taken' = Taken + 1 /\ Head(lineCh) = Taken + 1 /\ Taken \in Int
  BY <1>1, <1>2 DEF Taken, ChannelInOrder, TypeOK
<1>4. ChannelInOrder'
  BY <1>1, <1>2, <1>3 DEF ChannelInOrder, TypeOK
<1>5. TakenIsHandled'
  <2>1. \A l \in Good : l <= Taken' => l <= Taken
    BY <1>1, <1>3
  <2>2. QED
    BY <1>1, <2>1 DEF TakenIsHandled, StillToWrite
<1>6. CheckpointCovered'
  BY <1>1 DEF CheckpointCovered, StoredLines
<1>7. CurrentIsTaken' /\ ForcedCommitEmpties' /\ EndIsFinal'
  BY <1>1 DEF CurrentIsTaken, ForcedCommitEmpties, EndIsFinal
<1>8. PositionsOrdered'
  BY <1>1, <1>3 DEF PositionsOrdered, TypeOK
<1>9. QED
  BY <1>4, <1>5, <1>6, <1>7, <1>8

(* Take: the line taken is past the checkpoint and all its rows are still   *)
(* to be written.                                                          *)
LEMMA TakeIInv ==
  ASSUME IInv, Take, TypeOK'
  PROVE  IInv'
<1> USE ConstantNumbers, RowsOfType DEF IInv, Lines, Tables, Good, NoPos
<1>1. /\ lineCh # << >> /\ lineCh' = Tail(lineCh) /\ pc = "select" /\ pc' = "write"
      /\ cur' = Head(lineCh) /\ tbl' = 1
      /\ UNCHANGED <<follow, written, sent, closed, why, pending, active, durable, checkpoint>>
  BY DEF Take, source, storage, process
<1>2. /\ Len(lineCh') = Len(lineCh) - 1 /\ Len(lineCh) \in Nat \ {0}
      /\ \A i \in 1 .. Len(lineCh') : lineCh'[i] = lineCh[i + 1]
      /\ Head(lineCh) = lineCh[1]
  BY <1>1, ChannelHead DEF TypeOK
<1>3. Taken' = Taken + 1 /\ cur' = Taken' /\ Taken \in Int
  BY <1>1, <1>2 DEF Taken, ChannelInOrder, TypeOK
<1>4. ChannelInOrder'
  <2>1. sent \in Nat /\ sent' = sent /\ pc' # "down"
    BY <1>1 DEF TypeOK
  <2>2. Len(lineCh) <= sent /\ \A i \in 1 .. Len(lineCh) : lineCh[i] = Taken + i
    BY DEF ChannelInOrder
  <2>3. \A i \in 1 .. Len(lineCh') : lineCh'[i] = Taken' + i
    BY ONLY <1>2, <1>3, <2>2
  <2>4. Len(lineCh') <= sent'
    BY ONLY <1>2, <2>1, <2>2
  <2>5. QED
    BY ONLY <2>1, <2>3, <2>4 DEF ChannelInOrder
<1>5. TakenIsHandled'
  <2> SUFFICES ASSUME NEW l \in Good, l <= Taken', NEW t \in RowsOf[l]
               PROVE  StillToWrite(l, t)' \/ l \in active'[t] \union durable'[t]
    BY DEF TakenIsHandled
  <2>1. CASE l = Taken'
    BY <1>1, <1>3, <2>1 DEF StillToWrite
  <2>2. CASE l <= Taken
    BY <1>1, <2>2 DEF TakenIsHandled, StillToWrite
  <2>3. QED
    BY <1>3, <2>1, <2>2
<1>6. CheckpointCovered'
  BY <1>1 DEF CheckpointCovered, StoredLines
<1>7. CurrentIsTaken'
  BY <1>1, <1>3 DEF CurrentIsTaken, PositionsOrdered, TypeOK
<1>8. ForcedCommitEmpties' /\ EndIsFinal'
  BY <1>1 DEF ForcedCommitEmpties, EndIsFinal
<1>9. PositionsOrdered'
  BY <1>1, <1>3 DEF PositionsOrdered, TypeOK
<1>10. QED
  BY <1>4, <1>5, <1>6, <1>7, <1>8, <1>9

(* WriteTable: the row group it writes is the one StillToWrite lets go.     *)
LEMMA WriteIInv ==
  ASSUME IInv, WriteTable, TypeOK'
  PROVE  IInv'
<1> USE ConstantNumbers, RowsOfType DEF IInv, Lines, Tables, Good, NoPos
<1>1. /\ pc = "write" /\ UNCHANGED <<follow, written, sent, closed, lineCh, cur, pending, durable,
                                checkpoint>>
      /\ \/ tbl < NumTables /\ tbl' = tbl + 1 /\ UNCHANGED <<pc, why>>
         \/ tbl = NumTables /\ pc' = "commit" /\ tbl' = 1 /\ why' = "event"
  BY DEF WriteTable, StartCommit, source, process
<1>2. Taken' = Taken /\ cur = Taken /\ cur > checkpoint
  BY <1>1 DEF Taken, CurrentIsTaken
<1>3. ChannelInOrder'
  BY <1>1, <1>2 DEF ChannelInOrder
<1>4. TakenIsHandled'
  <2> SUFFICES ASSUME NEW l \in Good, l <= Taken', NEW t \in RowsOf[l],
                      ~ StillToWrite(l, t)'
               PROVE  l \in active'[t] \union durable'[t]
    BY DEF TakenIsHandled
  <2>1. t \in Tables /\ tbl \in Tables
    BY DEF TypeOK
  <2>2. CASE l = cur /\ t = tbl
    BY <2>2, WriteStorage, ConstantsAssumption
  <2>3. CASE ~ StillToWrite(l, t)
    <3>1. l \in active[t] \union durable[t]
      BY <1>1, <1>2, <2>3 DEF TakenIsHandled
    <3>2. QED
      BY <3>1, <2>1, WriteStorage, ConstantsAssumption
  <2>4. StillToWrite(l, t) => l = cur /\ t >= tbl
    BY DEF StillToWrite
  <2>5. CASE l = cur /\ t > tbl
    BY <1>1, <2>1, <2>5 DEF StillToWrite
  <2>6. QED
    BY <2>1, <2>2, <2>3, <2>4, <2>5
<1>5. CheckpointCovered'
  BY <1>1 DEF CheckpointCovered, StoredLines
<1>6. CurrentIsTaken' /\ ForcedCommitEmpties' /\ PositionsOrdered' /\ EndIsFinal'
  BY <1>1, <1>2 DEF CurrentIsTaken, ForcedCommitEmpties, PositionsOrdered, EndIsFinal
<1>7. QED
  BY <1>3, <1>4, <1>5, <1>6

(* Tick and EndOfStream start a forced commit; they touch no row. *)
LEMMA StartCommitIInv ==
  ASSUME IInv, Tick \/ EndOfStream, TypeOK'
  PROVE  IInv'
<1> USE ConstantNumbers, RowsOfType DEF IInv, Lines, Tables, Good, NoPos
<1>1. /\ pc = "select" /\ pc' = "commit" /\ tbl' = 1
      /\ UNCHANGED <<follow, written, sent, closed, lineCh, cur, pending, active, durable, checkpoint>>
  BY DEF Tick, EndOfStream, StartCommit, source, storage, process
<1>2. why' = "tick" \/ (why' = "end" /\ lineCh = << >> /\ closed)
  BY DEF Tick, EndOfStream, StartCommit
<1>3. Taken' = Taken
  BY <1>1 DEF Taken
<1>4. ChannelInOrder' /\ TakenIsHandled' /\ CheckpointCovered'
  BY <1>1, <1>3 DEF ChannelInOrder, TakenIsHandled, StillToWrite, CheckpointCovered, StoredLines
<1>5. CurrentIsTaken' /\ ForcedCommitEmpties' /\ PositionsOrdered' /\ EndIsFinal'
  BY <1>1, <1>2, <1>3 DEF CurrentIsTaken, ForcedCommitEmpties, PositionsOrdered, EndIsFinal
<1>6. QED
  BY <1>4, <1>5

(* CommitTable: rows only move from the open INSERT to ClickHouse, and a    *)
(* forced commit that reaches the last table has emptied them all.         *)
LEMMA CommitIInv ==
  ASSUME IInv, CommitTable, TypeOK'
  PROVE  IInv'
<1> USE ConstantNumbers, RowsOfType DEF IInv, Lines, Tables, Good, NoPos
<1>1. pc = "commit" /\ UNCHANGED <<follow, written, sent, closed, lineCh, cur, why, checkpoint>>
  BY DEF CommitTable, source, process
<1>2. \/ tbl < NumTables /\ tbl' = tbl + 1 /\ UNCHANGED <<pc, pending>>
      \/ tbl = NumTables /\ tbl' = 1 /\ why = "event" /\ pending' = cur /\ pc' = "select"
      \/ /\ tbl = NumTables /\ tbl' = 1 /\ why # "event" /\ pending' = pending
         /\ \/ pc' = "save" /\ pending # NoPos
            \/ pc' = "select" /\ why = "tick"
            \/ pc' = "done" /\ why = "end"
  BY DEF CommitTable, AfterCommit, Onward, TypeOK
<1>3. Taken' = Taken /\ Taken \in Int
  BY <1>1 DEF Taken, TypeOK
<1>4. ChannelInOrder'
  BY <1>1, <1>2, <1>3 DEF ChannelInOrder
<1>5. TakenIsHandled'
  <2> SUFFICES ASSUME NEW l \in Good, l <= Taken', NEW t \in RowsOf[l]
               PROVE  l \in active'[t] \union durable'[t]
    BY DEF TakenIsHandled
  <2>1. l \in active[t] \union durable[t] /\ t \in Tables
    BY <1>1, <1>3 DEF TakenIsHandled, StillToWrite
  <2>2. QED
    BY <2>1, CommitStorage
<1>6. CheckpointCovered'
  BY <1>1, CommitStorage DEF CheckpointCovered, StoredLines
<1>7. CurrentIsTaken'
  BY <1>1, <1>2, <1>3 DEF CurrentIsTaken
<1>8. ForcedCommitEmpties'
  <2>1. why # "event" => \A t \in Tables : t <= tbl => active'[t] = {}
    <3> SUFFICES ASSUME why # "event", NEW t \in Tables, t <= tbl
                 PROVE  active'[t] = {}
      OBVIOUS
    <3>1. CASE t = tbl
      BY <3>1, CommitStorage
    <3>2. CASE t < tbl
      BY <1>1, <3>2, CommitStorage DEF ForcedCommitEmpties
    <3>3. t \in Int /\ tbl \in Int
      BY DEF TypeOK
    <3>4. t = tbl \/ t < tbl
      BY <3>3
    <3>5. QED
      BY <3>1, <3>2, <3>4
  <2>2. \A t \in Tables : t <= NumTables
    OBVIOUS
  <2>3. CASE tbl < NumTables /\ tbl' = tbl + 1 /\ UNCHANGED <<pc, pending>>
    BY <1>1, <2>1, <2>3 DEF ForcedCommitEmpties, TypeOK
  <2>4. CASE tbl = NumTables /\ tbl' = 1
    <3>1. pc' \in {"save", "done"} => \A t \in Tables : active'[t] = {}
      BY <1>2, <2>1, <2>2, <2>4
    <3>2. pc' = "commit" => why' = "event"
      BY <1>2, <2>4
    <3>3. pc' = "save" => why' # "event" /\ pending' # NoPos
      BY <1>1, <1>2, <2>4
    <3>4. QED
      BY <2>4, <3>1, <3>2, <3>3 DEF ForcedCommitEmpties, TypeOK
  <2>5. QED
    BY <1>2, <2>3, <2>4
<1>9. PositionsOrdered'
  <2>1. /\ pc = "commit" /\ checkpoint' = checkpoint /\ Taken' = Taken
        /\ checkpoint <= Taken /\ pending <= Taken
        /\ pending # NoPos => checkpoint <= pending
    BY <1>1, <1>3 DEF PositionsOrdered
  <2>2. checkpoint \in Int /\ cur \in Int /\ Taken \in Int
    BY <1>3 DEF TypeOK
  <2>3. why = "event" => cur = Taken /\ cur > checkpoint
    BY <1>1 DEF CurrentIsTaken
  <2>4. pending' = pending \/ (why = "event" /\ pending' = cur)
    BY ONLY <1>2
  <2>5. pc' # "down"
    BY <1>1, <1>2
  <2>6. QED
    BY ONLY <2>1, <2>2, <2>3, <2>4, <2>5 DEF PositionsOrdered, NoPos
<1>10. EndIsFinal'
  BY <1>1, <1>2 DEF EndIsFinal
<1>11. QED
  BY <1>4, <1>5, <1>6, <1>7, <1>8, <1>9, <1>10

(* Save: every line up to `pending' was handled and nothing is open, so it  *)
(* is all in ClickHouse.                                                   *)
LEMMA SaveIInv ==
  ASSUME IInv, Save, TypeOK'
  PROVE  IInv'
<1> USE ConstantNumbers, RowsOfType DEF IInv, Lines, Tables, Good, NoPos
<1>1. /\ pc = "save" /\ checkpoint' = pending
      /\ (pc' = "select" \/ (pc' = "done" /\ why = "end"))
      /\ UNCHANGED <<follow, written, sent, closed, lineCh, cur, tbl, why, pending, active, durable>>
  BY DEF Save, Onward, source, storage, ForcedCommitEmpties, TypeOK, process
<1>2. Taken' = Taken /\ Taken \in Int
  BY <1>1 DEF Taken, TypeOK
<1>3. ChannelInOrder' /\ TakenIsHandled'
  BY <1>1, <1>2 DEF ChannelInOrder, TakenIsHandled, StillToWrite
<1>4. CheckpointCovered'
  <2> SUFFICES ASSUME NEW l \in Good, l <= pending, NEW t \in RowsOf[l]
               PROVE  l \in durable[t]
    BY <1>1 DEF CheckpointCovered, StoredLines
  <2>1. l <= Taken /\ t \in Tables
    BY <1>1, <1>2 DEF PositionsOrdered, TypeOK
  <2>2. l \in active[t] \union durable[t]
    BY <1>1, <2>1 DEF TakenIsHandled, StillToWrite
  <2>3. active[t] = {}
    BY <1>1, <2>1 DEF ForcedCommitEmpties
  <2>4. QED
    BY <2>2, <2>3
<1>5. CurrentIsTaken' /\ ForcedCommitEmpties' /\ EndIsFinal'
  BY <1>1 DEF CurrentIsTaken, ForcedCommitEmpties, EndIsFinal
<1>6. PositionsOrdered'
  BY <1>1, <1>2 DEF PositionsOrdered, TypeOK
<1>7. QED
  BY <1>3, <1>4, <1>5, <1>6

(* Crash: rows may land, none is taken back, and the checkpoint file stays. *)
LEMMA CrashIInv ==
  ASSUME IInv, Crash, TypeOK'
  PROVE  IInv'
<1> USE ConstantNumbers, RowsOfType DEF IInv, Lines, Tables, Good, NoPos
<1>1. /\ pc' = "down" /\ lineCh' = << >> /\ pending' = 0
      /\ UNCHANGED <<follow, written, sent, closed, cur, tbl, why, checkpoint>>
  BY DEF Crash, CrashRunner, source, process
<1>2. Len(lineCh') = 0
  BY <1>1
<1>3. ChannelInOrder' /\ TakenIsHandled' /\ CurrentIsTaken'
  BY <1>1, <1>2 DEF ChannelInOrder, TakenIsHandled, CurrentIsTaken, TypeOK
<1>4. ForcedCommitEmpties' /\ PositionsOrdered' /\ EndIsFinal'
  BY <1>1 DEF ForcedCommitEmpties, PositionsOrdered, EndIsFinal
<1>5. CheckpointCovered'
  <2>1. \A t \in Tables : durable[t] \subseteq durable'[t]
    BY CrashStorage DEF Crash
  <2>2. QED
    BY <1>1, <2>1 DEF CheckpointCovered, StoredLines
<1>6. QED
  BY <1>3, <1>4, <1>5

(* Restart: the new process stands at the checkpoint, below which all is    *)
(* stored; this is where CheckpointCovered is used.                        *)
LEMMA RestartIInv ==
  ASSUME IInv, Restart, TypeOK'
  PROVE  IInv'
<1> USE ConstantNumbers, RowsOfType DEF IInv, Lines, Tables, Good, NoPos
<1>1. /\ pc = "down" /\ pc' = "select" /\ sent' = checkpoint /\ closed' = FALSE
      /\ UNCHANGED <<follow, written, lineCh, cur, tbl, why, pending, active, durable, checkpoint>>
  BY DEF Restart, RestartRunner, storage, process
<1>2. lineCh' = << >> /\ Len(lineCh') = 0
  BY <1>1 DEF ChannelInOrder
<1>3. Taken' = checkpoint
  BY <1>1, <1>2 DEF Taken, TypeOK
<1>4. ChannelInOrder'
  BY <1>1, <1>2, <1>3 DEF ChannelInOrder, TypeOK
<1>5. TakenIsHandled' /\ CheckpointCovered'
  BY <1>1, <1>3 DEF TakenIsHandled, CheckpointCovered, StoredLines
<1>6. CurrentIsTaken' /\ ForcedCommitEmpties' /\ EndIsFinal'
  BY <1>1 DEF CurrentIsTaken, ForcedCommitEmpties, EndIsFinal
<1>7. PositionsOrdered'
  BY <1>1, <1>3 DEF PositionsOrdered, TypeOK
<1>8. QED
  BY <1>4, <1>5, <1>6, <1>7

(* Stuttering. *)
LEMMA UnchangedIInv ==
  ASSUME IInv, UNCHANGED vars
  PROVE  IInv'
<1>1. /\ UNCHANGED <<sent, closed, written, heard, lineCh, pc, cur, tbl, why, pending, active, rows, durable>>
      /\ UNCHANGED <<checkpoint, follow, deaths, crashes>>
  BY DEF vars, source, control, storage, process
<1>2. TypeOK' /\ ChannelInOrder'
  BY <1>1 DEF IInv, TypeOK, ChannelInOrder, Taken
<1>3. TakenIsHandled' /\ CheckpointCovered'
  BY <1>1 DEF IInv, TakenIsHandled, StillToWrite, Taken, CheckpointCovered, StoredLines
<1>4. CurrentIsTaken' /\ ForcedCommitEmpties' /\ PositionsOrdered' /\ EndIsFinal'
  BY <1>1 DEF IInv, CurrentIsTaken, ForcedCommitEmpties, PositionsOrdered, EndIsFinal, Taken
<1>5. QED
  BY <1>2, <1>3, <1>4 DEF IInv

-----------------------------------------------------------------------------
(* The invariant holds in every reachable state. *)
THEOREM Invariant == Spec => []IInv
<1>1. Init => IInv
  BY InitIInv
<1>2. IInv /\ [Next]_vars => IInv'
  <2> SUFFICES ASSUME IInv, [Next]_vars
               PROVE  IInv'
    OBVIOUS
  <2>1. TypeOK'
    BY TypeCorrectStep DEF IInv
  <2>1a. CASE NodeAppend
    BY <2>1, <2>1a, AppendIInv
  <2>2. CASE SourceSend
    BY <2>1, <2>2, SendIInv
  <2>3. CASE SourceClose
    BY <2>1, <2>3, CloseIInv
  <2>4. CASE RunnerStep
    BY <2>1, <2>4, DropIInv, TakeIInv, WriteIInv, StartCommitIInv, CommitIInv, SaveIInv
       DEF RunnerStep
  <2>5. CASE Crash
    BY <2>1, <2>5, CrashIInv
  <2>6. CASE Restart
    BY <2>1, <2>6, RestartIInv
  <2>7. CASE UNCHANGED vars
    BY <2>7, UnchangedIInv
  <2>8. QED
    BY <2>1a, <2>2, <2>3, <2>4, <2>5, <2>6, <2>7 DEF Next
<1>3. QED
  BY <1>1, <1>2, PTL DEF Spec

(* Restarting at the checkpoint never skips a row: at every await the       *)
(* process can stop at, every parseable line up to the saved position is    *)
(* durable in every table it has rows in.                                  *)
THEOREM CheckpointSafe == Spec => []CheckpointCovered
<1>1. IInv => CheckpointCovered
  BY DEF IInv
<1>2. QED
  BY <1>1, Invariant, PTL

(* run() returns Ok only with everything it was sent in ClickHouse, and in  *)
(* the one-shot mode that is the whole file.                               *)
THEOREM DoneSafe == Spec => []DoneMeansStored
<1>1. IInv => DoneMeansStored
  <2> USE ConstantNumbers, RowsOfType DEF Lines, Tables, Good, NoPos
  <2> SUFFICES ASSUME IInv, pc = "done"
               PROVE  /\ \A l \in Good : l <= sent => l \in StoredLines
                      /\ ~follow => Good \subseteq StoredLines
    BY DEF DoneMeansStored
  <2>1. lineCh = << >> /\ (~follow => sent = NumLines)
    BY DEF IInv, EndIsFinal
  <2>2. Len(lineCh) = 0
    BY <2>1
  <2>3. Taken = sent
    BY <2>2 DEF Taken, IInv, TypeOK
  <2>4. ASSUME NEW l \in Good, l <= sent, NEW t \in RowsOf[l]
        PROVE  l \in durable[t]
    <3>1. l \in active[t] \union durable[t]
      BY <2>3, <2>4 DEF IInv, TakenIsHandled, StillToWrite
    <3>2. t \in Tables /\ active[t] = {}
      BY <2>4 DEF IInv, ForcedCommitEmpties
    <3>3. QED
      BY <3>1, <3>2
  <2>5. \A l \in Good : l <= sent => l \in StoredLines
    BY <2>4 DEF StoredLines
  <2>6. QED
    BY <2>1, <2>5
<1>2. QED
  BY <1>1, Invariant, PTL

(* The checkpoint only moves forward, over saves, stops and restarts.       *)
THEOREM MonotoneSafe == Spec => CheckpointMonotone
<1>1. IInv /\ [Next]_vars => [checkpoint' >= checkpoint]_vars
  <2> USE ConstantNumbers, RowsOfType DEF Lines, Tables, Good, NoPos
  <2> SUFFICES ASSUME IInv, Next
               PROVE  checkpoint' >= checkpoint
    OBVIOUS
  <2>1. checkpoint \in Int
    BY DEF IInv, TypeOK
  <2>2. CASE Save
    BY <2>1, <2>2 DEF Save, IInv, ForcedCommitEmpties, PositionsOrdered
  <2>3. CASE ~Save
    <3>1. checkpoint' = checkpoint
      BY <2>3 DEF Next, RunnerStep, NodeAppend, SourceSend, SourceClose, DropBad, Take, WriteTable, Tick,
                  EndOfStream, CommitTable, Crash, CrashRunner, Restart, RestartRunner
    <3>2. QED
      BY <2>1, <3>1
  <2>4. QED
    BY <2>2, <2>3
<1>2. QED
  BY <1>1, Invariant, PTL DEF Spec, CheckpointMonotone

(* A restart never writes again what the checkpoint covers: every row that  *)
(* enters an INSERT belongs to a line past the saved position.             *)
THEOREM ReplaySafe == Spec => ReplayAboveCheckpoint
<1>1. IInv /\ [Next]_vars =>
        [\A t \in Tables : \A l \in active'[t] \ active[t] : l > checkpoint]_vars
  <2> SUFFICES ASSUME IInv, Next, NEW t \in Tables, NEW l \in active'[t] \ active[t]
               PROVE  l > checkpoint
    OBVIOUS
  <2> USE DEF IInv
  <2>1. CASE WriteTable
    <3>1. l = cur
      BY <2>1, WriteStorage, ConstantsAssumption
    <3>2. pc = "write"
      BY <2>1 DEF WriteTable
    <3>3. QED
      BY <3>1, <3>2 DEF CurrentIsTaken
  <2>2. CASE CommitTable
    BY <2>2, CommitStorage
  <2>3. CASE Crash
    BY <2>3, CrashStorage DEF Crash, Empty
  <2>4. CASE ~(WriteTable \/ CommitTable \/ Crash)
    <3>1. active' = active
      BY <2>4 DEF Next, RunnerStep, NodeAppend, SourceSend, SourceClose, DropBad, Take, Tick, EndOfStream,
                  Save, Restart, RestartRunner, storage
    <3>2. QED
      BY <3>1
  <2>5. QED
    BY <2>1, <2>2, <2>3, <2>4
<1>2. QED
  BY <1>1, Invariant, PTL DEF Spec, ReplayAboveCheckpoint

-----------------------------------------------------------------------------
(* No step takes a stored line back. *)
LEMMA StoredGrows ==
  ASSUME IInv, [Next]_vars
  PROVE  StoredLines \subseteq StoredLines'
<1> USE DEF IInv
<1>1. \A t \in Tables : durable[t] \subseteq durable'[t]
  <2>1. CASE CommitTable
    BY <2>1, CommitStorage
  <2>2. CASE Crash
    BY <2>2, CrashStorage DEF Crash
  <2>3. CASE ~(CommitTable \/ Crash)
    <3>1. durable' = durable
      BY <2>3 DEF Next, RunnerStep, NodeAppend, SourceSend, SourceClose, DropBad, Take, WriteTable, Tick,
                  EndOfStream, Save, Restart, RestartRunner, storage, vars
    <3>2. QED
      BY <3>1
  <2>4. QED
    BY <2>1, <2>2, <2>3
<1>2. \A l \in Good : RowsOf[l] \subseteq Tables
  BY RowsOfType DEF Good
<1>3. QED
  BY <1>1, <1>2 DEF StoredLines

(* The runner implements its promise: at every moment the lines that are    *)
(* completely in ClickHouse and the checkpoint file behave as AtLeastOnce   *)
(* says, through every interleaving of writes, commits, saves and stops.   *)
THEOREM Refinement == Spec => ImplementsAtLeastOnce
<1> USE ConstantNumbers, RowsOfType DEF Lines, Tables, Good, NoPos
<1>1. Init => Promise!Init
  <2> SUFFICES ASSUME Init PROVE Promise!Init
    OBVIOUS
  <2>1. ASSUME NEW l \in StoredLines \intersect Storable PROVE FALSE
    <3>1. l \in Good /\ (\A t \in RowsOf[l] : l \in durable[t])
      BY DEF StoredLines
    <3>2. PICK t \in RowsOf[l] : TRUE
      BY DEF Storable
    <3>3. t \in Tables /\ durable[t] = {}
      BY <3>1 DEF Init, Empty
    <3>4. QED
      BY <3>1, <3>3
  <2>2. checkpoint = 0
    BY DEF Init
  <2>3. QED
    BY <2>1, <2>2 DEF Promise!Init
<1>2. IInv /\ IInv' /\ [Next]_vars => [Promise!Next]_<<StoredLines \intersect Storable, checkpoint>>
  <2> SUFFICES ASSUME IInv, IInv', [Next]_vars
               PROVE  Promise!Next \/ UNCHANGED <<StoredLines \intersect Storable, checkpoint>>
    OBVIOUS
  <2>1. CASE Save
    <3>1. StoredLines' = StoredLines
      BY <2>1 DEF Save, storage, StoredLines
    <3>2. checkpoint' \in checkpoint .. NumLines
      BY <2>1 DEF Save, IInv, TypeOK, ForcedCommitEmpties, PositionsOrdered
    <3>3. \A l \in Good : l <= checkpoint' => l \in StoredLines
      BY <3>1 DEF IInv, CheckpointCovered
    <3>4. QED
      BY <3>1, <3>2, <3>3 DEF Promise!Next, Promise!Advance, Storable
  <2>2. CASE ~Save
    <3>1. checkpoint' = checkpoint
      BY <2>2 DEF Next, RunnerStep, NodeAppend, SourceSend, SourceClose, DropBad, Take, WriteTable, Tick,
                  EndOfStream, CommitTable, Crash, CrashRunner, Restart, RestartRunner, vars
    <3>2. StoredLines \subseteq StoredLines' /\ StoredLines' \subseteq Good
      BY StoredGrows DEF StoredLines
    <3>3. QED
      BY <3>1, <3>2 DEF Promise!Next, Promise!Store, Storable
  <2>3. QED
    BY <2>1, <2>2
<1>3. QED
  BY <1>1, <1>2, Invariant, PTL DEF Spec, ImplementsAtLeastOnce, Promise!Spec

-----------------------------------------------------------------------------
(* Why BufferBounded holds.  A table that has just had the rows of the     *)
(* current line added may hold the limit and those rows until commit(false) *)
(* has come to it; all others have been left below the limit by the last   *)
(* commit that came to them.                                               *)
MayBeFull(t) ==
  \/ pc = "write" /\ t < tbl
  \/ pc = "commit" /\ why = "event" /\ t >= tbl

Bounded(t) ==
  /\ MayBeFull(t) => rows[t] < MaxRows + RowsIn[cur][t]
  /\ ~MayBeFull(t) => rows[t] < MaxRows

BInv == TypeOK /\ (\A t \in Tables : Bounded(t)) /\ (pc = "commit" /\ why = "event" => cur \in Lines)

(* The rows of a line in a table are a number. *)
LEMMA RowsInType ==
  ASSUME ConstantsAssumption, NEW l \in Lines, NEW t \in Tables
  PROVE  RowsIn[l][t] \in Nat /\ MaxRows \in Nat \ {0}
  BY DEF ConstantsAssumption

(* write() adds the rows of the line to one table that was below the limit. *)
LEMMA WriteBound ==
  ASSUME ConstantsAssumption, BInv, WriteTable, NEW t \in Tables
  PROVE  Bounded(t)' /\ cur' \in Lines
<1>1. /\ pc = "write" /\ tbl \in 1 .. NumTables /\ NumTables \in Nat /\ t \in 1 .. NumTables
      /\ cur' = cur /\ cur \in Lines
      /\ \/ tbl' = tbl + 1 /\ pc' = "write"
         \/ tbl = NumTables /\ pc' = "commit" /\ tbl' = 1 /\ why' = "event"
  BY WriteStorage DEF WriteTable, StartCommit, BInv, TypeOK, Tables, ConstantsAssumption
<1>2. rows'[t] = IF t = tbl THEN rows[t] + RowsIn[cur][t] ELSE rows[t]
  BY WriteStorage DEF BInv
<1>3. RowsIn[cur][t] \in Nat /\ MaxRows \in Nat /\ rows[t] \in Nat
  BY <1>1, RowsInType DEF BInv, TypeOK
<1>4. Bounded(t)
  BY DEF BInv
<1>5. CASE t = tbl
  <2>1. ~MayBeFull(t) /\ MayBeFull(t)'
    BY <1>1, <1>5 DEF MayBeFull
  <2>2. rows'[t] < MaxRows + RowsIn[cur'][t]
    BY <1>1, <1>2, <1>3, <1>4, <1>5, <2>1 DEF Bounded
  <2>3. QED
    BY <1>1, <2>1, <2>2 DEF Bounded
<1>6. CASE t # tbl
  <2>1. rows'[t] = rows[t]
    BY <1>2, <1>6
  <2>2. CASE MayBeFull(t)
    <3>1. MayBeFull(t)'
      BY <1>1, <1>6, <2>2 DEF MayBeFull
    <3>2. QED
      BY <1>1, <1>4, <2>1, <2>2, <3>1 DEF Bounded
  <2>3. CASE ~MayBeFull(t)
    <3>1. rows'[t] < MaxRows
      BY <1>4, <2>1, <2>3 DEF Bounded
    <3>2. rows'[t] < MaxRows + RowsIn[cur'][t]
      BY <1>1, <1>3, <2>1, <3>1
    <3>3. QED
      BY <1>1, <3>1, <3>2 DEF Bounded
  <2>4. QED
    BY <2>2, <2>3
<1>7. QED
  BY <1>1, <1>5, <1>6

(* commit() leaves the table it comes to empty or below the limit. *)
LEMMA CommitBound ==
  ASSUME ConstantsAssumption, BInv, CommitTable, NEW t \in Tables
  PROVE  Bounded(t)' /\ cur' = cur
<1>1. /\ pc = "commit" /\ tbl \in 1 .. NumTables /\ NumTables \in Nat /\ t \in 1 .. NumTables
      /\ why' = why /\ cur' = cur
      /\ \/ tbl' = tbl + 1 /\ pc' = "commit"
         \/ tbl = NumTables /\ pc' \notin {"write", "commit"}
  BY DEF CommitTable, AfterCommit, Onward, BInv, TypeOK, Tables, ConstantsAssumption
<1>2. \/ \A u \in Tables : rows'[u] = IF u = tbl THEN 0 ELSE rows[u]
      \/ rows[tbl] < MaxRows /\ rows' = rows
  BY CommitStorage DEF BInv
<1>3. MaxRows \in Nat \ {0} /\ Bounded(t)
  BY DEF ConstantsAssumption, BInv
<1>4. CASE t = tbl
  <2>1. ~MayBeFull(t)'
    BY <1>1, <1>4 DEF MayBeFull
  <2>2. rows'[t] < MaxRows
    BY <1>2, <1>3, <1>4
  <2>3. QED
    BY <1>1, <2>1, <2>2 DEF Bounded
<1>5. CASE t # tbl
  <2>1. rows'[t] = rows[t]
    BY <1>2, <1>5
  <2>2. MayBeFull(t)' <=> MayBeFull(t)
    BY <1>1, <1>5 DEF MayBeFull
  <2>3. QED
    BY <1>1, <1>3, <2>1, <2>2 DEF Bounded
<1>6. QED
  BY <1>1, <1>4, <1>5

(* An open INSERT has fewer than MaxRows rows, plus those of the line in     *)
(* hand (BufferBounded), for any number of tables, lines and rows of a line: *)
(* this much is what one process can lose by stopping.                       *)
THEOREM BufferSafe == Spec => []BufferBounded
<1> USE ConstantsAssumption
<1>1. Init => BInv
  <2> SUFFICES ASSUME Init, NEW t \in Tables PROVE Bounded(t) /\ pc # "commit"
    BY TypeCorrectInit DEF BInv, Init
  <2>1. rows[t] = 0 /\ MaxRows \in Nat /\ MaxRows > 0 /\ pc = "select"
    BY DEF Init, NoRows, ConstantsAssumption
  <2>2. QED
    BY <2>1 DEF Bounded, MayBeFull
<1>2. BInv /\ [Next]_vars => BInv'
  <2> SUFFICES ASSUME BInv, [Next]_vars, NEW t \in Tables
               PROVE  Bounded(t)' /\ (pc' = "commit" /\ why' = "event" => cur' \in Lines)
    <3>1. 1 \in Tables
      BY ConstantNumbers DEF Tables
    <3>2. BInv /\ [Next]_vars => TypeOK'
      BY TypeCorrectStep DEF BInv
    <3>3. QED
      BY <3>1, <3>2 DEF BInv
  <2>1. CASE WriteTable
    BY <2>1, WriteBound
  <2>2. CASE CommitTable
    <3>1. Bounded(t)' /\ cur' = cur /\ why' = why /\ pc = "commit"
      BY <2>2, CommitBound DEF CommitTable
    <3>2. QED
      BY <3>1 DEF BInv
  <2>3. CASE Crash
    <3>1. rows'[t] = 0 /\ MaxRows \in Nat /\ MaxRows > 0 /\ pc' = "down"
      BY <2>3 DEF Crash, CrashRunner, NoRows, ConstantsAssumption
    <3>2. QED
      BY <3>1 DEF Bounded, MayBeFull
  <2>4. CASE ~ (WriteTable \/ CommitTable \/ Crash)
    <3>1. rows' = rows
      BY <2>4 DEF Next, RunnerStep, NodeAppend, SourceSend, SourceClose, DropBad, Take, Tick,
                  EndOfStream, Save, Restart, RestartRunner, storage, vars
    <3>2. CASE pc \in {"write", "commit"}
      <4>1. UNCHANGED <<pc, tbl, why, cur>>
        BY <2>4, <3>2 DEF Next, RunnerStep, NodeAppend, SourceSend, SourceClose, DropBad, Take,
                    Tick, EndOfStream, Save, Restart, RestartRunner, control, vars
      <4>2. QED
        BY <3>1, <4>1 DEF BInv, Bounded, MayBeFull
    <3>3. CASE pc \notin {"write", "commit"}
      <4>1. /\ \/ pc' = "write" /\ tbl' = 1
               \/ pc' = "commit" /\ why' # "event"
               \/ pc' \notin {"write", "commit"}
        BY <2>4, <3>3 DEF Next, RunnerStep, NodeAppend, SourceSend, SourceClose, DropBad, Take,
                    Tick, EndOfStream, StartCommit, Save, Onward, Restart, RestartRunner, control, vars
      <4>2. ~MayBeFull(t) /\ ~MayBeFull(t)'
        BY <3>3, <4>1 DEF MayBeFull, Tables
      <4>3. QED
        BY <3>1, <4>1, <4>2 DEF BInv, Bounded
    <3>4. QED
      BY <3>2, <3>3
  <2>5. QED
    BY <2>1, <2>2, <2>3, <2>4
<1>3. BInv => BufferBounded
  <2> SUFFICES ASSUME BInv, NEW t \in Tables
               PROVE  rows[t] < MaxRows + IF pc = "write" \/ (pc = "commit" /\ why = "event")
                                          THEN RowsIn[cur][t] ELSE 0
    BY DEF BufferBounded
  <2>1. Bounded(t) /\ rows[t] \in Nat /\ MaxRows \in Nat
    BY DEF BInv, TypeOK, ConstantsAssumption
  <2>2. CASE pc = "write" \/ (pc = "commit" /\ why = "event")
    <3>1. RowsIn[cur][t] \in Nat
      BY <2>2, RowsInType DEF BInv, TypeOK, Good
    <3>2. QED
      BY <2>1, <2>2, <3>1 DEF Bounded
  <2>3. CASE ~(pc = "write" \/ (pc = "commit" /\ why = "event"))
    <3>1. ~MayBeFull(t)
      BY <2>3 DEF MayBeFull
    <3>2. QED
      BY <2>1, <2>3, <3>1 DEF Bounded
  <2>4. QED
    BY <2>2, <2>3
<1>4. QED
  BY <1>1, <1>2, <1>3, PTL DEF Spec
=============================================================================
