--------------------------- MODULE TailReader_proofs ---------------------------
(***************************************************************************)
(* Proofs about TailReader, for every content of the file, every division  *)
(* of it into chunks and any number of restarts.                           *)
(***************************************************************************)
EXTENDS TailReader, TLAPS, SequenceTheorems, FiniteSetTheorems, WellFoundedInduction

(* Offset in the file of the first byte of accum. *)
Base == position.offset - start

(* accum, byte by byte. *)
AccumIsRead ==
  /\ cursor <= size /\ 0 <= Base /\ Len(accum) = cursor - Base
  /\ \A i \in 1 .. Len(accum) : accum[i] = content[Base + i]

(* A Position is the beginning of a line, and says of which one. *)
IsPosition(p) ==
  /\ p.offset = 0 \/ content[p.offset] = Newline
  /\ p.line_number = LineNumber(p.offset)

(* Every line that ends in the first bytes of the file has been sent. *)
SentUpTo(offset) ==
  \A to \in 1 .. offset : content[to] = Newline => \E e \in events : e.to = to

(* Outside the scan accum is the beginning of a line. *)
NoNewlineLeft ==
  pc # "scan" => start = 0 /\ \A i \in 1 .. Len(accum) : accum[i] # Newline

IInv ==
  /\ TypeOK
  /\ AccumIsRead
  /\ IsPosition(position) /\ SentUpTo(position.offset)
  /\ NoNewlineLeft
  /\ EventsAreLines
  /\ \A e \in events : SentUpTo(e.to)

-----------------------------------------------------------------------------
(* The newlines of a prefix are finitely many, at most one per byte. *)
LEMMA LineNumberType ==
  ASSUME NEW to \in Nat
  PROVE  /\ IsFiniteSet({i \in 1 .. to : content[i] = Newline})
         /\ LineNumber(to) \in 0 .. to
<1>1. IsFiniteSet(1 .. to) /\ Cardinality(1 .. to) = to
  BY FS_Interval
<1>2. {i \in 1 .. to : content[i] = Newline} \in SUBSET (1 .. to)
  OBVIOUS
<1>3. /\ IsFiniteSet({i \in 1 .. to : content[i] = Newline})
      /\ Cardinality({i \in 1 .. to : content[i] = Newline}) <= to
  BY <1>1, <1>2, FS_Subset
<1>4. QED
  BY <1>3, FS_CardinalityType DEF LineNumber

(* No line ends before the file begins. *)
LEMMA LineNumberZero == LineNumber(0) = 0
<1>1. {i \in 1 .. 0 : content[i] = Newline} = {}
  OBVIOUS
<1>2. QED
  BY <1>1, FS_EmptySet DEF LineNumber

(* The line after a prefix of lines has the next number. *)
LEMMA NextLineNumber ==
  ASSUME NEW from \in Nat, NEW to \in Nat, from < to, content[to] = Newline,
         \A i \in from + 1 .. to - 1 : content[i] # Newline
  PROVE  LineNumber(to) = LineNumber(from) + 1
<1> DEFINE newlines == {i \in 1 .. from : content[i] = Newline}
<1>1. {i \in 1 .. to : content[i] = Newline} = newlines \union {to}
  OBVIOUS
<1>2. IsFiniteSet(newlines) /\ to \notin newlines
  BY LineNumberType
<1>3. Cardinality(newlines \union {to}) = Cardinality(newlines) + 1
  BY <1>2, FS_AddElement
<1>4. QED
  BY <1>1, <1>3 DEF LineNumber

(* Some natural numbers have a least one. *)
LEMMA LeastNat ==
  ASSUME NEW S, S \subseteq Nat, S # {}
  PROVE  \E i \in S : \A j \in S : i <= j
<1>1. IsWellFoundedOn({ss \in Nat \X Nat : ss[1] < ss[2]}, Nat)
  BY NatLessThanWellFounded DEF OpToRel
<1>2. PICK i \in S : \A j \in S : <<j, i>> \notin {ss \in Nat \X Nat : ss[1] < ss[2]}
  BY <1>1, WFMin
<1>3. \A j \in S : ~ (j < i)
  BY <1>2
<1>4. \A j \in S : i <= j
  BY <1>3
<1>5. QED
  BY <1>4

(* memchr: the first newline behind start. *)
LEMMA FirstNewline ==
  ASSUME TypeOK, NewlinesLeft # {}
  PROVE  LET end == CHOOSE i \in NewlinesLeft : \A j \in NewlinesLeft : i <= j
         IN  /\ end \in start + 1 .. Len(accum) /\ accum[end] = Newline
             /\ \A i \in start + 1 .. end - 1 : accum[i] # Newline
<1>1. start \in Nat /\ Len(accum) \in Nat
  BY DEF TypeOK
<1>2. NewlinesLeft \subseteq Nat
  BY <1>1 DEF NewlinesLeft
<1>3. \E i \in NewlinesLeft : \A j \in NewlinesLeft : i <= j
  BY <1>2, LeastNat
<1> DEFINE end == CHOOSE i \in NewlinesLeft : \A j \in NewlinesLeft : i <= j
<1>4. end \in NewlinesLeft /\ \A j \in NewlinesLeft : end <= j
  BY <1>3
<1> HIDE DEF end
<1>5. end \in start + 1 .. Len(accum) /\ accum[end] = Newline
  BY <1>4 DEF NewlinesLeft
<1>6. ASSUME NEW i \in start + 1 .. end - 1 PROVE accum[i] # Newline
  <2>1. i \in start + 1 .. Len(accum) /\ ~ (end <= i)
    BY <1>1, <1>5
  <2>2. QED
    BY <1>4, <2>1 DEF NewlinesLeft
<1>7. QED
  BY <1>5, <1>6 DEF end

-----------------------------------------------------------------------------
(* At first nothing is read and nothing is sent. *)
LEMMA InitHolds == ReaderAssumption /\ Init => IInv
<1> SUFFICES ASSUME ReaderAssumption, Init PROVE IInv
  OBVIOUS
<1> USE DEF ReaderAssumption, Init, Origin
<1>1. TypeOK
  BY DEF TypeOK, Positions
<1>2. AccumIsRead
  BY DEF AccumIsRead, Base
<1>3. IsPosition(position) /\ SentUpTo(position.offset)
  BY LineNumberZero DEF IsPosition, SentUpTo
<1>4. QED
  BY <1>1, <1>2, <1>3 DEF IInv, NoNewlineLeft, EventsAreLines

(* A step that leaves the file's content and what was sent of it alone.    *)
LEMMA SameFacts ==
  ASSUME content' = content, events' = events, size <= size', size \in Nat, size' \in Nat,
         TypeOK, EventsAreLines
  PROVE  /\ EventsAreLines'
         /\ \A p : IsPosition(p) => IsPosition(p)'
         /\ \A offset : SentUpTo(offset) => SentUpTo(offset)'
<1>1. \A n : LineNumber(n)' = LineNumber(n)
  BY DEF LineNumber
<1>2. \A from, to : IsLine(from, to)' = IsLine(from, to)
  BY DEF IsLine
<1>3. \A e \in events : e.to \in Nat
  BY DEF TypeOK
<1>4. EventsAreLines'
  BY <1>1, <1>2, <1>3 DEF EventsAreLines
<1>5. \A p : IsPosition(p) => IsPosition(p)'
  BY <1>1 DEF IsPosition
<1>6. QED
  BY <1>4, <1>5 DEF SentUpTo

(* What is read stays as it was written. *)
LEMMA NodeAppendKeeps ==
  ASSUME ReaderAssumption, IInv, NodeAppend
  PROVE  IInv'
<1> USE DEF ReaderAssumption, IInv, NodeAppend, reader
<1>1. size \in Nat /\ size' \in Nat /\ size <= size' /\ size' \in 0 .. FileLen
  BY DEF TypeOK
<1>2. TypeOK'
  BY <1>1 DEF TypeOK
<1>3. AccumIsRead'
  BY <1>1 DEF AccumIsRead, Base, TypeOK
<1>4. EventsAreLines' /\ IsPosition(position)' /\ SentUpTo(position.offset)'
      /\ (\A e \in events : SentUpTo(e.to))'
  BY <1>1, SameFacts
<1>5. QED
  BY <1>2, <1>3, <1>4 DEF NoNewlineLeft

(* A call begins where the last one stopped. *)
LEMMA CallKeeps ==
  ASSUME ReaderAssumption, IInv, Call
  PROVE  IInv'
<1> USE DEF ReaderAssumption, IInv, Call
<1>1. TypeOK' /\ size \in Nat /\ size' \in Nat /\ size <= size'
  BY DEF TypeOK
<1>2. AccumIsRead'
  BY DEF AccumIsRead, Base
<1>3. EventsAreLines' /\ IsPosition(position)' /\ SentUpTo(position.offset)'
      /\ (\A e \in events : SentUpTo(e.to))'
  BY <1>1, SameFacts
<1>4. QED
  BY <1>1, <1>2, <1>3 DEF NoNewlineLeft

(* read_and_emit returns. *)
LEMMA ReadEofKeeps ==
  ASSUME ReaderAssumption, IInv, ReadEof
  PROVE  IInv'
<1> USE DEF ReaderAssumption, IInv, ReadEof
<1>1. TypeOK' /\ size \in Nat /\ size' \in Nat /\ size <= size'
  BY DEF TypeOK
<1>2. AccumIsRead'
  BY DEF AccumIsRead, Base
<1>3. EventsAreLines' /\ IsPosition(position)' /\ SentUpTo(position.offset)'
      /\ (\A e \in events : SentUpTo(e.to))'
  BY <1>1, SameFacts
<1>4. QED
  BY <1>1, <1>2, <1>3 DEF NoNewlineLeft

(* A chunk, however short, goes on where accum ends. *)
LEMMA ReadChunkKeeps ==
  ASSUME ReaderAssumption, IInv, ReadChunk
  PROVE  IInv'
<1> USE DEF ReaderAssumption, IInv
<1> DEFINE B == Byte \union {Newline}
<1>1. PICK n \in 1 .. CHUNK :
        /\ cursor + n <= size /\ cursor' = cursor + n
        /\ accum' = accum \o SubSeq(content, cursor + 1, cursor + n)
  BY DEF ReadChunk
<1>2. /\ pc = "read" /\ start' = 0 /\ pc' = "scan" /\ start = 0
      /\ UNCHANGED <<content, size, position, events>>
  BY DEF ReadChunk, NoNewlineLeft
<1>3. /\ n \in Nat \ {0} /\ cursor \in Nat /\ size \in 0 .. FileLen /\ cursor + n \in 0 .. FileLen
      /\ accum \in Seq(B) /\ Len(accum) \in Nat /\ position.offset \in Nat
      /\ \A i \in 1 .. FileLen : content[i] \in B
  BY <1>1 DEF TypeOK, Contents, Positions
<1> DEFINE chunk == SubSeq(content, cursor + 1, cursor + n)
<1>4. /\ chunk \in Seq(B) /\ Len(chunk) = n
      /\ \A i \in 1 .. n : chunk[i] = content[cursor + i]
  <2>1. \A i \in cursor + 1 .. cursor + n : content[i] \in B
    BY <1>3
  <2>2. /\ chunk \in Seq(B) /\ Len(chunk) = n
        /\ \A i \in 1 .. (cursor + n) - (cursor + 1) + 1 : chunk[i] = content[cursor + 1 + i - 1]
    BY <1>3, <2>1, SubSeqProperties
  <2>3. (cursor + n) - (cursor + 1) + 1 = n /\ \A i \in 1 .. n : cursor + 1 + i - 1 = cursor + i
    BY <1>3
  <2>4. \A i \in 1 .. n : chunk[i] = content[cursor + 1 + i - 1]
    BY <2>2, <2>3
  <2>5. QED
    BY <2>2, <2>3, <2>4
<1>5. accum' = accum \o chunk
  BY <1>1
<1> HIDE DEF chunk, B
<1>6. /\ accum' \in Seq(B) /\ Len(accum') = Len(accum) + n
      /\ \A i \in 1 .. Len(accum) + n :
           accum'[i] = IF i <= Len(accum) THEN accum[i] ELSE chunk[i - Len(accum)]
  <2>1. accum \in Seq(B) /\ chunk \in Seq(B) /\ Len(chunk) = n
    BY <1>3, <1>4
  <2>2. /\ accum \o chunk \in Seq(B) /\ Len(accum \o chunk) = Len(accum) + Len(chunk)
        /\ \A i \in 1 .. Len(accum) + Len(chunk) : (accum \o chunk)[i] =
             IF i <= Len(accum) THEN accum[i] ELSE chunk[i - Len(accum)]
    BY <2>1, ConcatProperties
  <2>3. QED
    BY <1>5, <2>1, <2>2
<1>7. TypeOK'
  BY <1>1, <1>2, <1>3, <1>6 DEF TypeOK, B
<1>8. AccumIsRead'
  <2>1. Base = position.offset /\ Base' = position.offset
    BY <1>2, <1>3 DEF Base
  <2>2. Len(accum) = cursor - Base /\ \A i \in 1 .. Len(accum) : accum[i] = content[Base + i]
    BY DEF AccumIsRead
  <2>3. ASSUME NEW i \in 1 .. Len(accum) + n
        PROVE  accum'[i] = content[position.offset + i]
    <3>1. CASE i <= Len(accum)
      <4>1. i \in 1 .. Len(accum)
        BY <1>3, <3>1
      <4>2. QED
        BY <1>6, <2>1, <2>2, <3>1, <4>1
    <3>2. CASE ~ (i <= Len(accum))
      <4>1. i - Len(accum) \in 1 .. n /\ cursor + (i - Len(accum)) = position.offset + i
        BY <1>3, <2>1, <2>2, <3>2
      <4>2. QED
        BY <1>4, <1>6, <3>2, <4>1
    <3>3. QED
      BY <3>1, <3>2
  <2>4. cursor' <= size' /\ 0 <= Base' /\ Len(accum') = cursor' - Base'
    BY <1>1, <1>2, <1>3, <1>6, <2>1, <2>2
  <2>5. \A i \in 1 .. Len(accum') : accum'[i] = content'[Base' + i]
    BY <1>2, <1>6, <2>1, <2>3
  <2>6. QED
    BY <2>4, <2>5 DEF AccumIsRead
<1>9. EventsAreLines' /\ IsPosition(position)' /\ SentUpTo(position.offset)'
      /\ (\A e \in events : SentUpTo(e.to))'
  BY <1>2, <1>3, SameFacts
<1>10. QED
  BY <1>2, <1>7, <1>8, <1>9 DEF NoNewlineLeft

(* The line found is the one that begins at the position. *)
LEMMA EmitLineKeeps ==
  ASSUME ReaderAssumption, IInv, EmitLine
  PROVE  IInv'
<1> USE DEF ReaderAssumption, IInv
<1> DEFINE end == CHOOSE i \in NewlinesLeft : \A j \in NewlinesLeft : i <= j
           from == position.offset
           to   == position.offset + (end - start)
           line == [from |-> from, to |-> to, line_number |-> position.line_number + 1]
<1>1. /\ pc = "scan" /\ NewlinesLeft # {}
      /\ position' = [offset |-> to, line_number |-> position.line_number + 1]
      /\ events' = events \union {line} /\ start' = end
      /\ UNCHANGED <<content, size, cursor, accum, pc>>
  BY DEF EmitLine
<1>2. /\ end \in start + 1 .. Len(accum) /\ accum[end] = Newline
      /\ \A i \in start + 1 .. end - 1 : accum[i] # Newline
  BY <1>1, FirstNewline
<1> HIDE DEF end
<1>3. /\ start \in 0 .. Len(accum) /\ Len(accum) \in Nat /\ cursor \in Nat /\ size \in 0 .. FileLen
      /\ position \in Positions /\ from \in Nat /\ position.line_number \in Nat
  BY DEF TypeOK, Positions
<1>4. /\ Base \in Nat /\ end \in Nat /\ Base + start = from /\ Base + end = to
      /\ to \in Nat /\ from < to /\ to <= cursor /\ cursor <= size
      /\ \A i \in 1 .. Len(accum) : accum[i] = content[Base + i]
  <2>1. /\ cursor <= size /\ 0 <= Base /\ Len(accum) = cursor - Base
        /\ \A i \in 1 .. Len(accum) : accum[i] = content[Base + i]
    BY DEF AccumIsRead
  <2>2. end \in Nat /\ start < end /\ end <= Len(accum)
    BY <1>2, <1>3
  <2>3. Base = from - start
    BY DEF Base
  <2>4. to = from + (end - start)
    OBVIOUS
  <2> HIDE DEF from, to
  <2>5. Base \in Nat /\ Base + start = from
    BY <1>3, <2>1, <2>3
  <2>6. Base + end = to
    BY <1>3, <2>2, <2>3, <2>4
  <2>7. to \in Nat /\ from < to /\ to <= cursor
    BY <1>3, <2>1, <2>2, <2>5, <2>6
  <2>8. QED
    BY <2>1, <2>2, <2>5, <2>6, <2>7
<1>5. content[to] = Newline /\ \A i \in from + 1 .. to - 1 : content[i] # Newline
  <2> HIDE DEF from, to
  <2>1. content[to] = Newline
    <3>1. end \in 1 .. Len(accum)
      BY <1>2, <1>3
    <3>2. QED
      BY <1>2, <1>4, <3>1
  <2>2. ASSUME NEW i \in from + 1 .. to - 1 PROVE content[i] # Newline
    <3>1. i - Base \in start + 1 .. end - 1 /\ i - Base \in 1 .. Len(accum) /\ Base + (i - Base) = i
      <4>1. from < i /\ i < to /\ i \in Int
        <5>1. from \in Int /\ to \in Int
          BY <1>3, <1>4
        <5>2. QED
          BY <5>1
      <4>2. start < i - Base /\ i - Base < end /\ i - Base \in Int
        BY <1>3, <1>4, <4>1
      <4>3. start \in Nat /\ end \in Nat /\ end <= Len(accum) /\ Base \in Nat
        BY <1>2, <1>3, <1>4
      <4>4. i - Base \in start + 1 .. end - 1 /\ i - Base \in 1 .. Len(accum)
        BY <1>3, <4>2, <4>3
      <4>5. QED
        BY <4>1, <4>3, <4>4
    <3>2. QED
      BY <1>2, <1>4, <3>1
  <2>3. QED
    BY <2>1, <2>2
<1> HIDE DEF from, to
<1>6. LineNumber(to) = position.line_number + 1 /\ LineNumber(to) \in 0 .. to
  <2>1. LineNumber(to) = LineNumber(from) + 1
    BY <1>3, <1>4, <1>5, NextLineNumber
  <2>2. LineNumber(from) = position.line_number
    BY DEF IsPosition, from
  <2>3. QED
    BY <1>4, <2>1, <2>2, LineNumberType
<1>7. IsLine(from, to)
  BY <1>4, <1>5 DEF IsLine, IsPosition, from
<1>8. TypeOK'
  <2>1. to \in 0 .. FileLen /\ from \in 0 .. FileLen /\ position.line_number + 1 \in 0 .. FileLen
    BY <1>3, <1>4, <1>6
  <2>2. position' \in Positions
    BY <1>1, <2>1 DEF Positions
  <2>3. line \in [from : 0 .. FileLen, to : 0 .. FileLen, line_number : 0 .. FileLen]
    BY <2>1
  <2>4. start' \in 0 .. Len(accum')
    BY <1>1, <1>2, <1>3
  <2>5. QED
    BY <1>1, <2>2, <2>3, <2>4 DEF TypeOK
<1>9. AccumIsRead'
  <2>1. position'.offset = to
    BY <1>1
  <2>2. Base' = Base
    BY <1>1, <1>4, <2>1 DEF Base
  <2>3. QED
    BY <1>1, <2>2 DEF AccumIsRead
<1>10. \A n : LineNumber(n)' = LineNumber(n)
  BY <1>1 DEF LineNumber
<1>11. IsPosition(position)'
  BY <1>1, <1>5, <1>6, <1>10 DEF IsPosition
<1>12. EventsAreLines'
  <2>1. ASSUME NEW e \in events'
        PROVE  e.to <= size /\ IsLine(e.from, e.to) /\ e.line_number = LineNumber(e.to)
    <3>1. CASE e \in events
      BY <3>1 DEF EventsAreLines
    <3>2. CASE e = line
      BY <1>3, <1>4, <1>6, <1>7, <3>2
    <3>3. QED
      BY <1>1, <3>1, <3>2
  <2>2. \A n, k : IsLine(n, k)' = IsLine(n, k)
    BY <1>1 DEF IsLine
  <2>3. QED
    BY <1>1, <1>10, <2>1, <2>2 DEF EventsAreLines
<1>13. \A offset : SentUpTo(offset) => SentUpTo(offset)'
  BY <1>1 DEF SentUpTo
<1>14. \A n \in 1 .. to : content[n] = Newline => \E e \in events' : e.to = n
  <2>1. SUFFICES ASSUME NEW n \in 1 .. to, content[n] = Newline
                 PROVE  \E e \in events' : e.to = n
    OBVIOUS
  <2>2. CASE n <= from
    <3>1. n \in 1 .. position.offset
      BY <1>3, <1>4, <2>2 DEF from
    <3>2. QED
      BY <1>1, <2>1, <3>1 DEF SentUpTo
  <2>3. CASE n > from
    <3>1. n = to
      BY <1>3, <1>4, <1>5, <2>1, <2>3
    <3>2. line \in events' /\ line.to = to
      BY <1>1
    <3>3. QED
      BY <3>1, <3>2
  <2>4. QED
    BY <1>3, <1>4, <2>2, <2>3
<1>15. SentUpTo(position.offset)' /\ (\A e \in events : SentUpTo(e.to))'
  <2>1. position'.offset = to /\ line.to = to
    BY <1>1
  <2>2. SentUpTo(position.offset)'
    BY <1>1, <1>14, <2>1 DEF SentUpTo
  <2>3. ASSUME NEW e \in events'
        PROVE  \A n \in 1 .. e.to : content'[n] = Newline => \E d \in events' : d.to = n
    BY <1>1, <1>13, <1>14, <2>1 DEF SentUpTo
  <2>4. QED
    BY <2>2, <2>3 DEF SentUpTo
<1>16. QED
  BY <1>1, <1>8, <1>9, <1>11, <1>12, <1>15 DEF NoNewlineLeft

(* What stays in accum begins at the position and has no newline. *)
LEMMA DrainKeeps ==
  ASSUME ReaderAssumption, IInv, Drain
  PROVE  IInv'
<1> USE DEF ReaderAssumption, IInv
<1> DEFINE B == Byte \union {Newline}
<1>1. /\ NewlinesLeft = {} /\ accum' = SubSeq(accum, start + 1, Len(accum)) /\ start' = 0
      /\ pc' = "read" /\ UNCHANGED <<content, size, cursor, position, events>>
  BY DEF Drain
<1>2. /\ start \in 0 .. Len(accum) /\ Len(accum) \in Nat /\ cursor \in Nat /\ size \in Nat
      /\ accum \in Seq(B) /\ position.offset \in Nat /\ \A i \in 1 .. Len(accum) : accum[i] \in B
  BY DEF TypeOK, Positions
<1> HIDE DEF B
<1>3. /\ accum' \in Seq(B) /\ Len(accum') = Len(accum) - start
      /\ \A i \in 1 .. Len(accum') : accum'[i] = accum[start + i]
  <2>1. \A i \in start + 1 .. Len(accum) : accum[i] \in B
    BY <1>2
  <2>2. /\ accum' \in Seq(B)
        /\ Len(accum') = IF start + 1 <= Len(accum) THEN Len(accum) - (start + 1) + 1 ELSE 0
        /\ \A i \in 1 .. Len(accum) - (start + 1) + 1 : accum'[i] = accum[start + 1 + i - 1]
    BY <1>1, <1>2, <2>1, SubSeqProperties
  <2>3. Len(accum) - (start + 1) + 1 = Len(accum) - start
        /\ \A i \in Int : start + 1 + i - 1 = start + i
    BY <1>2
  <2>4. Len(accum') = Len(accum) - start
    <3>1. CASE start + 1 <= Len(accum)
      BY <2>2, <2>3, <3>1
    <3>2. CASE ~ (start + 1 <= Len(accum))
      <4>1. start = Len(accum)
        BY <1>2, <3>2
      <4>2. QED
        BY <1>2, <2>2, <3>2, <4>1
    <3>3. QED
      BY <3>1, <3>2
  <2>5. \A i \in 1 .. Len(accum') :
          accum'[i] = accum[start + 1 + i - 1] /\ start + 1 + i - 1 = start + i
    <3>1. Len(accum') = Len(accum) - (start + 1) + 1
      BY <2>3, <2>4
    <3>2. \A i \in 1 .. Len(accum') : accum'[i] = accum[start + 1 + i - 1]
      BY <2>2, <3>1
    <3>3. \A i \in 1 .. Len(accum') : start + 1 + i - 1 = start + i
      BY <1>2
    <3>4. QED
      BY <3>2, <3>3
  <2>6. QED
    BY <2>2, <2>4, <2>5
<1>4. TypeOK'
  BY <1>1, <1>2, <1>3 DEF TypeOK, B
<1>5. AccumIsRead'
  <2>1. Base + start = position.offset /\ Base \in Int /\ Base' = position.offset
    BY <1>1, <1>2 DEF Base
  <2>2. cursor <= size /\ 0 <= Base /\ Len(accum) = cursor - Base
        /\ \A i \in 1 .. Len(accum) : accum[i] = content[Base + i]
    BY DEF AccumIsRead
  <2>3. cursor' <= size' /\ 0 <= Base' /\ Len(accum') = cursor' - Base'
    BY <1>1, <1>2, <1>3, <2>1, <2>2
  <2>4. ASSUME NEW i \in 1 .. Len(accum')
        PROVE  accum'[i] = content'[Base' + i]
    <3>1. start + i \in 1 .. Len(accum) /\ Base + (start + i) = Base' + i
      BY <1>2, <1>3, <2>1
    <3>2. QED
      BY <1>1, <1>3, <2>2, <3>1
  <2>5. QED
    BY <2>3, <2>4 DEF AccumIsRead
<1>6. NoNewlineLeft'
  <2>1. ASSUME NEW i \in 1 .. Len(accum') PROVE accum'[i] # Newline
    <3>1. start + i \in start + 1 .. Len(accum)
      BY <1>2, <1>3
    <3>2. QED
      BY <1>1, <1>3, <3>1 DEF NewlinesLeft
  <2>2. QED
    BY <1>1, <2>1 DEF NoNewlineLeft
<1>7. EventsAreLines' /\ IsPosition(position)' /\ SentUpTo(position.offset)'
      /\ (\A e \in events : SentUpTo(e.to))'
  BY <1>1, <1>2, SameFacts
<1>8. QED
  BY <1>4, <1>5, <1>6, <1>7

(* A new process begins at a position, with nothing read ahead. *)
LEMMA ReopenKeeps ==
  ASSUME ReaderAssumption, IInv, Reopen
  PROVE  IInv'
<1> USE DEF ReaderAssumption, IInv
<1>1. PICK p \in {Origin} \union {After(e) : e \in events} : position' = p /\ cursor' = p.offset
  BY DEF Reopen
<1>2. accum' = << >> /\ start' = 0 /\ pc' = "idle" /\ UNCHANGED <<content, size, events>>
  BY DEF Reopen
<1>3. size \in 0 .. FileLen
  BY DEF TypeOK
<1>4. /\ p \in Positions /\ p.offset \in 0 .. size
      /\ IsPosition(p) /\ SentUpTo(p.offset)
  <2>1. CASE p = Origin
    BY <1>3, <2>1, LineNumberZero DEF Origin, Positions, IsPosition, SentUpTo
  <2>2. ASSUME NEW e \in events, p = After(e)
        PROVE  /\ p \in Positions /\ p.offset \in 0 .. size
               /\ IsPosition(p) /\ SentUpTo(p.offset)
    <3>1. e.to \in 0 .. FileLen /\ e.line_number \in 0 .. FileLen
      BY DEF TypeOK
    <3>2. p.offset = e.to /\ p.line_number = e.line_number /\ p \in Positions
      BY <2>2, <3>1 DEF After, Positions
    <3>3. e.to <= size /\ content[e.to] = Newline /\ e.line_number = LineNumber(e.to)
      BY DEF EventsAreLines, IsLine
    <3>4. QED
      BY <1>3, <3>1, <3>2, <3>3 DEF IsPosition
  <2>3. QED
    BY <2>1, <2>2
<1>5. TypeOK'
  BY <1>1, <1>2, <1>3, <1>4 DEF TypeOK
<1>6. AccumIsRead'
  <2>1. position'.offset - start' = p.offset
    BY <1>1, <1>2, <1>4
  <2>2. QED
    BY <1>1, <1>2, <1>3, <1>4, <2>1 DEF AccumIsRead, Base
<1>7. EventsAreLines' /\ (\A e \in events : SentUpTo(e.to))'
      /\ IsPosition(p)' /\ SentUpTo(p.offset)'
  BY <1>2, <1>3, <1>4, SameFacts
<1>8. QED
  BY <1>1, <1>2, <1>5, <1>6, <1>7 DEF NoNewlineLeft, IsPosition

-----------------------------------------------------------------------------
(* The next-state relation and its stuttering keep the invariant. *)
LEMMA NextKeeps == ReaderAssumption /\ IInv /\ [Next]_vars => IInv'
<1> SUFFICES ASSUME ReaderAssumption, IInv, [Next]_vars PROVE IInv'
  OBVIOUS
<1>1. CASE UNCHANGED vars
  <2>1. size \in Nat
    BY DEF IInv, TypeOK
  <2>2. EventsAreLines' /\ IsPosition(position)' /\ SentUpTo(position.offset)'
        /\ (\A e \in events : SentUpTo(e.to))'
    BY <1>1, <2>1, SameFacts DEF IInv, vars
  <2>3. TypeOK' /\ AccumIsRead' /\ NoNewlineLeft'
    BY <1>1 DEF IInv, vars, TypeOK, AccumIsRead, Base, NoNewlineLeft
  <2>4. QED
    BY <2>2, <2>3 DEF IInv
<1>2. QED
  BY <1>1, NodeAppendKeeps, CallKeeps, ReadChunkKeeps, ReadEofKeeps, EmitLineKeeps, DrainKeeps,
     ReopenKeeps DEF Next

(* Every reachable state of the reader satisfies the invariant. *)
LEMMA Invariance == ReaderAssumption /\ Spec => []IInv
<1> SUFFICES ASSUME ReaderAssumption PROVE Spec => []IInv
  OBVIOUS
<1>1. Init => IInv
  BY InitHolds
<1>2. IInv /\ [Next]_vars => IInv'
  BY NextKeeps
<1>3. QED
  BY <1>1, <1>2, PTL DEF Spec

(* Offsets and line numbers stay within the file, start within accum. *)
THEOREM ReaderTypeCorrect ==
  ASSUME ReaderAssumption
  PROVE  Spec => []TypeOK
<1>1. Spec => []IInv
  BY Invariance
<1>2. IInv => TypeOK
  BY DEF IInv
<1>3. QED
  BY <1>1, <1>2, PTL

(* An event is exactly one line of the file and its Position says which:   *)
(* however the node's writes and the reads divide the bytes, and wherever  *)
(* a process stops and another begins.                                     *)
THEOREM EventsSafe ==
  ASSUME ReaderAssumption
  PROVE  Spec => []EventsAreLines
<1>1. Spec => []IInv
  BY Invariance
<1>2. IInv => EventsAreLines
  BY DEF IInv
<1>3. QED
  BY <1>1, <1>2, PTL

(* accum holds what was read of the file and not emitted, nothing else. *)
THEOREM AccumSafe ==
  ASSUME ReaderAssumption
  PROVE  Spec => []AccumIsUnemitted
<1>1. Spec => []IInv
  BY Invariance
<1>2. IInv => AccumIsUnemitted
  <2> SUFFICES ASSUME IInv PROVE AccumIsUnemitted
    OBVIOUS
  <2> DEFINE B == Byte \union {Newline}
             rest == SubSeq(content, Base + 1, cursor)
  <2>1. /\ cursor \in Nat /\ size \in 0 .. FileLen /\ accum \in Seq(B) /\ Len(accum) \in Nat
        /\ start \in Nat /\ position.offset \in Nat /\ \A i \in 1 .. FileLen : content[i] \in B
    BY DEF IInv, TypeOK, Contents, Positions
  <2>2. /\ cursor <= size /\ Base \in Nat /\ Len(accum) = cursor - Base
        /\ \A i \in 1 .. Len(accum) : accum[i] = content[Base + i]
    BY <2>1 DEF IInv, AccumIsRead, Base
  <2> HIDE DEF B
  <2>3. /\ rest \in Seq(B) /\ Len(rest) = Len(accum)
        /\ \A i \in 1 .. Len(accum) : accum[i] = rest[i]
    <3>1. \A i \in Base + 1 .. cursor : content[i] \in B
      BY <2>1, <2>2
    <3>2. /\ rest \in Seq(B)
          /\ Len(rest) = IF Base + 1 <= cursor THEN cursor - (Base + 1) + 1 ELSE 0
          /\ \A i \in 1 .. cursor - (Base + 1) + 1 : rest[i] = content[Base + 1 + i - 1]
      BY <2>1, <2>2, <3>1, SubSeqProperties
    <3>3. cursor - (Base + 1) + 1 = Len(accum) /\ \A i \in Int : Base + 1 + i - 1 = Base + i
      BY <2>1, <2>2
    <3>4. Len(rest) = Len(accum)
      <4>1. CASE Base + 1 <= cursor
        BY <3>2, <3>3, <4>1
      <4>2. CASE ~ (Base + 1 <= cursor)
        <5>1. Len(accum) = 0
          BY <2>1, <2>2, <4>2
        <5>2. QED
          BY <3>2, <4>2, <5>1
      <4>3. QED
        BY <4>1, <4>2
    <3>5. \A i \in 1 .. Len(accum) :
            rest[i] = content[Base + 1 + i - 1] /\ Base + 1 + i - 1 = Base + i
      <4>1. \A i \in 1 .. Len(accum) : rest[i] = content[Base + 1 + i - 1]
        BY <3>2, <3>3
      <4>2. \A i \in 1 .. Len(accum) : i \in Int
        BY <2>1
      <4>3. QED
        BY <3>3, <4>1, <4>2
    <3>6. QED
      BY <2>2, <3>2, <3>4, <3>5
  <2> HIDE DEF rest
  <2>4. accum = rest
    BY <2>1, <2>3, SeqEqual
  <2>5. position.offset - start + Len(accum) = cursor
    BY <2>1, <2>2 DEF Base
  <2>6. QED
    BY <2>2, <2>4, <2>5 DEF AccumIsUnemitted, Base, rest
<1>3. QED
  BY <1>1, <1>2, PTL

(* When read_and_emit returns, no complete line waits in accum. *)
THEOREM NothingHeldBackSafe ==
  ASSUME ReaderAssumption
  PROVE  Spec => []NothingHeldBack
<1>1. Spec => []IInv
  BY Invariance
<1>2. IInv => NothingHeldBack
  <2> SUFFICES ASSUME IInv, pc \in {"idle", "read"}, NEW i \in position.offset + 1 .. cursor
               PROVE  content[i] # Newline
    BY DEF NothingHeldBack
  <2>1. /\ start = 0 /\ Base = position.offset /\ position.offset \in Nat /\ cursor \in Nat
        /\ \A k \in 1 .. Len(accum) : accum[k] # Newline
    BY DEF IInv, TypeOK, Positions, NoNewlineLeft, Base
  <2>2. Len(accum) = cursor - Base /\ \A k \in 1 .. Len(accum) : accum[k] = content[Base + k]
    BY DEF IInv, AccumIsRead
  <2>3. i - Base \in 1 .. Len(accum) /\ Base + (i - Base) = i
    BY <2>1, <2>2
  <2>4. QED
    BY <2>1, <2>2, <2>3
<1>3. QED
  BY <1>1, <1>2, PTL

(* Every line that ends before the position has been sent, by this process *)
(* or by an earlier one.                                                   *)
THEOREM NothingSkippedSafe ==
  ASSUME ReaderAssumption
  PROVE  Spec => []NothingSkipped
<1>1. Spec => []IInv
  BY Invariance
<1>2. IInv => NothingSkipped
  BY DEF IInv, SentUpTo, NothingSkipped
<1>3. QED
  BY <1>1, <1>2, PTL
==============================================================================
