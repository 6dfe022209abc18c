----------------------------- MODULE TailReader -----------------------------
(***************************************************************************)
(* Reading one file of the node: Tail, Position and read_and_emit          *)
(* (src/crates/tailer/src/lib.rs), byte by byte.                           *)
(*                                                                         *)
(* The node appends bytes while the tailer reads them in chunks of any     *)
(* length; a chunk may end inside a line or hold several.  Bytes that do   *)
(* not end a line stay in `accum'.  An event carries the line and the      *)
(* Position after it; a process that starts again opens the file at such a *)
(* position.  StreamRunner numbers lines and forgets bytes: this module is *)
(* where that is justified.                                                *)
(***************************************************************************)
EXTENDS Integers, Sequences, FiniteSets

CONSTANTS
  Byte,        \* the bytes that are not a newline
  Newline,     \* b'\n'
  FileLen,     \* bytes the node ever writes (bound)
  CHUNK        \* longest read (512 KiB in the code)

ASSUME ReaderAssumption ==
  /\ Newline \notin Byte /\ FileLen \in Nat /\ CHUNK \in Nat \ {0}

VARIABLES
  content,     \* what the node will have written in the end
  size,        \* bytes of it that are in the file now
  cursor,      \* read position of the open file
  accum,       \* bytes read and not yet part of an event
  start,       \* bytes of accum already emitted in this pass
  position,    \* [offset, line_number] of the tail
  events,      \* every event ever sent: [from, to, line_number]
  pc           \* "idle", "read", "scan"

vars == <<content, size, cursor, accum, start, position, events, pc>>
reader == <<cursor, accum, start, position, events, pc>>

Contents == [1 .. FileLen -> Byte \union {Newline}]
Positions == [offset : 0 .. FileLen, line_number : 0 .. FileLen]
Origin == [offset |-> 0, line_number |-> 0]

(* The Position an event carries. *)
After(e) == [offset |-> e.to, line_number |-> e.line_number]

TypeOK ==
  /\ content \in Contents /\ size \in 0 .. FileLen
  /\ cursor \in 0 .. FileLen
  /\ accum \in Seq(Byte \union {Newline}) /\ start \in 0 .. Len(accum)
  /\ position \in Positions
  /\ events \subseteq [from : 0 .. FileLen, to : 0 .. FileLen, line_number : 0 .. FileLen]
  /\ pc \in {"idle", "read", "scan"}

Init ==
  /\ content \in Contents /\ size = 0
  /\ cursor = 0 /\ accum = << >> /\ start = 0
  /\ position = Origin /\ events = {} /\ pc = "idle"

-----------------------------------------------------------------------------
(* The node appends; a write need not end at a line. *)
NodeAppend ==
  /\ \E n \in 1 .. FileLen - size : size' = size + n
  /\ UNCHANGED <<content, reader>>

(* The sweep or a notification calls read_and_emit. *)
Call ==
  /\ pc = "idle" /\ pc' = "read"
  /\ UNCHANGED <<content, size, cursor, accum, start, position, events>>

(* file.read returns between 1 and CHUNK of the bytes that are there. *)
ReadChunk ==
  /\ pc = "read" /\ cursor < size
  /\ \E n \in 1 .. CHUNK :
       /\ cursor + n <= size
       /\ cursor' = cursor + n
       /\ accum' = accum \o SubSeq(content, cursor + 1, cursor + n)
  /\ start' = 0 /\ pc' = "scan"
  /\ UNCHANGED <<content, size, position, events>>

(* file.read returns 0: read_and_emit is over. *)
ReadEof ==
  /\ pc = "read" /\ cursor = size
  /\ pc' = "idle"
  /\ UNCHANGED <<content, size, cursor, accum, start, position, events>>

(* Indices of the newlines of accum behind `start'. *)
NewlinesLeft == {i \in start + 1 .. Len(accum) : accum[i] = Newline}

(* memchr found a newline: the line up to and with it becomes an event. *)
EmitLine ==
  /\ pc = "scan" /\ NewlinesLeft # {}
  /\ LET end == CHOOSE i \in NewlinesLeft : \A j \in NewlinesLeft : i <= j
         len == end - start
     IN  /\ position' = [offset |-> position.offset + len,
                         line_number |-> position.line_number + 1]
         /\ events' = events \union {[from |-> position.offset,
                                      to |-> position.offset + len,
                                      line_number |-> position.line_number + 1]}
         /\ start' = end
  /\ UNCHANGED <<content, size, cursor, accum, pc>>

(* Not the code: everything is drained; only the first line of a chunk is  *)
(* looked for.                                                             *)
Drain_All ==
  /\ pc = "scan" /\ NewlinesLeft = {}
  /\ accum' = << >> /\ start' = 0 /\ pc' = "read"
  /\ UNCHANGED <<content, size, cursor, position, events>>

Drain_AfterFirst ==
  /\ pc = "scan" /\ (NewlinesLeft = {} \/ start > 0)
  /\ accum' = SubSeq(accum, start + 1, Len(accum)) /\ start' = 0 /\ pc' = "read"
  /\ UNCHANGED <<content, size, cursor, position, events>>

(* accum.drain(..start): the unfinished line stays. *)
Drain ==
  /\ pc = "scan" /\ NewlinesLeft = {}
  /\ accum' = SubSeq(accum, start + 1, Len(accum)) /\ start' = 0
  /\ pc' = "read"
  /\ UNCHANGED <<content, size, cursor, position, events>>

(* Not the code: the line number restarts; the read offset is the position. *)
Reopen_NoLineNumber ==
  /\ \E p \in {Origin} \union {After(e) : e \in events} :
       position' = [p EXCEPT !.line_number = 0] /\ cursor' = p.offset
  /\ accum' = << >> /\ start' = 0 /\ pc' = "idle"
  /\ UNCHANGED <<content, size, events>>

Reopen_AtCursor ==
  /\ position' = [position EXCEPT !.offset = cursor] /\ UNCHANGED cursor
  /\ accum' = << >> /\ start' = 0 /\ pc' = "idle"
  /\ UNCHANGED <<content, size, events>>

(* The process stops anywhere and a new one opens the file: at the start,  *)
(* or with a seek to the position of an event (the checkpoint).            *)
Reopen ==
  /\ \E p \in {Origin} \union {After(e) : e \in events} :
       position' = p /\ cursor' = p.offset
  /\ accum' = << >> /\ start' = 0 /\ pc' = "idle"
  /\ UNCHANGED <<content, size, events>>

Next == NodeAppend \/ Call \/ ReadChunk \/ ReadEof \/ EmitLine \/ Drain \/ Reopen

Spec == Init /\ [][Next]_vars

-----------------------------------------------------------------------------
(* Lines of the file, by definition: maximal runs that end in a newline.   *)
IsLine(from, to) ==
  /\ to > from /\ content[to] = Newline
  /\ \A i \in from + 1 .. to - 1 : content[i] # Newline
  /\ from = 0 \/ content[from] = Newline

LineNumber(to) == Cardinality({i \in 1 .. to : content[i] = Newline})

(* Whatever the chunks, the short reads and the restarts, an event is      *)
(* exactly one line of the file, and its Position says which one.  The     *)
(* height of a replica_cmds block is computed from that line_number, so a  *)
(* line read twice must have the same one.                                 *)
EventsAreLines ==
  \A e \in events :
    e.to <= size /\ IsLine(e.from, e.to) /\ e.line_number = LineNumber(e.to)

(* accum, start, offset and the file cursor agree: accum is exactly what   *)
(* was read and not emitted, so no byte is lost or read twice at a chunk   *)
(* boundary.                                                               *)
AccumIsUnemitted ==
  /\ cursor <= size
  /\ position.offset - start + Len(accum) = cursor
  /\ accum = SubSeq(content, position.offset - start + 1, cursor)

(* When read_and_emit returns at the end of the file, no complete line is  *)
(* left behind in accum: what waits is the beginning of one.               *)
NothingHeldBack ==
  pc \in {"idle", "read"} =>
    \A i \in position.offset + 1 .. cursor : content[i] # Newline

(* No line is left out, over restarts too: whatever position the reader    *)
(* stands at, every line that ends before it has been sent.  (A checkpoint *)
(* is the position of an event, never the offset of a read.)               *)
NothingSkipped ==
  \A to \in 1 .. position.offset :
    content[to] = Newline => \E e \in events : e.to = to
=============================================================================
