---------------------------- MODULE StreamRunner ----------------------------
(***************************************************************************)
(* One stream of the indexer: streams::run (src/src/streams/mod.rs), the   *)
(* inserters it writes through and the checkpoint it saves.                *)
(*                                                                         *)
(* The runner takes lines from the tailer's channel, writes the rows of    *)
(* each line to its tables, one table after the other, lets every          *)
(* inserter decide whether to end its INSERT, and on the ticker ends all   *)
(* of them and saves the position of the last line it handled.  Every      *)
(* await of that loop is a point where the process can stop; `pc' names    *)
(* the await it is at.                                                     *)
(*                                                                         *)
(* The lines of the source are the numbers 1..NumLines in the order the    *)
(* node wrote them, so a Position is the number of the line it follows     *)
(* and 0 is "no position".  They are in one file, of which the tailer is   *)
(* notified when the node appends to it; what it does to deliver lines     *)
(* from several files is the subject of Tailer and Indexer, which reuse    *)
(* the runner's actions of this module.                                    *)
(***************************************************************************)
EXTENDS Integers, Sequences, FiniteSets

CONSTANTS
  NumLines,    \* lines the node ever writes (bound)
  Bad,         \* lines that S::parse rejects
  NumTables,   \* inserters of the stream, in the order commit() visits them
  RowsIn,      \* RowsIn[l][t]: how many rows line l has in table t
  LineCap,     \* capacity of the line channel (4096 in the code)
  MaxRows,     \* max_rows: rows of an open INSERT at which commit() ends it
  MaxDeaths,   \* how often the tailer thread may panic (bound)
  MaxCrashes   \* how often the process may stop (bound)

Lines  == 1 .. NumLines
Tables == 1 .. NumTables
Good   == Lines \ Bad
NoPos  == 0

(* The tables line l has rows in. *)
RowsOf == [l \in Lines |-> {t \in Tables : RowsIn[l][t] > 0}]

ASSUME ConstantsAssumption ==
  /\ NumLines \in Nat /\ NumTables \in Nat \ {0}
  /\ Bad \subseteq Lines
  /\ RowsIn \in [Lines -> [Tables -> Nat]]
  /\ LineCap \in Nat \ {0} /\ MaxRows \in Nat \ {0}
  /\ MaxDeaths \in Nat /\ MaxCrashes \in Nat

VARIABLES
  follow,      \* the service runs; otherwise a one-shot subcommand (main's choice)
  sent,        \* last line the tailer thread of this process has sent
  closed,      \* the tailer thread has ended and dropped line_tx
  written,     \* last line the node has written
  heard,       \* this tailer has cause to read: a start position or a notification
  lineCh,      \* the channel between the tailer thread and the runner
  pc,          \* the await the runner is at
  cur,         \* the line whose rows are being written
  tbl,         \* the table that write() or commit() has reached
  why,         \* who called commit(): "event" is commit(false), the others force
  pending,     \* position of the last line handled in this process
  active,      \* active[t]: lines with rows in the open INSERT of table t
  rows,        \* rows[t]: the rows of that INSERT (Inserter's pending quantities)
  durable,     \* durable[t]: lines whose rows ClickHouse has in table t
  checkpoint,  \* content of the checkpoint file, NoPos when there is none
  deaths, crashes

source   == <<sent, closed, written, heard>>
control  == <<pc, cur, tbl, why>>
storage  == <<active, rows, durable>>
process  == <<follow, deaths, crashes>>
vars     == <<source, lineCh, control, pending, storage, checkpoint, process>>

TypeOK ==
  /\ follow \in BOOLEAN
  /\ sent \in 0 .. NumLines /\ closed \in BOOLEAN
  /\ written \in 0 .. NumLines /\ heard \in BOOLEAN
  /\ lineCh \in Seq(Lines)
  /\ pc \in {"select", "write", "commit", "save", "done", "down"}
  /\ cur \in 0 .. NumLines /\ (pc = "write" => cur \in Good)
  /\ tbl \in Tables
  /\ why \in {"event", "tick", "end"}
  /\ pending \in 0 .. NumLines
  /\ active \in [Tables -> SUBSET Lines]
  /\ rows \in [Tables -> Nat]
  /\ durable \in [Tables -> SUBSET Lines]
  /\ checkpoint \in 0 .. NumLines
  /\ deaths \in 0 .. MaxDeaths /\ crashes \in 0 .. MaxCrashes

Empty  == [t \in Tables |-> {}]
NoRows == [t \in Tables |-> 0]

(* A one-shot subcommand reads the file it finds from position 0; a first  *)
(* start of the service sets no start position (build_tailer, no           *)
(* checkpoint), so its tailer sweeps nothing and waits for a notification. *)
Init ==
  /\ follow \in BOOLEAN
  /\ written \in 0 .. NumLines /\ (~follow => written = NumLines)
  /\ heard = ~follow
  /\ sent = 0 /\ closed = FALSE /\ lineCh = << >>
  /\ pc = "select" /\ cur = 0 /\ tbl = 1 /\ why = "event"
  /\ pending = NoPos
  /\ active = Empty /\ rows = NoRows /\ durable = Empty
  /\ checkpoint = NoPos
  /\ deaths = 0 /\ crashes = 0

Running == pc \notin {"done", "down"}

-----------------------------------------------------------------------------
(* The tailer thread, seen from the channel. *)

(* The node appends a line.  A tailer that runs is notified, and reads the *)
(* file from where it stands, which is its first byte if it has not read   *)
(* it yet; one that is not running hears nothing.                          *)
NodeAppend ==
  /\ follow /\ written < NumLines
  /\ written' = written + 1
  /\ heard' = (heard \/ Running)
  /\ UNCHANGED <<sent, closed, lineCh, control, pending, storage, checkpoint, process>>

(* blocking_send of the next line; it waits while the channel is full. *)
SourceSend ==
  /\ Running /\ ~closed /\ heard /\ sent < written
  /\ Len(lineCh) < LineCap
  /\ sent' = sent + 1
  /\ lineCh' = Append(lineCh, sent + 1)
  /\ UNCHANGED <<closed, written, heard, control, pending, storage, checkpoint, process>>

(* A one-shot tailer returns after its sweep; a following one only ends by *)
(* a panic of its thread.  Lines already in the channel stay there.        *)
SourceClose ==
  /\ Running /\ ~closed
  /\ \/ ~follow /\ sent = written /\ UNCHANGED deaths
     \/ follow /\ deaths < MaxDeaths /\ deaths' = deaths + 1
  /\ closed' = TRUE
  /\ UNCHANGED <<sent, written, heard, lineCh, control, pending, storage, checkpoint,
                 follow, crashes>>

-----------------------------------------------------------------------------
(* The select loop. *)

(* filter_map: a line that does not parse is dropped inside the stream and *)
(* leaves no trace in `pending'.                                           *)
DropBad ==
  /\ pc = "select" /\ lineCh # << >> /\ Head(lineCh) \in Bad
  /\ lineCh' = Tail(lineCh)
  /\ UNCHANGED <<source, control, pending, storage, checkpoint, process>>

(* Not the code: a bad line reaches write(). *)
Take_Unchecked ==
  /\ pc = "select" /\ lineCh # << >>
  /\ lineCh' = Tail(lineCh)
  /\ pc' = "write" /\ cur' = Head(lineCh) /\ tbl' = 1
  /\ UNCHANGED <<source, why, pending, storage, checkpoint, process>>

(* The event branch of the select wins. *)
Take ==
  /\ pc = "select" /\ lineCh # << >> /\ Head(lineCh) \notin Bad
  /\ lineCh' = Tail(lineCh)
  /\ pc' = "write" /\ cur' = Head(lineCh) /\ tbl' = 1
  /\ UNCHANGED <<source, why, pending, storage, checkpoint, process>>

StartCommit(reason) == pc' = "commit" /\ tbl' = 1 /\ why' = reason

(* Stream::write: the rows of `cur' go to the open INSERT of each table in *)
(* turn, then commit(false) is called.                                     *)
WriteTable ==
  /\ pc = "write"
  /\ active' = [active EXCEPT ![tbl] = IF tbl \in RowsOf[cur] THEN @ \union {cur} ELSE @]
  /\ rows' = [rows EXCEPT ![tbl] = @ + RowsIn[cur][tbl]]
  /\ \/ tbl < NumTables /\ tbl' = tbl + 1 /\ UNCHANGED <<pc, why>>
     \/ tbl = NumTables /\ StartCommit("event")
  /\ UNCHANGED <<source, lineCh, cur, pending, durable, checkpoint, process>>

(* The ticker branch of the select wins. *)
Tick ==
  /\ pc = "select"
  /\ StartCommit("tick")
  /\ UNCHANGED <<source, lineCh, cur, pending, storage, checkpoint, process>>

(* Not the code: the loop returns without its final commit, or never ends. *)
EndOfStream_Uncommitted ==
  /\ pc = "select" /\ lineCh = << >> /\ closed
  /\ pc' = "done" /\ why' = "end"
  /\ UNCHANGED <<source, lineCh, cur, tbl, pending, storage, checkpoint, process>>

EndOfStream_NoBreak ==
  /\ pc = "select" /\ lineCh = << >> /\ closed
  /\ StartCommit("tick")
  /\ UNCHANGED <<source, lineCh, cur, pending, storage, checkpoint, process>>

(* events.next() returns None: the loop breaks to its final commit(true). *)
EndOfStream ==
  /\ pc = "select" /\ lineCh = << >> /\ closed
  /\ StartCommit("end")
  /\ UNCHANGED <<source, lineCh, cur, pending, storage, checkpoint, process>>

(* Where the loop goes after a tick or after its end. *)
Onward == IF why = "tick" THEN "select" ELSE "done"

(* Not the code: a tick defers too; the limit is checked one row late. *)
MayDefer_Always == rows[tbl] < MaxRows
MayDefer_Late   == why = "event" /\ rows[tbl] <= MaxRows

(* commit(false) may leave an INSERT open while its limits are not reached *)
(* (its age may end it earlier); commit(true) never does.                  *)
MayDefer == why = "event" /\ rows[tbl] < MaxRows

(* The INSERT of table t is ended and acknowledged; the next one is empty. *)
EndInsert(t) ==
  /\ durable' = [durable EXCEPT ![t] = @ \union active[t]]
  /\ active' = [active EXCEPT ![t] = {}]
  /\ rows' = [rows EXCEPT ![t] = 0]

(* Not the code: the event branch forgets the position. *)
AfterCommit_NoPending ==
  /\ tbl' = 1 /\ UNCHANGED pending
  /\ pc' = IF why = "event" THEN "select"
           ELSE IF follow /\ pending # NoPos THEN "save" ELSE Onward

(* What follows the commit of the last table: the event branch remembers   *)
(* the position, the others save it when there is one and a file for it.   *)
AfterCommit ==
  /\ tbl' = 1
  /\ \/ why = "event" /\ pending' = cur /\ pc' = "select"
     \/ why # "event" /\ UNCHANGED pending
        /\ pc' = IF follow /\ pending # NoPos THEN "save" ELSE Onward

(* Not the code: commit() leaves out all tables but the first. *)
CommitTable_FirstOnly ==
  /\ pc = "commit"
  /\ \/ EndInsert(1)
     \/ MayDefer /\ UNCHANGED storage
  /\ AfterCommit
  /\ UNCHANGED <<source, lineCh, cur, why, checkpoint, process>>

(* Stream::commit: one table after the other, each its own INSERT. *)
CommitTable ==
  /\ pc = "commit"
  /\ \/ EndInsert(tbl)
     \/ MayDefer /\ UNCHANGED storage
  /\ \/ tbl < NumTables /\ tbl' = tbl + 1 /\ UNCHANGED <<pc, pending>>
     \/ tbl = NumTables /\ AfterCommit
  /\ UNCHANGED <<source, lineCh, cur, why, checkpoint, process>>

(* checkpoint::save: a temporary file renamed over the old one. *)
Save ==
  /\ pc = "save"
  /\ checkpoint' = pending
  /\ pc' = Onward
  /\ UNCHANGED <<source, lineCh, cur, tbl, why, pending, storage, process>>

-----------------------------------------------------------------------------
(* The process. *)

(* The process stops: a kill, a ClickHouse error that `?' carries out of   *)
(* run(), or the error of another stream (main exits on the first one).    *)
(* Of the rows in an open INSERT any part may have reached the server.     *)
CrashRunner ==
  /\ pc # "down" /\ crashes < MaxCrashes /\ crashes' = crashes + 1
  /\ \E landed \in SUBSET (UNION {{t} \X active[t] : t \in Tables}) :
       durable' = [t \in Tables |->
                     durable[t] \union {l \in active[t] : <<t, l>> \in landed}]
  /\ active' = Empty /\ rows' = NoRows
  /\ lineCh' = << >> /\ pending' = NoPos /\ pc' = "down"
  /\ UNCHANGED <<cur, tbl, why, checkpoint, follow, deaths>>

Crash == CrashRunner /\ UNCHANGED source

(* systemd starts the service again (Restart=always); nobody restarts a    *)
(* one-shot subcommand.                                                    *)
RestartRunner ==
  /\ follow /\ pc = "down"
  /\ pc' = "select"
  /\ UNCHANGED <<lineCh, cur, tbl, why, pending, storage, checkpoint, process>>

(* Not the code: the position of the checkpoint is not used. *)
Restart_FromZero ==
  /\ RestartRunner /\ sent' = 0 /\ closed' = FALSE
  /\ heard' = (checkpoint # NoPos) /\ UNCHANGED written

(* build_tailer: load the checkpoint and read on from the line after it.   *)
(* Without one there is no start position, so nothing is read before the   *)
(* next notification, and then the file from its first line.               *)
Restart ==
  /\ RestartRunner /\ sent' = checkpoint /\ closed' = FALSE
  /\ heard' = (checkpoint # NoPos) /\ UNCHANGED written

-----------------------------------------------------------------------------
RunnerStep == DropBad \/ Take \/ WriteTable \/ Tick \/ EndOfStream \/ CommitTable \/ Save

Next == NodeAppend \/ SourceSend \/ SourceClose \/ RunnerStep \/ Crash \/ Restart

(* The threads and tasks are scheduled; the select picks among its ready   *)
(* branches at random, so a branch that is ready again and again is taken. *)
(* The node may stop writing at any time.                                  *)
Fairness ==
  /\ WF_vars(SourceSend) /\ WF_vars(SourceClose /\ ~follow)
  /\ SF_vars(Take \/ DropBad) /\ SF_vars(Tick) /\ SF_vars(EndOfStream)
  /\ WF_vars(WriteTable) /\ WF_vars(CommitTable) /\ WF_vars(Save)
  /\ WF_vars(Restart)

Spec     == Init /\ [][Next]_vars
FairSpec == Spec /\ Fairness

-----------------------------------------------------------------------------
(* Lines whose rows are all in ClickHouse. *)
StoredLines == {l \in Good : \A t \in RowsOf[l] : l \in durable[t]}

(* Lines that have rows at all (a block without fills has none). *)
Storable == {l \in Good : RowsOf[l] # {}}

(* What the runner promises: restarting at the checkpoint skips nothing.   *)
(* Every parseable line up to the saved position is durable in every table *)
(* it has rows in, whatever await the process stopped at.  (commit(true)   *)
(* before save, pending set after write, one commit per table.)            *)
CheckpointCovered ==
  \A l \in Good : l <= checkpoint => l \in StoredLines

(* README "On restart the indexer resumes from the last checkpoint": a row *)
(* written again after a restart belongs to a line past the checkpoint, so *)
(* the replay never goes below what was saved.                             *)
ReplayAboveCheckpoint ==
  [][\A t \in Tables : \A l \in active'[t] \ active[t] : l > checkpoint]_vars

(* A later save never takes the checkpoint back, over crashes too. *)
CheckpointMonotone == [][checkpoint' >= checkpoint]_vars

(* A stream whose run() has returned Ok left nothing in an open INSERT:    *)
(* every line it was sent is stored, and in the one-shot mode that is the  *)
(* whole file.                                                             *)
DoneMeansStored ==
  pc = "done" => /\ \A l \in Good : l <= sent => l \in StoredLines
                 /\ ~follow => Good \subseteq StoredLines

(* The rows that one process can lose by stopping are bounded, however     *)
(* many commits were deferred: an open INSERT has fewer than MaxRows rows, *)
(* plus those of the one line that is being written or whose commit(false) *)
(* is under way (its rows are written before the limit is looked at).      *)
BufferBounded ==
  \A t \in Tables :
    rows[t] < MaxRows + IF pc = "write" \/ (pc = "commit" /\ why = "event")
                        THEN RowsIn[cur][t] ELSE 0

(* The runner implements the promise it makes to its operator: a line is   *)
(* stored once all its rows are in ClickHouse, and the resume point is the *)
(* checkpoint file.  Covers stops inside write, commit and save, and the   *)
(* tables that were committed when a later one was not.                    *)
Promise == INSTANCE AtLeastOnce WITH
             Good <- Storable, stored <- StoredLines \intersect Storable, resume <- checkpoint
ImplementsAtLeastOnce == Promise!Spec

-----------------------------------------------------------------------------
(* Why CheckpointCovered holds: an invariant that every step preserves.    *)

(* Last line taken out of the channel by this process. *)
Taken == sent - Len(lineCh)

(* The channel holds the consecutive lines Taken+1 .. sent. *)
ChannelInOrder ==
  /\ Len(lineCh) <= sent
  /\ \A i \in 1 .. Len(lineCh) : lineCh[i] = Taken + i
  /\ pc = "down" => lineCh = << >>

(* Rows of line l that are still to be written to table t. *)
StillToWrite(l, t) == pc = "write" /\ l = cur /\ t >= tbl

(* Nothing taken is lost while the process runs: each row is in the open   *)
(* INSERT of its table or in ClickHouse.                                   *)
TakenIsHandled ==
  pc # "down" =>
    \A l \in Good : l <= Taken =>
      \A t \in RowsOf[l] : StillToWrite(l, t) \/ l \in active[t] \union durable[t]

(* The line in hand is the last one taken. *)
CurrentIsTaken ==
  pc = "write" \/ (pc = "commit" /\ why = "event") =>
    cur = Taken /\ cur > checkpoint

(* A forced commit leaves nothing open behind it. *)
ForcedCommitEmpties ==
  /\ pc = "commit" /\ why # "event" => \A t \in Tables : t < tbl => active[t] = {}
  /\ pc \in {"save", "done"} => \A t \in Tables : active[t] = {}
  /\ pc = "save" => why # "event" /\ pending # NoPos

(* The runner stands at or past the checkpoint, and so does `pending'. *)
PositionsOrdered ==
  /\ pc # "down" => checkpoint <= Taken /\ pending <= Taken
  /\ pending # NoPos => checkpoint <= pending /\ pc # "down"

(* The loop ends on an empty channel that no one sends to any more, a      *)
(* one-shot one behind the last line of the file.                          *)
EndIsFinal ==
  /\ (why = "end" /\ pc \in {"commit", "save"}) \/ pc = "done" => lineCh = << >> /\ closed
  /\ pc # "down" /\ closed /\ ~follow => sent = written
  /\ ~follow => written = NumLines

IInv ==
  /\ TypeOK
  /\ ChannelInOrder
  /\ TakenIsHandled
  /\ CurrentIsTaken
  /\ ForcedCommitEmpties
  /\ PositionsOrdered
  /\ EndIsFinal
  /\ CheckpointCovered

-----------------------------------------------------------------------------
(* The lines written so far that parse, and the last of them, which is the *)
(* furthest a checkpoint can get.                                          *)
GoodWritten == {l \in Good : l <= written}
LastGood    == CHOOSE l \in GoodWritten \union {NoPos} : \A m \in GoodWritten : m <= l

(* With finitely many stops, and no panic of the tailer thread (which ends *)
(* the stream), every good line is stored in the end and the checkpoint    *)
(* reaches the last of them, although ticks compete with events in the     *)
(* select and although lines after it may be dropped as bad.  It is        *)
(* promised only to a tailer that has cause to read: after a stop before   *)
(* the first save the lines already in the file wait for the node's next   *)
(* append, and for ever if there is none (mod.rs:145).                     *)
EventuallyCheckpointed ==
  <>[](follow /\ deaths = 0 /\ heard =>
         checkpoint = LastGood /\ GoodWritten \subseteq StoredLines)

(* A one-shot subcommand ends (or was stopped), ticks notwithstanding. *)
OneShotEnds == follow \/ <>(pc \in {"done", "down"})
=============================================================================
