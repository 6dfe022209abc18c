------------------------------- MODULE Process -------------------------------
(***************************************************************************)
(* The service (src/src/main.rs, deploy/hyperliquid-node-indexer.service)  *)
(* and its checkpoint files (src/src/checkpoint.rs): streams that one task *)
(* polls by try_join!, each with a file of its own, the stops of the       *)
(* process, losses of power, and systemd's restarts.                       *)
(*                                                                         *)
(* A stream is what StreamRunner says of it, cut down to the position it   *)
(* has handled and what is stored; in exchange a save is taken apart into  *)
(* its system calls.  They are synchronous: from the end of a commit to    *)
(* the rename no other stream takes a step, but the process can stop       *)
(* between any two of them.  The directory as programs see it is `file';   *)
(* what a loss of power may leave of it is `survives'.  The node appends   *)
(* to one file per stream.  A stream without a start position reads it from*)
(* its beginning, but only once the node appends to it again: that it does *)
(* is taken for granted here, and modelled in StreamRunner.  Several files *)
(* are the subject of Indexer.                                             *)
(***************************************************************************)
EXTENDS Integers

CONSTANTS
  NumStreams,   \* streams of try_join!, polled first in the order 1, 2, ...
  NumLines,     \* lines of each stream (bound)
  Ordered,      \* the file system writes a file's data before its renaming
  MaxStops,     \* kills and errors of a stream (bound)
  MaxPanics,    \* panics of tailer threads (bound)
  MaxLosses     \* losses of power (bound)

Streams   == 1 .. NumStreams
NoPos     == 0
Torn      == -1                  \* an empty file: no Position can be read
Positions == 0 .. NumLines       \* a Position, or NoPos for no file
Contents  == Positions \union {Torn}

ASSUME ProcessAssumption ==
  /\ NumStreams \in Nat \ {0} /\ NumLines \in Nat \ {0} /\ Ordered \in BOOLEAN
  /\ MaxStops \in Nat /\ MaxPanics \in Nat /\ MaxLosses \in Nat

VARIABLES
  pc,         \* pc[s]: where run() of stream s is
  ending,     \* ending[s]: the loop of s has ended, this is its last commit
  handled,    \* handled[s]: the last line read by this process, or its start
  pending,    \* pending[s]: the position the next save of s writes, or NoPos
  stored,     \* stored[s]: the lines up to it are in ClickHouse
  file,       \* file[s]: content of the checkpoint file of s
  survives,   \* survives[s]: what a loss of power can make of file[s]
  stops, panics, losses

memory   == <<pc, ending, handled, pending>>
disk     == <<file, survives>>
faults   == <<stops, panics, losses>>
procVars == <<memory, stored, disk, faults>>

Saving == {"create", "write", "rename"}

ProcessTypeOK ==
  /\ pc \in [Streams -> {"down", "load", "select", "commit", "ended"} \union Saving]
  /\ ending \in [Streams -> BOOLEAN]
  /\ handled \in [Streams -> Positions] /\ pending \in [Streams -> Positions]
  /\ stored \in [Streams -> Positions]
  /\ file \in [Streams -> Contents] /\ survives \in [Streams -> SUBSET Contents]
  /\ \A s \in Streams : file[s] \in survives[s]
  /\ \A r, s \in Streams : pc[r] \in Saving /\ pc[s] \in Saving => r = s
  /\ stops \in 0 .. MaxStops /\ panics \in 0 .. MaxPanics /\ losses \in 0 .. MaxLosses

All(x) == [s \in Streams |-> x]

ProcessInit ==
  /\ pc = All("load") /\ ending = All(FALSE)
  /\ handled = All(NoPos) /\ pending = All(NoPos) /\ stored = All(NoPos)
  /\ file = All(NoPos) /\ survives = All({NoPos})
  /\ stops = 0 /\ panics = 0 /\ losses = 0

-----------------------------------------------------------------------------
(* Not the code: every stream is spawned as a task of its own. *)
HasTask_Spawned(s) == TRUE

(* One task: a stream steps while no other is inside save(). *)
HasTask(s) == \A r \in Streams \ {s} : pc[r] \notin Saving

Goto(s, place) == pc' = [pc EXCEPT ![s] = place]

(* The process is gone, with all its streams. *)
AllDown == pc' = All("down") /\ ending' = All(FALSE) /\ pending' = All(NoPos)

(* The first poll reaches the streams in the order of try_join!. *)
FirstPoll(s) == \A r \in Streams : r < s => pc[r] # "load"

(* build_tailer: no file is no start position. *)
Load(s) ==
  /\ pc[s] = "load" /\ HasTask(s) /\ FirstPoll(s)
  /\ file[s] # Torn
  /\ handled' = [handled EXCEPT ![s] = file[s]]
  /\ Goto(s, "select")
  /\ UNCHANGED <<ending, pending, stored, disk, faults>>

(* A file that does not parse, or cannot be opened this time: the error    *)
(* ends all streams.                                                       *)
LoadFails(s) ==
  /\ pc[s] = "load" /\ HasTask(s) /\ FirstPoll(s)
  /\ IF file[s] = Torn THEN UNCHANGED stops ELSE stops < MaxStops /\ stops' = stops + 1
  /\ AllDown
  /\ UNCHANGED <<handled, stored, disk, panics, losses>>

(* The select: a line is written; commit(false) may end the INSERTs. *)
Handle(s) ==
  /\ pc[s] = "select" /\ HasTask(s) /\ handled[s] < NumLines
  /\ handled' = [handled EXCEPT ![s] = @ + 1]
  /\ pending' = [pending EXCEPT ![s] = handled[s] + 1]
  /\ \/ UNCHANGED stored
     \/ stored[s] <= handled[s] /\ stored' = [stored EXCEPT ![s] = handled[s] + 1]
  /\ UNCHANGED <<pc, ending, disk, faults>>

(* The select: the ticker. *)
Tick(s) ==
  /\ pc[s] = "select" /\ HasTask(s)
  /\ Goto(s, "commit")
  /\ UNCHANGED <<ending, handled, pending, stored, disk, faults>>

(* The tailer thread panicked and the channel is empty: the loop breaks.   *)
EndOfStream(s) ==
  /\ pc[s] = "select" /\ HasTask(s) /\ panics < MaxPanics
  /\ panics' = panics + 1
  /\ Goto(s, "commit") /\ ending' = [ending EXCEPT ![s] = TRUE]
  /\ UNCHANGED <<handled, pending, stored, disk, stops, losses>>

Onward(s) == IF ending[s] THEN "ended" ELSE "select"

(* commit(true) returns; what follows it, up to the rename, is one poll.   *)
Commit(s) ==
  /\ pc[s] = "commit" /\ HasTask(s)
  /\ stored' = [stored EXCEPT ![s] = IF pending[s] > @ THEN pending[s] ELSE @]
  /\ Goto(s, IF pending[s] # NoPos THEN "create" ELSE Onward(s))
  /\ UNCHANGED <<ending, handled, pending, disk, faults>>

-----------------------------------------------------------------------------
(* save(), one system call at a time. *)

(* What a loss of power may leave once new data has its name: what it      *)
(* might have left before, the new data, or a name without data.           *)
Renamed(s, p) == survives[s] \union {p} \union (IF Ordered THEN {} ELSE {Torn})

(* Not the code: File::create on the checkpoint itself, then the data.     *)
SaveCreate_InPlace(s) ==
  /\ pc[s] = "create" /\ Goto(s, "write")
  /\ file' = [file EXCEPT ![s] = Torn]
  /\ survives' = [survives EXCEPT ![s] = @ \union {Torn}]
  /\ UNCHANGED <<ending, handled, pending, stored, faults>>

(* NamedTempFile::new_in: a file of another name, which load() never opens. *)
SaveCreate(s) ==
  /\ pc[s] = "create" /\ Goto(s, "write")
  /\ UNCHANGED <<ending, handled, pending, stored, disk, faults>>

(* serde_json::to_writer on it. *)
SaveWrite(s) ==
  /\ pc[s] = "write" /\ Goto(s, "rename")
  /\ UNCHANGED <<ending, handled, pending, stored, disk, faults>>

(* persist: rename over the old file, without fsync. *)
SaveRename(s) ==
  /\ pc[s] = "rename" /\ Goto(s, Onward(s))
  /\ file' = [file EXCEPT ![s] = pending[s]]
  /\ survives' = [survives EXCEPT ![s] = Renamed(s, pending[s])]
  /\ UNCHANGED <<ending, handled, pending, stored, faults>>

(* The kernel writes its caches back. *)
Flush(s) ==
  /\ survives[s] # {file[s]}
  /\ survives' = [survives EXCEPT ![s] = {file[s]}]
  /\ UNCHANGED <<memory, stored, file, faults>>

-----------------------------------------------------------------------------
(* The process. *)

Up == \E s \in Streams : pc[s] # "down"

(* A kill at any moment; a save may be half done. *)
Kill ==
  /\ Up /\ stops < MaxStops /\ stops' = stops + 1
  /\ AllDown
  /\ UNCHANGED <<handled, stored, disk, panics, losses>>

(* Not the code: the error of a stream ends that stream only. *)
StreamFails_Alone(s) ==
  /\ pc[s] \in {"select", "commit"} \union Saving /\ HasTask(s)
  /\ stops < MaxStops /\ stops' = stops + 1
  /\ Goto(s, "down") /\ ending' = [ending EXCEPT ![s] = FALSE]
  /\ pending' = [pending EXCEPT ![s] = NoPos]
  /\ UNCHANGED <<handled, stored, disk, panics, losses>>

(* ClickHouse or the disk refuses: try_join! drops the other streams at    *)
(* the await they are at, and main exits.                                  *)
StreamFails(s) ==
  /\ pc[s] \in {"select", "commit"} \union Saving /\ HasTask(s)
  /\ stops < MaxStops /\ stops' = stops + 1
  /\ AllDown
  /\ UNCHANGED <<handled, stored, disk, panics, losses>>

(* All streams have ended with Ok, so main returns. *)
Exit ==
  /\ \A s \in Streams : pc[s] = "ended"
  /\ AllDown
  /\ UNCHANGED <<handled, stored, disk, faults>>

PowerLoss ==
  /\ losses < MaxLosses /\ losses' = losses + 1
  /\ file' \in [Streams -> Contents] /\ \A s \in Streams : file'[s] \in survives[s]
  /\ survives' = [s \in Streams |-> {file'[s]}]
  /\ AllDown
  /\ UNCHANGED <<handled, stored, stops, panics>>

(* Restart=always *)
Restart ==
  /\ ~Up /\ pc' = All("load")
  /\ UNCHANGED <<ending, handled, pending, stored, disk, faults>>

-----------------------------------------------------------------------------
Save(s)   == SaveCreate(s) \/ SaveWrite(s) \/ SaveRename(s)
Event(s)  == Load(s) \/ LoadFails(s) \/ Commit(s) \/ Save(s)

ProcessNext ==
  \/ \E s \in Streams :
       \/ Load(s) \/ LoadFails(s) \/ Handle(s) \/ Tick(s) \/ EndOfStream(s)
       \/ Commit(s) \/ SaveCreate(s) \/ SaveWrite(s) \/ SaveRename(s)
       \/ Flush(s) \/ StreamFails(s)
  \/ Kill \/ Exit \/ PowerLoss \/ Restart

ProcessSpec == ProcessInit /\ [][ProcessNext]_procVars

(* A stream that can go on does; the select serves both branches; systemd  *)
(* restarts.  Nothing makes the kernel flush.                              *)
ProcessFairness ==
  /\ \A s \in Streams : /\ SF_procVars(Event(s))
                        /\ SF_procVars(Handle(s)) /\ SF_procVars(Tick(s))
  /\ WF_procVars(Exit) /\ WF_procVars(Restart)

ProcessFairSpec == ProcessSpec /\ ProcessFairness

-----------------------------------------------------------------------------
(* The oldest position a restart may come back to: an empty file and no    *)
(* file are as far back as it goes.                                        *)
PosIn(c) == IF c = Torn THEN NoPos ELSE c

OldestIn(contents) ==
  PosIn(CHOOSE c \in contents : \A d \in contents : PosIn(c) <= PosIn(d))

Resume(s) == OldestIn(survives[s])

Promise(s) == INSTANCE AtLeastOnce WITH
                Good <- 1 .. NumLines, stored <- 1 .. stored[s], resume <- Resume(s)

(* README: "On restart the indexer resumes from the last checkpoint".  The *)
(* promise of AtLeastOnce for every stream, with the resume point that     *)
(* kills, errors of other streams, panics and losses of power leave at the *)
(* least: no step of one stream takes another's back, and no instant of a  *)
(* save leaves a file to come back to that is worse than the old one.      *)
ImplementsPromise ==
  /\ \A s \in Streams : Promise(s)!Init
  /\ [][\A s \in Streams : [Promise(s)!Next]_<<stored[s], Resume(s)>>]_procVars

(* README: "On restart the indexer resumes from the last checkpoint".      *)
(* After the last stop every stream reads on until it has saved its last   *)
(* line, unless a panic ended it: the service is never left restarting for *)
(* ever, and no stream stays down while others run.                        *)
ComesBack == <>[](\A s \in Streams : pc[s] = "ended" \/ file[s] = NumLines)
=============================================================================
