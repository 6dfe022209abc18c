------------------------------- MODULE Tailer -------------------------------
(***************************************************************************)
(* The tailer of one stream (src/crates/tailer): the files the node writes *)
(* one after the other, FilesCollector, the file watcher and the thread    *)
(* that sweeps the collected files once and then follows notifications.    *)
(* (A one-shot subcommand sweeps one file from its beginning and ends; the *)
(* runner's side of that is in StreamRunner.)                              *)
(*                                                                         *)
(* Files are numbered in the order the node creates them; line k of file f *)
(* has the number Id(f, k), which grows in the order the node writes, so a *)
(* Position (file and line) is a number too and 0 is "none".  How bytes    *)
(* become lines is the subject of TailReader.                              *)
(***************************************************************************)
EXTENDS Integers, Sequences, FiniteSets, SequencesExt

CONSTANTS
  NumFiles,       \* files the node ever creates (bound)
  MaxLines,       \* lines per file (bound)
  PathOrder,      \* PathOrder[f]: rank of f's path in the collector's sort
  RawIsCanonical, \* FALSE: data_dir is relative or leads over a symlink
  LineCap,        \* capacity of the line channel (4096 in the code)
  NotifyCap,      \* events the watcher can hold before one is lost
  NewDirs,        \* files that the node begins in a directory it makes for them
  MaxErrors,      \* open and read errors (bound)
  MaxPrunes       \* files the node ever deletes (bound)

Files    == 1 .. NumFiles
NoPos    == 0
NumLines == NumFiles * MaxLines
Id(f, k) == (f - 1) * MaxLines + k
FileOf(p) == ((p - 1) \div MaxLines) + 1
LineOf(p) == ((p - 1) % MaxLines) + 1
Untracked == -1

ASSUME TailerAssumption ==
  /\ NumFiles \in Nat \ {0} /\ MaxLines \in Nat \ {0}
  /\ PathOrder \in [Files -> Files] /\ \A f, g \in Files : PathOrder[f] = PathOrder[g] => f = g
  /\ RawIsCanonical \in BOOLEAN
  /\ LineCap \in Nat \ {0} /\ NotifyCap \in Nat /\ NewDirs \subseteq Files
  /\ MaxErrors \in Nat /\ MaxPrunes \in Nat

VARIABLES
  \* the node
  oldest, newest,  \* files oldest..newest exist; newest is being written
  size,            \* size[f]: lines in f
  prunes,
  \* the watcher
  watching,        \* the directory is watched
  unseen,          \* files in directories that are not watched yet
  notifyQ,         \* Modify(Data) events not yet received by the thread
  dropped,         \* files whose latest event did not fit
  \* the thread
  phase,           \* "collect", "watch", "sweep", "read", "wait"
  start,           \* start_position: a Position or NoPos
  todo,            \* collected files still to be swept
  sweeping,        \* the initial sweep is not over
  hand, at,        \* file being read and the lines of it read so far
  tails,           \* tails[f]: lines read of a file in the map, or Untracked
  errors,
  sent,            \* sent[f]: last line of f this process has sent (history)
  lineCh           \* lines sent and not yet taken by the runner

node    == <<oldest, newest, size, prunes>>
watcher == <<watching, unseen, notifyQ, dropped>>
thread  == <<phase, start, todo, sweeping, hand, at, tails, errors, sent>>
vars    == <<node, watcher, thread, lineCh>>

Existing == oldest .. newest

TypeOK ==
  /\ oldest \in Files /\ newest \in oldest .. NumFiles
  /\ size \in [Files -> 0 .. MaxLines] /\ prunes \in 0 .. MaxPrunes
  /\ watching \in BOOLEAN /\ unseen \subseteq NewDirs /\ dropped \subseteq Files
  /\ notifyQ \in Seq(Files) /\ Len(notifyQ) <= NotifyCap
  /\ phase \in {"collect", "watch", "sweep", "read", "wait"}
  /\ start \in 0 .. NumLines
  /\ todo \subseteq Files /\ sweeping \in BOOLEAN
  /\ hand \in Files /\ at \in 0 .. MaxLines
  /\ tails \in [Files -> 0 .. MaxLines \union {Untracked}]
  /\ sent \in [Files -> 0 .. MaxLines \union {Untracked}]
  /\ errors \in 0 .. MaxErrors
  /\ lineCh \in Seq(1 .. NumLines) /\ Len(lineCh) <= LineCap

NoTails == [f \in Files |-> Untracked]

(* Lines that the node has written. *)
Written == {p \in 1 .. NumLines : LineOf(p) <= size[FileOf(p)]}

(* The node may have been writing for a while when the indexer starts. *)
InitNode ==
  /\ oldest = 1 /\ newest \in Files /\ prunes = 0
  /\ size \in [Files -> 0 .. MaxLines]
  /\ \A f \in Files : f < newest => size[f] > 0
  /\ \A f \in Files : f > newest => size[f] = 0

(* A process that begins at a start position. *)
InitThread(from) ==
  /\ watching = FALSE /\ unseen = {} /\ notifyQ = << >> /\ dropped = {}
  /\ phase = "collect" /\ start = from /\ todo = {} /\ sweeping = TRUE
  /\ hand = 1 /\ at = 0 /\ tails = NoTails /\ errors = 0 /\ sent = NoTails
  /\ lineCh = << >>

Init == InitNode /\ \E from \in {NoPos} \union Written : InitThread(from)

-----------------------------------------------------------------------------
(* The node. *)

(* inotify reports a change below the watched directory, once the watcher *)
(* has got to the file's own directory; an event equal to the last one in  *)
(* the queue is merged with it, and one that finds the queue full is lost. *)
Notify(f) ==
  LET heard  == watching /\ f \notin unseen
      merged == notifyQ # << >> /\ Last(notifyQ) = f
      fits   == merged \/ Len(notifyQ) < NotifyCap
  IN  /\ notifyQ' = IF heard /\ fits /\ ~merged THEN Append(notifyQ, f) ELSE notifyQ
      /\ dropped' = CASE ~heard -> dropped
                     [] heard /\ fits -> dropped \ {f}
                     [] OTHER -> dropped \union {f}
      /\ UNCHANGED <<watching, unseen>>

NodeAppend ==
  /\ newest >= oldest /\ size[newest] < MaxLines
  /\ size' = [size EXCEPT ![newest] = @ + 1]
  /\ Notify(newest)
  /\ UNCHANGED <<oldest, newest, prunes, thread, lineCh>>

(* The node goes on in a new file, in a directory of its own if a new day  *)
(* begins.  Create events are no Modify(Data) and the thread ignores them. *)
NodeRotate ==
  /\ newest < NumFiles /\ size[newest] > 0
  /\ newest' = newest + 1
  /\ unseen' = unseen \union ({newest + 1} \intersect NewDirs)
  /\ UNCHANGED <<oldest, size, prunes, watching, notifyQ, dropped, thread, lineCh>>

(* The watcher learns of a new directory and watches it as well; what was  *)
(* written there before goes unreported.                                   *)
DirWatched ==
  /\ watching /\ unseen # {}
  /\ \E f \in unseen : unseen' = unseen \ {f}
  /\ UNCHANGED <<node, watching, notifyQ, dropped, thread, lineCh>>

(* The operator deletes the oldest finished file. *)
NodePrune ==
  /\ oldest < newest /\ prunes < MaxPrunes
  /\ oldest' = oldest + 1 /\ prunes' = prunes + 1
  /\ UNCHANGED <<newest, size, watcher, thread, lineCh>>

-----------------------------------------------------------------------------
(* Starting: FilesCollector::new or ::single, then the watcher. *)

(* Not the code: the file of the position itself is passed over. *)
SeekTo_After(files, p) == {f \in files : PathOrder[f] > PathOrder[FileOf(p)]}

(* The collected files from the cursor of the collector on.  seek_to       *)
(* compares the collected path with the path of the Position, which        *)
(* read_and_emit made canonical, and falls back to the first file.         *)
SeekTo(files, p) ==
  IF RawIsCanonical /\ FileOf(p) \in files
  THEN {f \in files : PathOrder[f] >= PathOrder[FileOf(p)]} ELSE files

(* Without a start position the thread does not sweep at all. *)
Collect ==
  /\ phase = "collect"
  /\ todo' = IF start = NoPos THEN {} ELSE SeekTo(Existing, start)
  /\ phase' = "watch"
  /\ UNCHANGED <<node, watcher, start, sweeping, hand, at, tails, errors, sent, lineCh>>

(* RecursiveMode::Recursive: every directory there is now. *)
Watch ==
  /\ phase = "watch"
  /\ watching' = TRUE /\ unseen' = {} /\ phase' = "sweep"
  /\ UNCHANGED <<node, notifyQ, dropped, start, todo, sweeping, hand, at, tails, errors, sent, lineCh>>

-----------------------------------------------------------------------------
(* The thread. *)

Error == errors < MaxErrors /\ errors' = errors + 1

(* Not the code: the checkpoint only chooses the file. *)
SweepFrom_Zero(f) == 0

(* The line a swept file is read from: the position of the checkpoint if   *)
(* it is the file of the checkpoint, its beginning otherwise.              *)
SweepFrom(f) == IF start # NoPos /\ f = FileOf(start) THEN LineOf(start) ELSE 0

(* Files are swept in the order of the collector's sort. *)
NextFile(f) == f \in todo /\ \A g \in todo : PathOrder[f] <= PathOrder[g]

SweepOpen ==
  /\ phase = "sweep"
  /\ \E f \in Existing :
       NextFile(f) /\ todo' = todo \ {f} /\ hand' = f /\ at' = SweepFrom(f)
  /\ phase' = "read"
  /\ UNCHANGED <<node, watcher, start, sweeping, tails, errors, sent, lineCh>>

(* open or seek fails: the file is left out of the map and of the sweep. *)
SweepSkip ==
  /\ phase = "sweep"
  /\ \E f \in Files : /\ NextFile(f) /\ todo' = todo \ {f}
                       /\ IF f \in Existing THEN Error ELSE UNCHANGED errors
  /\ UNCHANGED <<node, watcher, phase, start, sweeping, hand, at, tails, sent, lineCh>>

SweepDone ==
  /\ phase = "sweep" /\ todo = {}
  /\ sweeping' = FALSE /\ phase' = "wait"
  /\ UNCHANGED <<node, watcher, start, todo, hand, at, tails, errors, sent, lineCh>>

(* Not the code: a new file is read from its end. *)
TailOf_End(f) == IF tails[f] = Untracked THEN size[f] - 1 ELSE tails[f]

TakeEvent == notifyQ' = Tail(notifyQ)

(* How far a file has been read; a new one is read from its beginning. *)
TailOf(f) == IF tails[f] = Untracked THEN 0 ELSE tails[f]

(* A notification for a file in the map, or for one that is opened now. *)
Notified ==
  /\ phase = "wait" /\ notifyQ # << >>
  /\ LET f == Head(notifyQ) IN
       /\ tails[f] # Untracked \/ f \in Existing
       /\ hand' = f
       /\ at' = TailOf(f)
       /\ tails' = [tails EXCEPT ![f] = TailOf(f)]
  /\ TakeEvent /\ phase' = "read"
  /\ UNCHANGED <<node, watching, unseen, dropped, start, todo, sweeping, errors, sent, lineCh>>

(* The file of the notification cannot be opened: the event is used up. *)
NotifiedSkip ==
  /\ phase = "wait" /\ notifyQ # << >> /\ tails[Head(notifyQ)] = Untracked
  /\ IF Head(notifyQ) \in Existing THEN Error ELSE UNCHANGED errors
  /\ TakeEvent
  /\ UNCHANGED <<node, watching, unseen, dropped, phase, start, todo, sweeping, hand, at, tails, sent, lineCh>>

(* Not the code: an unbounded channel. *)
HasRoom_Always == TRUE

HasRoom == Len(lineCh) < LineCap

(* read_and_emit sends the next line; it waits while the channel is full.  *)
Emit ==
  /\ phase = "read" /\ at < size[hand] /\ HasRoom
  /\ at' = at + 1
  /\ lineCh' = Append(lineCh, Id(hand, at + 1))
  /\ sent' = [sent EXCEPT ![hand] = at + 1]
  /\ UNCHANGED <<node, watcher, phase, start, todo, sweeping, hand, tails, errors>>

Back == phase' = IF sweeping THEN "sweep" ELSE "wait"

(* Not the code: the swept file is forgotten. *)
ReadEnd_Forgotten ==
  /\ phase = "read" /\ at >= size[hand] /\ Back
  /\ tails' = IF sweeping THEN tails ELSE [tails EXCEPT ![hand] = at]
  /\ UNCHANGED <<node, watcher, start, todo, sweeping, hand, at, errors, sent, lineCh>>

(* Not the code: a full channel ends the pass, the next event goes on. *)
ReadEnd_Full ==
  /\ phase = "read" /\ (at >= size[hand] \/ ~HasRoom)
  /\ tails' = [tails EXCEPT ![hand] = at] /\ Back
  /\ UNCHANGED <<node, watcher, start, todo, sweeping, hand, at, errors, sent, lineCh>>

(* End of file: a swept file enters the map now, a notified one is in it.  *)
ReadEnd ==
  /\ phase = "read" /\ at >= size[hand]
  /\ tails' = [tails EXCEPT ![hand] = at] /\ Back
  /\ UNCHANGED <<node, watcher, start, todo, sweeping, hand, at, errors, sent, lineCh>>

(* A read error ends the pass: a swept file does not enter the map, a      *)
(* notified one stays in it with the lines it got to.                      *)
ReadError ==
  /\ phase = "read" /\ Error /\ Back
  /\ tails' = IF sweeping THEN tails ELSE [tails EXCEPT ![hand] = at]
  /\ UNCHANGED <<node, watcher, start, todo, sweeping, hand, at, sent, lineCh>>

-----------------------------------------------------------------------------
(* The runner takes a line. *)
Consume ==
  /\ lineCh # << >> /\ lineCh' = Tail(lineCh)
  /\ UNCHANGED <<node, watcher, thread>>

NodeStep   == NodeAppend \/ NodeRotate \/ NodePrune
ThreadStep == \/ Collect \/ Watch
              \/ SweepOpen \/ SweepSkip \/ SweepDone
              \/ Notified \/ NotifiedSkip \/ Emit \/ ReadEnd \/ ReadError

Next == NodeStep \/ DirWatched \/ ThreadStep \/ Consume

Spec == Init /\ [][Next]_vars

-----------------------------------------------------------------------------
(* No lost wakeup.  A tracked file with unread lines is being read or has  *)
(* an event on the way as long as the thread runs, unless the watcher      *)
(* itself lost it or a read failed.  (The watcher is registered before the *)
(* sweep, an event is taken off the queue before the file is read.)        *)
NoLostWakeup ==
  \A f \in Files :
    watching /\ errors = 0 /\ tails[f] # Untracked /\ tails[f] < size[f] /\ f \notin dropped
    => (phase = "read" /\ hand = f) \/ f \in ToSet(notifyQ)

(* Within one process a file is sent in order and every line once, unless  *)
(* a read failed: neither the sweep nor a first notification repeats or    *)
(* skips what the other has sent.  (A process that starts has sent none.)  *)
SentOnce ==
  [][\A f \in Files : sent'[f] \notin {sent[f], Untracked} /\ errors = 0 =>
       sent'[f] = IF sent[f] = Untracked THEN SweepFrom(f) + 1 ELSE sent[f] + 1]_vars
=============================================================================
