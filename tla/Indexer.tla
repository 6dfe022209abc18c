------------------------------- MODULE Indexer -------------------------------
(***************************************************************************)
(* One stream end to end: the node's files, the tailer thread (Tailer),    *)
(* the line channel, the runner with its tables and checkpoint             *)
(* (StreamRunner), stops of the process and systemd's restarts             *)
(* (deploy/hyperliquid-node-indexer.service).                              *)
(*                                                                         *)
(* A restarted process loads the checkpoint, collects the files and only   *)
(* then registers the watcher; the node goes on writing meanwhile.         *)
(***************************************************************************)
EXTENDS Tailer

CONSTANTS
  MaxRows,      \* max_rows: rows of an open INSERT at which commit() ends it
  MaxCrashes,   \* how often the process may stop (bound)
  CalmStart     \* TRUE: the node does not rotate between collect and watch

ASSUME IndexerAssumption ==
  /\ MaxRows \in Nat \ {0} /\ MaxCrashes \in Nat /\ CalmStart \in BOOLEAN

VARIABLES
  follow,       \* always TRUE: a one-shot subcommand has no checkpoint
  pc, cur, tbl, why, pending, active, rows, durable, checkpoint, crashes,
  owed          \* lines written while a checkpoint existed (history)

runner  == <<follow, pc, cur, tbl, why, pending, active, rows, durable, checkpoint, crashes>>
allVars == <<vars, runner, owed>>

(* A following thread ends only by a panic, which is left to StreamRunner. *)
ThreadGone == phase = "gone"

(* The runner of StreamRunner on the tailer's channel, with one table, one *)
(* row a line and no bad lines (StreamRunner has several).  Its abstract   *)
(* source is not used: the thread of Tailer stands for it and never ends   *)
(* by itself.                                                              *)
R == INSTANCE StreamRunner WITH
       NumLines <- NumLines, Bad <- {}, NumTables <- 1,
       RowsIn <- [l \in 1 .. NumLines |-> [t \in 1 .. 1 |-> 1]], MaxDeaths <- 0,
       sent <- at, closed <- ThreadGone, written <- size[newest], heard <- watching,
       deaths <- errors

IndexerTypeOK ==
  /\ TypeOK
  /\ pc \in {"select", "write", "commit", "save", "down"}
  /\ {cur, pending, checkpoint} \subseteq 0 .. NumLines
  /\ why \in {"event", "tick"} /\ tbl = 1 /\ crashes \in 0 .. MaxCrashes
  /\ active[1] \subseteq Written /\ durable[1] \subseteq Written
  /\ rows[1] \in Nat
  /\ owed \subseteq Written

IndexerInit ==
  /\ InitNode /\ InitThread(NoPos) /\ follow = TRUE
  /\ pc = "select" /\ cur = 0 /\ tbl = 1 /\ why = "event" /\ pending = NoPos
  /\ active = R!Empty /\ rows = R!NoRows /\ durable = R!Empty
  /\ checkpoint = NoPos /\ crashes = 0
  /\ owed = {}

Alive == pc # "down"

-----------------------------------------------------------------------------
(* The node, which never waits for the indexer. *)
Append1 ==
  /\ NodeAppend
  /\ owed' = IF checkpoint = NoPos THEN owed
             ELSE owed \union {Id(newest, size[newest] + 1)}
  /\ UNCHANGED runner

Rotate ==
  /\ NodeRotate
  /\ CalmStart => phase # "watch"
  /\ UNCHANGED <<runner, owed>>

Prune == NodePrune /\ UNCHANGED <<runner, owed>>

WatchNewDir == DirWatched /\ UNCHANGED <<runner, owed>>

(* The tailer thread of a process that is up. *)
TailerStep == Alive /\ ThreadStep /\ UNCHANGED <<runner, owed>>

(* The task that runs the select loop.  It takes lines from the channel    *)
(* and begins once the tailer's run() has returned.                        *)
RunnerStep ==
  /\ phase \notin {"collect", "watch"}
  /\ UNCHANGED <<node, watcher, thread, crashes, owed>>
  /\ R!RunnerStep

(* A stop takes the thread, the channel and the watcher with it. *)
Stop ==
  /\ R!CrashRunner
  /\ watching' = FALSE /\ unseen' = {} /\ notifyQ' = << >> /\ dropped' = {}
  /\ UNCHANGED <<node, thread, owed>>

(* systemd starts the process: load the checkpoint, collect, watch. *)
Start ==
  /\ R!RestartRunner
  /\ phase' = "collect" /\ start' = checkpoint /\ todo' = {} /\ sweeping' = TRUE
  /\ hand' = 1 /\ at' = 0 /\ tails' = NoTails /\ sent' = NoTails
  /\ UNCHANGED <<node, watcher, errors, owed>>

IndexerNext ==
  \/ Append1 \/ Rotate \/ Prune \/ WatchNewDir
  \/ TailerStep \/ RunnerStep \/ Stop \/ Start

IndexerSpec == IndexerInit /\ [][IndexerNext]_allVars

(* Nothing here but the node and the stops may stay away for ever. *)
IndexerFairness ==
  /\ WF_allVars(TailerStep) /\ WF_allVars(Start)
  /\ SF_allVars(RunnerStep /\ R!Take) /\ SF_allVars(RunnerStep /\ R!Tick)
  /\ WF_allVars(RunnerStep /\ pc # "select")

IndexerFairSpec == IndexerSpec /\ IndexerFairness

-----------------------------------------------------------------------------
(* The part of the promise that needs nothing from the environment: up to  *)
(* the saved position, the file of the checkpoint is stored.  Open and     *)
(* read errors, lost events, pruned files and stops do not break it,       *)
(* because a file is always read from its beginning or from a checkpoint.  *)
FileCovered ==
  checkpoint # NoPos =>
    \A k \in 1 .. LineOf(checkpoint) : Id(FileOf(checkpoint), k) \in durable[1]

(* README: "On restart the indexer resumes from the last checkpoint".  A   *)
(* line written after the first checkpoint is stored before a checkpoint   *)
(* passes it, so no restart can leave it out.                              *)
NoGap == \A l \in owed : l <= checkpoint => l \in durable[1]

(* README: "On restart the indexer resumes from the last checkpoint": the  *)
(* rows written after a restart belong to lines past the checkpoint.       *)
ResumesFromCheckpoint ==
  [][\A l \in active'[1] \ active[1] : l > checkpoint]_allVars

(* Every line written since the first checkpoint is stored in the end,     *)
(* whatever the order of rotations, stops and restarts.                    *)
EventuallyStored == <>[](owed \subseteq durable[1])
=============================================================================
