# Verification of hyperliquid-node-indexer

The indexer follows the files a Hyperliquid node writes, one directory per
stream, turns every line into rows, inserts them into ClickHouse, remembers how
far it came, and publishes some of the rows to websocket clients. This directory
holds TLA+ modules of those parts, the configurations TLC checks them with, and
proofs that TLAPS checks. Paths in this file are relative to the repository root
with the prefix `src/`, as in `PROJECT.json`.

What the project says, in short:

- whatever `await` a stream stops at, restarting from its checkpoint skips no
  line of its file and repeats none up to it (checked, and **proved for every
  instance**);
- end to end, with files, rotations, the watcher and systemd's restarts, no line
  written since the first checkpoint is passed by a later one without being stored,
  and a restart resumes at the checkpoint (checked; **proved for every instance**).
  This takes hypotheses, each of which the code can leave:
  no file begun and left between collecting the files and watching the directory
  (a run exhibits what happens otherwise), a canonical `data_dir` (likewise), paths
  that sort in the order of creation, no file in a directory the watcher has not
  learnt of yet, no open or read error, no lost event, no file deleted too early.
  Lines from before the first checkpoint are promised to no one: after a stop there
  is no start position, and nothing is read until the node writes again;
- without those hypotheses less is left: the file of the checkpoint is stored up to
  it, no event that the watcher reports is slept through, and a process sends no line
  twice (**proved**). Lines of a file skipped by an error, or whose last event was
  lost, may be lost for good;
- kills inside a save, errors of one of several streams and losses of power leave
  every stream a checkpoint it can come back to, if the file system writes data
  before the renaming; a run exhibits the one that does not, where an empty
  checkpoint keeps the whole service restarting;
- the reader's positions are exact for every way a file can be cut into reads
  (**proved**);
- a websocket client has, for each kind, what an abstract subscription promises:
  nothing from before, nothing after, every gap counted exactly (**proved**); and it
  never holds a stream up;
- the rows of an EVM block never replace each other in a table, nor do the rows of a
  record of misc events, twap statuses or system actions; of the keys of fills, HIP-3
  updates, bundles and actions nothing is shown. A line is parsed to all the rows
  it should have or to none (**proved** for EVM, `replica_cmds` and event
  lines of any length). Copies written after a restart are merged away, except in the
  one table that is partitioned by the time of the insert (checked);
- a decimal number is stored exactly or rejected, and printed as the number that was
  stored; what RLP encodes is read back as it was; the row and the hash of a
  transaction, which are parsed separately, speak of the same values (all **proved**
  for any length and width).

## 1. Inventory

### Components

| component | source | state | operations |
| --- | --- | --- | --- |
| Stream runner | `src/src/streams/mod.rs` `run`, and `write`/`commit` of each stream | position of the last line handled (`pending_pos`), the branch of the `select!`, open INSERTs | take an event, write, commit(false), tick: commit(true) and save, final commit at the end |
| Checkpoint file | `src/src/checkpoint.rs` | one JSON position per stream | `load`, `save` (temporary file, rename) |
| Line reader | `src/crates/tailer/src/lib.rs` `read_and_emit` | open file, `accum`, position | read a chunk, emit lines, drain; open with a seek |
| Tailer thread, watcher | `src/crates/tailer/src/lib.rs` `Tailer::run` | start position, files to sweep, map of open tails, queue of notifications | sweep, then per notification: open or find the tail, read |
| Files collector | `src/crates/tailer/src/collector.rs` | sorted list of files | collect, `seek_to`, next |
| Websocket server | `src/src/websocket/server.rs`, `subscription.rs` | a broadcast channel per kind; per connection its receivers and the frame being sent | `send`, accept, subscribe, unsubscribe, ping, forward, report a lag |
| Websocket messages | `src/src/websocket/messages.rs` | none | format rows as JSON |
| EVM block parser | `src/src/streams/evm_blocks_and_receipts.rs` | none | block line to five tables; transaction hash by RLP |
| replica_cmds parser | `src/src/streams/replica_cmds.rs` | none | block, bundles, actions, responses |
| Event stream parsers | `node_fills.rs`, `misc_events.rs`, `node_twap_statuses.rs`, `system_and_core_writer_actions.rs`, `hip3_oracle_updates.rs` under `src/src/streams/` | none | record of events to rows |
| Numbers, inserters | `src/src/storage/mod.rs` | limits of an INSERT | decimal and hex conversion, `new_inserter` |
| Tables | `src/migrations/` | rows and partitions | replacing merges |
| Process | `src/src/main.rs`, `src/deploy/` | the seven streams in one task | `try_join!`: first poll, one stream's error or end, exit; restart by systemd |
| Types | `src/crates/types/src/lib.rs` | none | serde |
| Configuration, metrics | `src/src/config.rs`, `src/src/metrics.rs` | none that matters here | read once; counters |

### How they interact

```
node --append/rotate--> files --inotify--> watcher queue --+
                          |                                v
                          +----------- reads ------- tailer thread
                                                           | line channel (4096), blocking_send
                                                           v
     websocket clients <--broadcast-- Stream::write <-- select! loop <-- ticker (5 s)
                                           |               |
                                           v               v
                                  open INSERTs --end--> ClickHouse     checkpoint file
                                                                       (read at the next start)
```

Each stream has a tailer thread of its own and a runner task; the seven share
nothing but the process and the websocket server. `try_join!` polls them in one
task: a stream runs alone between two of its awaits, which includes all of a save,
and the first error ends them all.

### What is hard

1. The process may stop at every `await` between writing rows, ending INSERTs
   table by table, and saving a position; the saved position must stay behind
   what is durable.
2. `commit(false)` may leave rows in an open INSERT, and yet the event branch
   sets the position that the next save will write.
3. The node writes while the tailer starts and reads: events before the file is
   in the map, after its end was read, or lost by a full queue.
4. A file reached both by the sweep and by notifications.
5. Chunks that end inside a line, and restarts in the middle of a file, with a
   line number that block heights are computed from.
6. Receivers that lag, and subscriptions that change while messages are published.
7. Keys of rows, which decide what ClickHouse replaces; indices that run over two
   lists; cumulative figures that begin anew; joins by hash or by asset.
8. Rows written again by a later process, possibly on a later day.
9. Limits of numbers: RLP length classes, `v`, hex of odd length, scaled decimals,
   two parsers for one string.
10. A save that a kill or a loss of power cuts in two, and a checkpoint of one stream
    that stops the others.
11. New directories that the watcher hears of before it watches them.
12. A stop before the first save: there is no start position to come back to.

`PROJECT.json` lists each of these as a hazard at its line, with the properties
that would break, or the reason why there is none.

### What makes each component correct

| component | must hold |
| --- | --- |
| Stream runner | the checkpoint is covered by durable rows; replays begin behind it; the rows of open INSERTs are bounded; a stream that ended left nothing open; progress in the end |
| Line reader | events are exactly the lines, with the right position; nothing held back, lost or skipped |
| Tailer | no lost wakeup; every line once and in order |
| Whole stream | no line owed is passed by a checkpoint; restart resumes where it stopped; everything owed stored in the end |
| Websocket | implements `Subscription` for each client and kind; no stall; readers catch up |
| Checkpoint, process | the oldest position to come back to never falls back and is never ahead of what is stored; every stream comes back after the last stop |
| Parsers | all or nothing; keys unique where rows are numbered; joins exact; sums exact |
| Numbers | the exact value or an error; printed as it was read; row and hash of a transaction agree |
| Tables | duplicates disappear |

## 2. Plan

Modules in the order they were written, the most important behaviour first.

1. `AtLeastOnce`, the abstract promise; `StreamRunner`, which implements it;
   `StreamRunner_proofs`. Done.
2. `TailReader` and `Tailer`, the two layers below the runner. Done.
3. `Indexer`, which composes `Tailer` with the runner of `StreamRunner`. Done.
4. `Subscription`, the abstract promise to a client; `WsServer`, which implements
   it. Done.
5. The pure parts: `EvmRows`, `ReplicaRows`, `EventRows`, `Rlp`, `Decimals`,
   joined for TLC by `MCParsers`; `ReplacingTable` for what ClickHouse makes of
   rows written twice. Done.
6. `Process`: several streams in one task, their checkpoint files one system call
   at a time, kills and losses of power; `Process_proofs`. Done.
7. Proofs about the other modules: `TailReader_proofs`; `WsServer_proofs`;
   `Indexer_proofs`, about a file and the tailer, and on top of it `Gap_proofs`,
   about the order of files. Done.
8. Proofs about the pure parts: `Rows_proofs` for `EvmRows`, `ReplicaRows` and
   `EventRows`, `Numbers_proofs` for `Decimals` and `Rlp`. Done.
   `ReplacingTable` has only a liveness property to pass, which stays with TLC.

Abstract specifications worth stating: `AtLeastOnce`, implemented by `StreamRunner`
and, with files and power losses, by each stream of `Process`; `Subscription`,
implemented by `WsServer`; an abstract file reader that emits whole lines, for
`TailReader` (not written: `EventsAreLines` says it directly).

Runs are kept to one per question, with bounds given in section 4.

## 3. Modules and code

Definitions keep the names of the code where TLA+ allows. `PROJECT.json` "map"
gives the lines for each. Operators introduced by a comment `Not the code:` are
plausible wrong versions of the definition that follows them; no specification
uses them, and `PROJECT.json` "mutants" says which property each one breaks.

**`StreamRunner`.** `pc` names the `await` that `run` is at: `select`, `write`,
`commit`, `save`; `done` is `Ok(())`, `down` a process that stopped. A line is a
number, in the order the node wrote it, so a `Position` is one too. The node goes
on writing (`NodeAppend`, up to `written`). `heard` says whether the tailer has
cause to read: a one-shot subcommand and a start from a checkpoint have a start
position; any other start sweeps nothing, and reads the file, from its first line,
only when the node appends to it (`Init`, `Restart`). Lines may have any number of
rows in a table (`RowsIn[l][t]`); they go to the open INSERT, which holds `rows[t]`
rows of the lines `active[t]`, and these reach `durable[t]` when it ends
(`EndInsert`). `CommitTable` visits one table per
step: any prefix of a commit can be durable when the process stops, and of an open
INSERT any part of its rows (`CrashRunner`). `MayDefer` is the inserter's right
not to end an INSERT at `commit(false)`; its other limits (bytes, time) may end it
earlier, which is the other choice. `follow` is what `main` decides: the service,
or a one-shot subcommand with a file and no checkpoint. `Bad` are lines that do
not parse; they are dropped by `filter_map` without a trace. `SourceClose` stands
for the end of the tailer thread: of a one-shot sweep, or a panic.

**`AtLeastOnce`.** What an operator may rely on: a set of stored lines that grows,
and a resume point that moves only over lines that are stored.

**`TailReader`.** One file in bytes. `ReadChunk` reads any number of bytes up to
`CHUNK` that are there; `EmitLine` is one turn of the `memchr` loop, `Drain` what
follows it; `Reopen` is a new process that seeks to the position of an event.

**`Tailer`.** Files in the order of creation, lines as numbers `Id(f, k)`.
`Collect` and `Watch` are the two steps of starting, `SweepOpen`..`SweepDone` the
sweep (`todo` is the set of collected files that are left; `NextFile` takes the
least in the collector's order), `Notified`/`NotifiedSkip` the loop over notifications, `Emit`, `ReadEnd`,
`ReadError` the calls of `read_and_emit`, which both share. `Notify` is the
watcher: inotify merges equal neighbours and drops what does not fit. Files of
`NewDirs` come with a directory of their own; they are `unseen`, and bring no
events, until `DirWatched`. `PathOrder`
is the order the collector sorts by; `RawIsCanonical` says whether the configured
directory equals its canonical form, which is what `seek_to` compares with.

**`Indexer`** EXTENDS `Tailer` and INSTANCEs `StreamRunner` for the runner, with
one table, one row per line, no bad lines and `follow` always TRUE (only the service
has a checkpoint). It takes the runner's actions from there; node and thread are
those of `Tailer`, which also has no start position without a checkpoint. `Stop` ends thread, watcher and channel and leaves files, tables and
checkpoint; `Start` is systemd and `build_tailer`. `owed` is a history
variable: the lines written since there was a checkpoint.

**`Process`.** A stream is cut down to the position it has handled and what is
stored (`StreamRunner` has the rest, also that a stream without a checkpoint waits for the
node's next append, which is taken for granted here); `pc[s]` is the place in `run`, with the
three system calls of `save` apart. `HasTask` is the one task: while a stream is
inside `save` no other steps, but the process can be killed (`Kill`), lose its power
(`PowerLoss`) or fail (`StreamFails`) there. `file[s]` is the checkpoint as programs
see it, `survives[s]` what a loss of power may make of it: `SaveRename` adds the new
content, and, where the file system is not `Ordered`, an empty file; `Flush` is the
kernel writing back. `LoadFails` is an empty file, or one that cannot be opened this
time. `EndOfStream` is the panic of a tailer thread; the stream ends with `Ok`, the
others go on, and `Exit` is reached if all have ended.

**`Subscription`.** What a client may rely on for one kind: from the answer to a
subscribe to the answer to an unsubscribe every message comes, or is counted by a
report, in order and never twice. The message that was being published when the
receiver was made may come or not (`sure`).

**`WsServer`.** `PublishCheck` and `PublishSend` are the two halves of `send`
(`receiver_count`, then `tx.send`), with everything else between them. A
connection is at `hello` (subscriptions of the URL, `SubscriptionsFromQuery`, each
with its place in the query; the first is made next), `select`, or `send` (a frame the socket has not taken). `rx[c][k]` is the receiver's
place in the channel. `Oldest` and `Missed` are tokio's broadcast semantics. `view`
is a history: what the frames handed over have told the client; it is what
`Promise(c, k)` maps to `Subscription`. Pings and invalid requests are answered by
a frame of no kind.

**Parsers.** Fields that may fail to parse are a Boolean of the part of the line they
belong to, copied fields are left out. `EvmRows` first parses the header, any field
of which rejects the line (`ParseHeader`), then has the loops of `parse_data` with
their shared index and cumulative gas, and reads the read-precompile calls one
precompile at a time: an address that does not parse rejects the line, whatever came
before it. `ReplicaRows` has the join of responses to bundles by hash; a time, a
proposer, a hash, a broadcaster or an action that does not parse rejects the line
(`RejectCommand`), and hashes may occur more than once among bundles and responses.
`EventRows` has the five event streams, with the `ORDER BY` key of each row of the
simple ones, and records of any number of HIP-3 updates; `Rlp` the
two ways of a transaction, `TransactionRow` to the row and `SignedTransaction` to
the preimage of the hash, each with its own parsers (`ParseU64Hex`, `UintFromHex`,
`RlpHexData`, `RlpFixed`), and a decoder written from RLP's definition, which reads
anything: bytes at the end of a list that are no item are read as `None`;
`Decimals` `decimal_from_str`, against the value of the number, and `decimal_string`,
which prints it. What digits denote is written as recursive functions (`Horner` in
`Rlp`; `Reading`, against the weights of the places, in `Decimals`), so that it can be
proved about; `Minimal` has the `U64Bytes` bytes of `to_be_bytes`.

**`ReplacingTable`.** Rows with key, partition and part; a merge replaces the older
of two rows that share key and partition. A line is inserted on or after the day
of its own time; restarts carry on from the checkpoint on whatever day it is.

## 4. Runs

| run | configuration | question |
| --- | --- | --- |
| `runner` | `StreamRunner.cfg` | five lines, two of them bad (the last too), with none to two rows in each of two tables, any of them there at the first start or appended later, two stops, one panic, a channel of two lines and INSERTs of two rows: every stop at every `await`, in both modes |
| `reader` | `TailReader.cfg` | every content of five bytes, chunks up to three, every short read, restarts at every position |
| `indexer_calm` | `Indexer_calm.cfg` | node, tailer, runner and one restart, three files, none begun between `Collect` and `Watch` |
| `indexer_faults` | `Indexer_faults.cfg` | the same without that restriction, two files, the second in a new directory, with an open or read error, a queue of one event, pruning and two stops |
| `indexer_window` | `Indexer_window.cfg` | as `indexer_calm`, but files may be begun at any moment: `NoGap` is violated |
| `indexer_relative` | `Indexer_relative.cfg` | as `indexer_calm`, with a `data_dir` that is not canonical: `ResumesFromCheckpoint` is violated |
| `ws` | `WsServer.cfg` | two clients and two kinds, subscriptions by URL and request, three messages of one kind through a channel of one and one of the other |
| `process` | `Process.cfg` | two streams of two lines, one kill or error, two panics, one loss of power, data written before the renaming |
| `process_power` | `Process_power.cfg` | the same with the loss of power only, on a file system that may lose the data: `ComesBack` is violated |
| `parsers` | `Parsers.cfg` | every input within the bounds, of each parser |
| `table_time` | `ReplacingTable_time.cfg` | four lines, three days, two restarts, partitioned by the rows' time |
| `table_created` | `ReplacingTable_created.cfg` | the same, partitioned by `created_at`: `CopiesMeet` is violated |

### What they show

`runner`: `CheckpointCovered` is the main property; it breaks when a tick may
defer, when a table is left out of a commit, or when a line is remembered before
it is written. `ReplayAboveCheckpoint` and `ImplementsAtLeastOnce` relate several
processes to each other. `BufferBounded` bounds the rows a stop can cost: the limit of an INSERT is looked at
only behind a line, so it may be passed by the rows of one. `DoneMeansStored`,
`EventuallyCheckpointed` and `OneShotEnds` need the final commit, the ticker and the
end of the channel to be served while they compete; the second of them promises
nothing to a tailer without cause to read.

`reader` justifies that all other modules count lines: `EventsAreLines` relates an
event to the file's content by definition, `NothingSkipped` relates a restart to
all the events before it.

`indexer_calm` shows that the layers fit: what the tailer may send again or late
never makes a checkpoint pass an unstored line (`NoGap`). `indexer_faults` shows what
remains under errors: the file of the checkpoint is complete up to the checkpoint
(`FileCovered`). An earlier file may be left out by an error, and the code goes on.
Its `NoLostWakeup` is why `Watch` comes before the sweep and `TakeEvent` before the
read; `SentOnce` covers files that both sweep and notifications reach, for each
process anew.

`ws`: `ImplementsSubscription` breaks when a report counts one too few, when a new
receiver begins with the backlog, or when an unsubscribe keeps its receiver.
`IngestionNeverStalls` holds with clients that never read, `ReadersCatchUp` with
clients that do.

`process`: `ImplementsPromise` is `AtLeastOnce` for each stream, where the resume
point is the worst file that a loss of power may leave now. It breaks when a save
writes the checkpoint in place. `ComesBack` breaks when an error ends its own stream
only. `ProcessTypeOK` includes that no two streams are inside a save.

`parsers`: unique keys over regular and system transactions (`NoRowReplaced`,
`RowsJoin`), gas (`GasAddsUp`), acceptance of exactly
the consistent lines, with a row for each transaction, receipt, log and call
(`AcceptedComplete`), the join of responses (`StatusOfItsOwn`, `EveryAction`), keys
over events and records in the streams that number them (`EventsKeptApart`), the price join (`RecordComplete`),
and the conversions, against independent definitions (`ItemsDecode`,
`ExactOrRejected`, `PrintsBack`). `RowMatchesHash` decodes the preimage of the hash
and compares it with the columns; it breaks when the fees of an EIP-1559
transaction are encoded in the order of the columns, or when `v` loses the parity.

The four violations are the findings of `PROJECT.json`.

### Bounds, and why they are enough

- `runner`: two tables are needed for a commit that is half done, an INSERT of two rows
  for one that is deferred, and lines of one and two rows for one that is filled at once
  or passed by one; three good lines so that one INSERT spans a save; a bad line inside
  and one at the end; two stops for a replay that is itself interrupted.
- `reader`: five bytes hold two complete lines and a rest, and a chunk of three ends
  in each place of a line. Bytes that are not a newline are alike.
- `indexer_*`: three files are the fewest in which one is begun and left
  behind by another, while the first has a checkpoint; two lines make a position
  inside a file; a queue of one overflows. Two files suffice for the properties of
  `indexer_faults`, which are about one file; three take too long with its faults.
- `ws`: a capacity of one makes every lag possible; three messages of a kind give a
  message and a lag, or a lag and a message; two kinds suffice, as a request names
  one; the client without requests lets a subscription by query run undisturbed.
- `process`: two streams are enough for one to be inside a save, or ended, or dropped
  by the other's error; two lines for a second save over a first; one loss of power
  after a first save, with a stop before or behind it. Before the first save there
  is no file, so both an empty and an older one occur. Two panics let both streams
  end, so that the process exits.
- `parsers`: two of everything that is joined or indexed (two hashes, which bundles and
  entries may share; two records of a block). `N`, `U64Bytes`,
  `MaxU64`, `DECIMAL_SCALE` and `MAX` are small stand-ins for 32 bytes, 8 bytes,
  2^64 - 1, 18 and `i128::MAX`, so that every limit is reached; lengths of RLP are real (55, 56,
  255, 256).
- `table_*`: a block before and after midnight, and a further day for the restart.

`CHECK_DEADLOCK FALSE` stands where the bounds let a behaviour end: all lines
written, all stops used up, input parsed. `reader` never ends and is checked for
deadlock.

### Fairness

- A thread or task that can run does in the end: weak fairness of the tailer
  thread, the runner's `write`, `commit` and `save`, the publishers, `Restart`
  (systemd, `Restart=always`). This assumes that ClickHouse answers; errors are
  stops.
- `tokio::select!` polls its branches in random order, so a branch that is ready
  again and again is taken: strong fairness of taking a line, the tick and the end
  of the channel.
- Never fair: the node, stops, panics, errors, `SourceClose` in following mode,
  disconnects, the kernel's write-back (`Flush`), and the clients: `SlowSpec` has
  fairness of the publishers only, and `ReadersCatchUp` assumes `ReaderFairness` where
  it needs it.
- `Process`: a stream competes with the others for the one task, so what it can do
  again and again it does (strong fairness of loading, committing, saving, and of
  both branches of its `select!`); `Exit` and `Restart` are weakly fair.
- Merges: ClickHouse merges in its own time but does (`ReplacingTable`). Whether it
  ever merges two given parts is not guaranteed by it; `DuplicatesGoAway` says what
  holds if it does.

## 5. Proofs

`StreamRunner_proofs` proves, for all constants that satisfy `ConstantsAssumption`
(any number of lines, tables, stops and panics, any rows, any capacities):

| theorem | statement |
| --- | --- |
| `TypeCorrect` | `Spec => []TypeOK` |
| `Invariant` | `Spec => []IInv` |
| `CheckpointSafe` | `Spec => []CheckpointCovered` |
| `DoneSafe` | `Spec => []DoneMeansStored` |
| `MonotoneSafe` | `Spec => CheckpointMonotone` |
| `ReplaySafe` | `Spec => ReplayAboveCheckpoint` |
| `Refinement` | `Spec => ImplementsAtLeastOnce` |
| `BufferSafe` | `Spec => []BufferBounded` |

`CheckpointCovered` is not inductive: nothing in it says why `pending` may be saved.
`IInv` adds

- `ChannelInOrder`: the channel holds the consecutive lines after the last one
  taken, so that "taken" is a number;
- `TakenIsHandled`: while the process runs, each row of each good line taken is
  still to be written, in an open INSERT or durable. This is the heart: it turns
  "nothing is open" into "everything taken is durable";
- `CurrentIsTaken`: the line in hand is the last one taken, so that remembering it
  remembers all before it;
- `ForcedCommitEmpties`: behind the table that a forced commit has reached nothing
  is open, hence nothing at `save`. This is where `commit(false)` would not do;
- `PositionsOrdered`: checkpoint, `pending` and the last line taken are ordered, which
  is what a restart re-establishes;
- `EndIsFinal`: the final commit runs with an empty channel that no one sends to.

Each action has a lemma that it preserves `IInv`; the other theorems follow from
the invariant and one step. `Refinement` maps stored lines to those whose rows are
all durable, and the resume point to the checkpoint file; every step but the
commits, stops with landed rows, and saves is a stutter. `BufferSafe` has an
invariant of its own, `BInv`: only a table that has just had rows added and that
`commit(false)` has not come to yet (`MayBeFull`) can hold `MaxRows` rows or more,
by the rows of the line in hand; all others hold fewer, because the last commit that
came to them ended an INSERT that was full.

`Process_proofs` proves, for all constants that satisfy `ProcessAssumption` (any
number of streams, lines, stops, panics and losses of power):

| theorem | statement |
| --- | --- |
| `ProcessTypesHold` | `ProcessSpec => []ProcessTypeOK` |
| `ServiceImplementsPromise` | `Ordered` implies `ProcessSpec => ImplementsPromise` |

`Ordered`, that the file system writes a file's data before its renaming, is needed:
without it a loss of power takes the resume point back (`process_power`). The
invariant `IInv` of that module says of each stream

- `FileIsNewest`, `FileIsStored`: nothing the disk may come back with is newer than
  the file, whose lines are stored, so any loss of power is covered too;
- `RunsAhead`, `PendingIsAhead`: a running stream has handled more than its file
  says, and what it has pending lies between the two, so that a rename never puts
  an older position in place;
- `SavesStored`: inside `save`, what is pending is stored. The commit before it
  establishes this and no step of another stream can undo it;
- `NeverTorn`: with `Ordered`, no empty file can come back.

`OldestIsLeast` and `OldestWithNewer` say what the oldest of some positions is, from
the well-foundedness of the numbers. Each action then leaves the resume point of
each stream (`SameDiskForward`, `SaveRenameForward`) or settles it on one of the
contents that were possible (`SettledForward`: `Flush`, `PowerLoss`).

`TailReader_proofs` proves, for all constants that satisfy `ReaderAssumption` (any
length of file, any content, chunk size and number of restarts):

| theorem | statement |
| --- | --- |
| `ReaderTypeCorrect` | `Spec => []TypeOK` |
| `EventsSafe` | `Spec => []EventsAreLines` |
| `AccumSafe` | `Spec => []AccumIsUnemitted` |
| `NothingHeldBackSafe` | `Spec => []NothingHeldBack` |
| `NothingSkippedSafe` | `Spec => []NothingSkipped` |

The invariant says what the four have in common: `accum` is what was read, from the
position (less what the scan has consumed) to the cursor (`AccumIsRead`); a position
is the beginning of a line and has its number (`IsPosition`, which is why a process
may begin at any of them); every line that ends before the position, or before an
event, has been sent (`SentUpTo`); between two scans `accum` has no newline
(`NoNewlineLeft`, which is why the scan may begin behind the old bytes). Line
numbers are cardinalities of sets of newlines; the first newline of a rest exists by
the well-foundedness of the numbers.

`WsServer_proofs` proves, for all constants that satisfy `WsAssumption` (any clients,
kinds, queries, capacities and numbers of messages and requests):

| theorem | statement |
| --- | --- |
| `WsTypeCorrect` | `Spec => []TypeOK` |
| `ServerImplementsSubscription` | `Spec => ImplementsSubscription` |

`ImplementsSubscription` is a refinement for every client and kind. What makes it
true is the invariant `IInv`, where `Shown` is what the client will know once it has
taken the frame that waits at its socket:

- `OneFrame`: a frame waits exactly while the connection is at `send`;
- `LogIsComplete`: from a receiver's place on, the channel has every message that was
  offered. `receiver_count` may have said zero for earlier ones;
- `ReceiverAgrees`: the receiver's next message is the one `Shown` says comes next, or
  the one that was being published when the receiver was made;
- `NothingAhead`: no client has been told of a message that the channel may yet
  accept, not by an earlier subscription either;
- `FrameFits`: the frame that waits is one that the promise allows now, although more
  may be published before the socket takes it.

Only a flush and `PublishCheck` move the abstract state; the other steps are
stutters that must keep these.

`Indexer_proofs` and `Gap_proofs` are about `Indexer`, node, tailer
and runner together, for all constants that satisfy `TailerAssumption` and
`IndexerAssumption` (any number of files, lines, errors, deletions and stops, any
capacities, any order of paths):

| theorem | statement | further hypotheses |
| --- | --- | --- |
| `IndexerTypeCorrect` | `IndexerSpec => []IndexerTypeOK` | |
| `FileCoveredSafe` | `IndexerSpec => []FileCovered` | |
| `NoLostWakeupSafe` | `IndexerSpec => []NoLostWakeup` | |
| `SentOnceSafe` | `IndexerSpec => SentOnce` | |
| `ResumesSafe` | `IndexerSpec => ResumesFromCheckpoint` | `Undisturbed` |
| `NoGapSafe` | `IndexerSpec => []NoGap` | `Calm` |

`TInv` is the type with what is needed to use it (a position is none, or a line the
node has written). On it rest:

- `CInv`, for `FileCovered`. A line that is sent, taken or remembered has all lines
  before it *in its file* further on the way, which ends in the table: before it in
  the channel, in hand, in an open INSERT, durable (`SentInOrder`, `QueuedInOrder`,
  `HandledInOrder`). `SaveIsAfterCommit` and `StopEmpties` close the circle: a save
  finds nothing open, and a new process begins with nothing on the way.
- `WInv`, for `NoLostWakeup`: an event can be missing only for a file that the watcher
  does not see yet; such a file is newer than all that the thread has had to do
  with (`KnownIsOld`, `UnseenIsUnknown`), so it is not in the map.
- `OInv`, for `SentOnce`: as long as no read has failed, the place at which a file is
  read, or kept in the map, is the last line sent of it, or the one before the first
  that is due (`ReadsOn`, `KeptPlace`, `NotBegun`). `StartKnown` is the delicate part: the
  file of the checkpoint is swept before a notification can begin it from its
  beginning. `SentOnce` itself allows for a failed read, after which the code reads
  the rest again.
- `ResumeInv`, for `ResumesFromCheckpoint`: files are taken up in the order of the
  node, from that of the start position on (`FilesInTurn`, `FromStart`), so each line
  sent is behind all that were sent before and behind the start (`AllSent`,
  `LinesInTurn`).
- `GapInv`, for `NoGap`: of every line that is sent, taken or remembered, all lines
  owed that come before it, *in whatever file*, are further on the way
  (`HandledInTurn`, `QueuedInTurn`, `NothingBehind`). It holds because every file with
  lines owed is collected, in the map, being read or notified (`Collected`, `Heard`),
  the sweep finishes one file before the next (`SweptBehind`), and events come in the
  order of the files, none dropped (`NothingDropped`).

`Undisturbed` says that paths sort in the order the node begins the files, that
`data_dir` is canonical, and that no open or read fails. `indexer_relative` shows
that the second is needed; without the first, files are swept out of the node's
order, and a position no longer separates old lines from new. Events may be lost,
files deleted and begun at any moment.
`Calm` adds what `NoGap` needs: no file begun between `Collect` and `Watch`
(`indexer_window` shows why) or in a directory not watched yet, none deleted, and a
queue with room for an event of each file. They are the conditions of
`indexer_calm`, where TLC finds hundreds of thousands of states that satisfy them.
What a lost event, an error or a deletion leaves true is `FileCovered`, without any of
these hypotheses.

`Rows_proofs` is about the parsers that turn a line into rows, for lines of any length
(blocks of any number of transactions, logs and calls, bundles and responses with any
hashes, records of any number of events or HIP-3 updates), under the named assumption of each module (`EvmAssumption`, `ReplicaAssumption`,
`EventsAssumption`):

| theorem | statement |
| --- | --- |
| `EvmTypes` | `EvmSpec => []EvmTypeOK` |
| `EvmNoRowReplaced` | `EvmSpec => []NoRowReplaced` |
| `EvmRowsJoin` | `EvmSpec => []RowsJoin` |
| `EvmGasAddsUp` | `EvmSpec => []GasAddsUp` |
| `EvmAcceptedComplete` | `EvmSpec => []AcceptedComplete` |
| `ReplicaStatusOfItsOwn` | `ReplicaSpec => []StatusOfItsOwn` |
| `ReplicaEveryAction` | `ReplicaSpec => []EveryAction` |
| `EventRowsKeptApart` | `EventsSpec => []EventsKeptApart` |
| `EventRecordComplete` | `EventsSpec => []RecordComplete` |

- `EvmInv` says what the rows are so far, from the place in the loops: the index of a
  row is its number over both lists (`Progress`, `Parsed`), its gas the difference to the
  row before it in the same list (`GasSoFar`), logs and calls are numbered without a
  gap and are those of the line (`LogsNumbered`, `LogContents`, `CallsNumbered`), and a
  rejected line has a reason
  (`Rejected`). That no row is replaced then follows from the numbers.
- `ReplicaInv`: the map of responses is exactly what the line reports of each hash, the
  last entry of one that occurs twice (`Collected`), and the bundles done so far have
  their rows from it (`BundlesDone`).
- `EventRowsKeptApart` rests on the index in a row's key, for misc events also on the
  time at which the node wrote the record, which is part of `event_id`; that the records
  of a block have different ones is an assumption about the node.
- `EventsInv`: each record parsed has written all of its rows or none, each at the key
  of its place (`SimpleDone`), and the records of HIP-3 updates the joined prices
  (`Hip3Done`).

`Numbers_proofs` is about numbers, for strings of any length:

| theorem | statement | under |
| --- | --- | --- |
| `DecimalsTypeCorrect` | `DecimalsSpec => []DecimalsTypeOK` | `DecimalsAssumption` |
| `DecimalsExactOrRejected` | `DecimalsSpec => []ExactOrRejected` | |
| `DecimalsPrintBack` | `DecimalsSpec => []PrintsBack` | |
| `RlpItemsDecode` | `RlpSpec => []ItemsDecode` | `RlpAssumption` |
| `RlpRowMatchesHash` | `RlpSpec => []RowMatchesHash` | `RlpAssumption`, `TxsAssumption` |

- `DecimalsInv`: after `Split` the string is its sign, the whole part, at most one point
  and the fraction (`Parts`); the value is the one of the parts read so far; a string is
  refused only if it is no number or its number does not fit. `PartsDenote` shows that
  reading digit by digit gives the sum of the digits' weights, `PaddedReads`,
  `PlainReads` and `TrimmedReads` that what is printed is read as the same number.
- The encoding of `Rlp`: leading zeros do not change a number (`ZerosInFront`,
  `StrippedReads`), the bytes of a length denote it (`MinimalReads`), a prefix says where
  its payload begins and ends, wherever in a text it stands (`PrefixReads`), so that a byte
  string and a quantity are read back (`BytesReadBack`, `QuantityReads`). The assumption
  bounds lengths by what `usize` can count.
- The two ways of a transaction. The items of a list are read one behind the other, so
  that a list of encodings is read back as the list of their payloads (`ListsStand`,
  `ItemsRead`, `ListEncodes`), and a list in a list likewise (`AccessListReads`). Each
  field that did not fail is such an encoding of the value in its column: a quantity of
  the number in the row (`QuantityFields`; where the row has it from `ParseU64Hex`, what
  both parsers take is the same number, `ParsedU64`), the recipient of its bytes, `v` of
  chain id and parity together (`LegacyVReads`). Then the lists of nine, eleven and
  twelve fields are read (`LegacyReads`, `Eip2930Reads`, `Eip1559Reads`) and compared
  with the row (`LegacyAgrees`, `Eip2930Agrees`, `Eip1559Agrees`). `TxsAssumption` says
  of a transaction what serde lets through (`Tx`; a typed one has a chain id, the fees
  are those of its type), and that its preimage, which is in memory, is no longer than
  `usize` counts. `RlpInv` says what a state holds: preimage and row are there together,
  both made from the input.

The prover has no induction over data. Where a proof needs it, it takes the least
element of a set of numbers instead (`LeastNat`, `InductiveUpTo`), and shows first that
a recursive function exists, since its definition alone says nothing of it
(`RecursionExists`, `PowersExist`, `SumExists`, `FlatteningExists`, `BackwardExists`).

Only model-checked:

- everything with fairness (`EventuallyCheckpointed`, `OneShotEnds`, `EventuallyStored`,
  `ReadersCatchUp`, `IngestionNeverStalls`, `ComesBack`, `DuplicatesGoAway`), as the
  proof system handles neither liveness under fairness nor `ENABLED`;
- `ParsersTypeOK`, which joins the types of the parsers for TLC: its parts for EVM lines
  and for decimals are `EvmTypes` and `DecimalsTypeCorrect`.

## 6. Not modelled

- The bytes of the checkpoint file: it holds a position, or is empty. `save` is one
  step in `StreamRunner` and three in `Process`. Temporary files that a kill leaves
  behind are never read, and never removed.
- What ClickHouse itself loses with its power: `stored` is what it has confirmed.
- The watcher's walk over the directories when it starts (`Watch` is one step).
- Truncation, renaming or rewriting of a file: the node only appends and begins new
  ones.
- TTL of tables, and ClickHouse's own retries and deduplication of INSERTs.
- JSON: serde, the layout of websocket messages but for decimals. A line parses or
  does not. The `From` impls of `messages.rs` copy fields.
- Fields that are copied from the line to the row unchanged, and the hash of a
  `replica_cmds` line.
- Configuration, metrics, logging.
- Memory: the map of tails keeps each file open; nothing in the code bounds it.
