# A TLA+ model of the Seastar log engine

This directory specifies the engine and the agent in `src/src/`: the write path from
`append` to the bytes of a file, routing over shards, archives and queries, the health
counters, the agent's sources, its shutdown and its remote delivery. TLC model-checks the
modules and TLAPS proves, for every value of their constants, the main guarantees of the byte
writer, the shard, the delivery, the sharded engine, the file source, the agent's shutdown and
migration, and the failure counters (section 4). Source names are kept:
`pending` is `_pending`, `FlushTail` is `flush_tail`, and so on. `PROJECT.json` maps every definition to the lines it stands for.

## 1. The system and its parts

The engine runs one writer per Seastar shard. An application, or the agent on behalf of
a file, a socket or an HTTP client, hands records to `LogEngine`; a router picks the
shard; the shard's `AsyncWriter` queues, numbers and flushes them through `AppendWriter`
into an active file, which `LogManager` rotates into archives. The agent's delivery
scanner reads the files back and sends them to a remote sink.

| Component | State | Operations | Interacts with | What makes it correct |
|---|---|---|---|---|
| `AppendWriter` (append_writer.cc) | file, offset, unaligned tail, logical size | start, append_batch, force_flush, flush_tail, truncate_to, close, reset_after_rotation | the file system; called by AsyncWriter | writes are whole aligned blocks; file and tail are the appended bytes; what was reported written stays written |
| `AsyncWriter` (async_writer.cc) | queue, sequence number, rotation index, flush flag, wait queue, gate, timer | start, submit, submit_many, flush, timer, stop | AppendWriter, LogManager; many tasks of one reactor | no accepted record is lost while the process lives; order is kept; waiters are let go; stop drains |
| `LogManager` (log_manager.cc) | checkpoint sidecar, archive directory | rotate, gzip, cleanup, persist and load checkpoint, recover | AsyncWriter, file system | recovery keeps what was written and resumes the numbering; cleanup leaves the youngest segments, wherever it stops |
| `LogEngine` (log_engine.cc) | per-shard writers, round robin counter | start, stop, append, append_batch | router, AsyncWriter, messages between cores | a record goes to one shard, once; an error-free return means placed; a caller's order is kept; every call returns |
| `ShardRouter` (routing.cc) | ring | configure, route | LogEngine | a key keeps its shard; the nearest virtual node serves; one more shard moves keys only to itself |
| Record codec (record_codec.cc) | none | encode, verify, parse | recovery, reader | what is read back is what was written; a torn record is never taken for another |
| Reader and layout (log_reader.cc, log_layout.cc) | none | list, scan, query | delivery, query server | records come in order, each once; what is not readable is counted |
| Delivery (agent.cc 726-907, agent_support.cc) | dispatcher queue, workers, offset file, pending file | scan, store, submit, deliver, advance, migrate, stop | reader, sink | at-least-once; the offset never passes an undelivered record; a migrated batch is not lost; shutdown ends |
| Agent sources (agent.cc 301-603, 920-964) | file offsets, socket loops, line buffers | tail, accept, receive, getline, ingest | LogEngine, state files | an offset is stored only for lines that were taken; records are whole lines; a stream arrives as a prefix |
| Backpressure and quota (agent.cc 259-299, agent_support.cc 1042-1094, 1262) | status | evaluate | sources | the source pauses, loses nothing and goes on |
| Agent process (agent.cc 1208-1293) | stop flag, futures of the loops | start, signal, wait, exit | all of the above | the engine outlives its users; a stop returns; a clean exit leaves nothing in memory |
| Health monitor (health_monitor.cc) | sliding-window counters | record, recent_sum, compute status | all threads, query server | failures show for five minutes and are forgotten after |
| Query server (query_server.cc) | none of its own | records, status | reader, health monitor | a reply is complete or its loss is counted |
| Client, tools, benchmarks | none of their own | | | |

What is hard here: a shard's tasks interleave at every `co_await`; a flush, a rotation
and a stop each take several of them; every I/O can fail and the code carries on with
what is in memory; a process can die between any two of these steps, and recovery then
works from files that do not agree; the delivery scanner reads by path what the writer
renames. The list of hazards in `PROJECT.json` gives each with its line.

## 2. The modules

### AppendWriter

One segment of one shard at the level of bytes. `file`, `tail`, `write_offset` and
`logical_size` are the fields of the class; an action is one completed call. A call that
fails has a `...Fails` action of its own: the chunks of a buffer are written
concurrently, so a failure leaves *any set* of the buffer's blocks in the file
(`WriteBufferFails`). A process that dies inside a call is that failure followed by
`Crash`. `stream` (the bytes given to the segment), `flushed` (how many of them a call
reported written) and `misused` are history. `misused` records that a batch was taken by
a writer that was closed or sealed; the code does not refuse it, the guarantees assume
that the caller does not do it, and `WriterReady` of `AsyncWriter` is where that
assumption is discharged.

### AsyncWriter

One shard: queue, flush, rotation, checkpoint, recovery, start and stop, over an
`INSTANCE` of `AppendWriter`, whose actions it uses as they are. An action is what runs
between two waits of the reactor. `flush` is the flush in progress with the task that
awaits it (`flush_once`: append, force, then the rotation's seal, close, rename, cleanup,
reopen, checkpoint), `life` is where `start` and `stop` are, and `sub` is where each submitter is
in `submit`. `archives` and `checkpoint` are the other files of the shard.

Abstractions, each named here once:

* A record is one cell, a block holds `Alignment` of them and `_pending_bytes` is the
  length of the queue. Records that straddle blocks are the subject of `AppendWriter`.
* A record carries its sequence number and an identity that the code does not have, so
  that two records that got the same number can be told apart. `record_sequence` is on.
* A crash is the death of the process, not of the machine: completed writes stay. The
  writes issued by a dying process reach the file as a prefix of the batch
  (`CrashInAppend`).
* `rotate_active_file` renames, compresses and cleans up in one `seastar::async` body
  that does not yield to this shard's tasks (`Task` waits), but the process may die between
  any two of its file operations: the rename (`RotateRename`) and each removal
  (`RotateCleanup`) are steps of their own. Of several segments over the count the newest
  goes first (`NextOut`; log_manager.cc:536 sorts so). Compression does not change what a
  segment holds and is no step here (`Archive` has it); the fault `"archive"` is a gzip or a
  removal that throws, before or between the removals.
* A sidecar that cannot be read at start is a fault of its own (`"sidecar"`).

### ShardLog

What a shard promises to somebody who does not care about files: a log that grows at its
end with records in the order they were accepted and loses to cleanup only records of its
oldest part, and a queue that a crash may lose. `retired` is how long that part is. Within
it records go in any order (`Expire`): `cleanup_archives` takes the newest of the segments
over the count first, and a death between two removals leaves an older segment while a
younger one is gone. Behind it the log has no gap. `AsyncWriter` implements this under
`log <- OnDisk` (archives, then the active file, without padding),
`queue <- Queued` (tail, batch and queue, without the records of the tail that
`force_flush` already wrote) and `retired <- Retired` (the records of the segments over the
count).

### Delivery

One shard's scanner, its dispatcher and workers, and its two state files. The writer
appears as what `ShardLog` promises plus unique sequence numbers: records are 0, 1, 2, ...
and a batch is the set of its records. Listing the segments (`Loop`) and reading each of
them (`ReadSegment`) are separate actions, and the active segment is read *by its path*:
a `Rotate` in between changes what the path names. `scanner` and `worker` are where these
tasks are; a condition variable's broadcast moves the workers that wait to `"check"`,
where they evaluate the predicate again. `acked` and `missed` are history: what the sink
acknowledged, and what a scan had listed but could not read.

Assumptions: record CRC is on (the agent's default), so that an incomplete record ends
the read of its segment; a read of one segment is one step; one scanner per dispatcher
with one batch in flight (what the code has); sequence numbers are unique, which run
`sequence_reuse` shows the writer not to guarantee after a crash.

### ShardRouter, LogEngine, EngineClients

`ShardRouter` has the ring and its lookup as operators. Which hash a virtual node or a
key has is a parameter below a small `HashSpace`, so that collisions and wrap-around
happen; `Start` of the engine picks any assignment. Equal entries of one shard are kept
once, which the lookup does not see.

`LogEngine` is the facade over shards that are what `ShardLog` says (`ShardsAreShardLogs`
checks it). `Dispatch` is a call up to its wait: the caller's own shard takes its part
at once, the others get a message between cores (`inbox`), and `Deliver` runs it there:
accepted, dropped by a writer that is stopping (`submit` returns success), or refused
by one that is gone. `Answer` brings a shard's result back, `when_all_succeed` waits for
all of them. The shortcuts of `append_batch` (one key, all local, all round robin) pick the
same shards as the general loop and are one operator, `ShardsOf`; what they do to the
counter differs and is `CounterAfter`. The counter is kept modulo the shard count. A batch
is not modelled record by record inside a shard: `submit_many` queues it without a wait.

`EngineClients` are tasks of an application that call the engine, start it and stop it;
`Home` is the core each runs on.

### FileSource

`run_file_source_loop` over `LogEngine`. A file is a sequence of cells, an offset is
`offset` and `inode` as in the state file. A program writes characters (`WriteChar`) and ends
lines, empty ones too (`EndLine`). `Stat`, `FileSize` and `Read` are the separate
looks at the file, between which it may grow, be rotated (rename and create), truncated,
removed or created, with an inode number that may be used again. Multiline assembly,
message and buffer limits and the backpressure decision are operators. `gen` numbers the
contents a path has had; the code has only the inode, and the difference is what
`Deceived` and `excused` name. The pattern that starts a multiline record is the literal
prefix test the code has.

### Health

`SlidingWindowCounter` one atomic operation at a time: `Continue` is `record`
(`LoadLast`, `Exchange`, `LoadBucket`, `StoreBucket`, `ClearBucket`, `LabelBucket`,
`LoadIndex`, `AddRecent`, `AddLifetime`), `ReadMinute` and `ReadWindow` are
`recent_sum`. The accesses are relaxed in the code; the model has them in program order,
as x86 keeps it for these stores and read-modify-writes. `Few` and `Many` are the
thresholds 3 and 10, `NumWindows` is 5 in the code. `racedAt` is history: the minute of
the last rotation that was disturbed by a concurrent `record` or by the clock stepping
back. gRPC's `fill_status` takes the status from one snapshot and its reason from another,
and so does `Further`.

### Codec, Archive, Query

`Codec` is encode, verify and parse over lines made of fields; a checksum is the thing
it is computed over, in the four classes the code has. `Archive` is the shard's
directories as another process sees them between any two steps of the engine: a line
being written (`Fragments` is what a reader may see of it), the rename of a rotation,
the compressed twin, the removal of the plain one, cleanup by age and by count, a crash at
each and the recovery after it. Cleanup lists the directory once (`CleanupLists`) and removes
file by file (`Remove`): the aged segments from the oldest on, then those over the count from
the newest on. A removal or a gzip that throws ends the rotation there (`RotationFails`).
The shard's clock may stand still but does not step back (`Health`'s does). `Query` lists the archive, then the active file, then
reads segment by segment, while `Archive` goes on. Queries are by sequence and by time,
by source and agent, with and without archives, over HTTP and gRPC. `owed` is history:
the matching records that lay in one file, intact, from the beginning of the query on.

### Agent

The process on its reactor of shard 0: `main` walks through start (engine, HTTP, sources,
migration of the legacy pending file, scanners), the wait for a signal, and the shutdown in
the code's order. TCP and Unix connections, datagrams and stdin arrive in arbitrary
pieces; each loop is `source[s]`, a read is followed by as many appends as the code
makes. `ReactorFree` is the one thing `std::getline` takes away from everybody. The
engine is a queue and a log, the file source and the delivery scanner are reduced to what
main sees of them (`FileSource` and `Delivery` have the rest). `http_server.stop` is
taken to wait for handlers under way.

### MC modules

The MC modules give TLC the model values, the configurations, payloads and inputs and, where it is used with safety properties only, the symmetry of the submitters.

## 3. The runs

Passing runs:

| Run | Shows |
|---|---|
| `append_writer` | all orders of calls, failures and crashes of the byte writer, blocks of 2 bytes, segments of up to 5: `OffsetsAligned`, `StreamIntact`, `ReportedInFile` |
| `crash_recovery` | a shard that crashes anywhere, between two removals of a cleanup too, and restarts twice, with rotation, timer, checkpoints and an unreadable sidecar: `SequenceResumes`, `CommittedKept`, `StopKeepsAcked`, and the refinement `ImplementsShardLog` |
| `faults_and_backpressure` | two submitters against a two-record limit with failing writes and checkpoint stores: `NothingLost`, `WriterReady`, and under fairness `WaitersResume` and `StopEnds` |
| `all_faults` | every operation may fail and the process may die: `DiskOrder`, no reordering and no repetition on disk |
| `delivery` | failing sink, state files and reads, crash, restart, rotation and cleanup during a scan, stop at any time: `SkipsOnlyMissed`, `ReplayWindow`, `OffsetMonotone`, `ScannerStops`, `EventuallyDelivered` |
| `engine` | two callers on two cores, single records and batches, a failed submit, stop or death of the engine meanwhile: `OkMeansPlaced`, `WellRouted`, `CallerOrder`, `CallsReturn`, `ShardsAreShardLogs`; and for every ring of the start `RingLookup` |
| `file_source` | a tailed file that grows and is rotated, truncated or removed between the looks at it, backpressure, failed appends and stores, a crash: `StoredCovers`, `WholeLines`, `OnceUnlessExcused`, `CatchesUp` |
| `health` | two recording threads, the turn of the minute, a clock that steps back, a status read meanwhile: `ForgetsExpired`, `CountsAfterRace`, `FailureShows` |
| `query` | a query during writing, rotation, compression, cleanup file by file, failed rotations, crash and recovery, in five record formats: `OnceInOrder`, `Authentic`, `Complete`, `ArchiveKeeps`, `OldestExpire` |
| `agent` | start to exit with every source, HTTP ingest and the migration, a signal at any time, a failed append, a crash and a restart: `StreamPrefix`, `CleanExit`, `MigrationKeeps`, `StopReturns` |

Runs that TLC refutes, each a disagreement between the code and what the repository says
of it (`findings` quotes the lines):

| Run | The behaviour |
|---|---|
| `sequence_reuse` | a crash between a rotation's rename and its checkpoint makes the shard give out numbers that the archive already holds |
| `delivery_skips` | a rotation between listing and reading makes the offset pass over records that were never sent |

Five more behaviours of this kind are listed with their constants in section 5. Together
they are why the passing runs are set up as they are. `CommittedKept` and
`StopKeepsAcked` are checked with crashes and not with a failed gzip, removal or write;
`WaitersResume` with the timer on; `AtLeastOnce` is replaced by `SkipsOnlyMissed`, which
says that the race found by `delivery_skips`, an unreadable segment and a removed segment
are the *only* ways to skip a record. In the same way the properties of the other modules
name their exceptions: `OkMeansPlaced` a stopping shard, `CatchesUp` a file that was cut
and grew again unseen, `CountsAfterRace` a disturbed rotation, `Complete` a record that was
moved while the query ran, `StopReturns` a source that waits for its peer.

### Bounds

`Alignment = 2` is the smallest block that can be partly filled; with it every residue of
an offset occurs, and a batch of up to three bytes ends before, on and past a boundary.
`MaxBytes = 5` is two blocks and a partial one. `RotateSize = 3` makes a rotation happen
with a partial block in the tail, `MaxRecords = 6` allows two rotations, so that with
`MaxArchived = 1` cleanup removes a segment. `crash_recovery` has `RotateSize = 2` for three
rotations: when the second dies before its cleanup, the third has two segments over the
count and may die between the removals, the newer gone and the older left. `MaxSessions = 3`
is that, and a crash during the recovery from a crash. `MaxPending = 2` with `MaxMany = 2` lets one call fill the queue
while two submitters contend for it. `MaxFaults = 2` is a failed retry. In `Delivery`,
two rotations over three records give a removed archive, an archive and an active
segment, and `SinkBatchSize = 2` leaves a last batch that is not full;
with one batch in flight a second worker adds no behaviour.

`engine`: two shards, two callers, three records and batches of up to two are a batch
that is split, a call behind it, and a second caller between them; four hash values for
the virtual nodes of two shards and of the one that may be added give every order and
every collision; calls are explored on one ring that gives each shard a key.
`file_source`: two characters or empty lines, each character with or without a newline after
it, two inode numbers,
one change of the file (a removed one may come back), one failed submit, one crash or failed store, one change of the pressure:
enough for a rotation between stat and read, and for a number used again.
`health`: a ring of two buckets turns over completely in three minutes; three calls are
two records that meet and a request. `query`: three records, three rotations with one
archive kept, one crash, one tick of the clock (two seconds against a retention of one),
one archive damaged before the last rotation. A rotation that dies or throws before its cleanup leaves the next but one
with two segments over the count, and the query looks between the two removals; a death there
is in `crash_recovery`. `agent`: each source once in the options of `MCAgent`, connections with a
CR, an unfinished line and more lines than a batch takes, one failed append, one crash
and a restart for the migration.

`CHECK_DEADLOCK FALSE` is set where the number of submissions, requests or ticks is
bounded and the shard, the engine or the agent may be stopped: such a state is an end, not
a deadlock. The byte writer has no such end and is checked for deadlock.

### Fairness

`AsyncWriter`: an I/O that was issued completes (with success or an error), a task whose
future is ready runs, an armed timer fires, and `stop`, once called, is awaited to its
end; Seastar's reactor gives these. `Delivery`: the scanner and each worker go on, and the
sink answers or fails (its requests have timeouts). `EngineClients`: messages between cores
are run and submits return. `FileSource`: the loop and the engine go on, and the agent is
started again. `Agent`: main, each source loop, the scanner, the engine and each handler go on
when what they wait for is there; peers owe nothing, which is why `StopReturns` has its
exception. `Health` and `Query` claim no liveness. Nobody has to submit, rotate, signal a
stop, fail or crash; failures are bounded by `MaxFaults`, so liveness is claimed for a
system in which I/O eventually works.

## 4. What is proved

Each proof module EXTENDS the module it is about. Its constants are restricted only by that
module's named `ASSUME`s, which TLC evaluates in every run: any numbers of shards,
submitters, workers, threads, callers and connections, any limits and sizes, any record
contents. A theorem is `Spec => []IndInv` from one lemma for the initial states and lemmas for
the actions, and the properties follow from `IndInv`. TLC checked every `IndInv` on the
runs' instances before it was proved.

| Proof module | Theorems (property) | Hypotheses besides the `ASSUME`s |
|---|---|---|
| `AppendWriterProofs` | `TypeCorrect` (`TypeOK`), `AlignedWrites` (`OffsetsAligned`), `NoByteLostOrMoved` (`StreamIntact`), `ReportedStays` (`ReportedInFile`) | none |
| `AsyncWriterProofs` | `TypeCorrect`, `RecordsInOrder` (`DiskOrder`), `NumbersResume` (`SequenceResumes`) | `NumbersResume`: no failing checkpoint store |
| the same, second part | `BatchMeetsReadyWriter` (`WriterReady`), `FlushedStaysFlushed` (`CommittedKept`), `NoRecordLost` (`NothingLost`), `CleanStopKeepsAll` (`StopKeepsAcked`), `Exactness`, `ShardIsALog` (`ImplementsShardLog`) | `Reliable`; see below |
| `DeliveryProofs` | `TypeCorrect`, `OffsetSkipsOnlyMissed` (`SkipsOnlyMissed`), `ReplayIsLastBatch` (`ReplayWindow`), `OffsetNeverGoesBack` (`OffsetMonotone`) | none |
| `EngineProofs` | `TypeCorrect`, `PlacedOnce` (`OkMeansPlaced`), `CallersInOrder` (`CallerOrder`), `RoutedByKeyOrTurn` (`WellRouted`), `LookupIsNearest` (`RingLookup`), `EveryShardIsAShardLog` (`ShardsAreShardLogs`) | none |
| `AgentProofs` | `TypeCorrect`, `BatchSurvivesMigration` (`MigrationKeeps`), `ExitKeepsTaken` (`CleanExit`) | none |
| the same, second part | `StreamHolds` (`StreamPrefix`) | `Marked`; see below |
| `HealthProofs` | `RecentForgets` (`ForgetsExpired`), `CountsReturn` (`CountsAfterRace`), `FailuresShow` (`FailureShows`) | none |
| `FileSourceProofs` | `AlwaysBasics`, `StoredCoversHolds` (`StoredCovers`), `WholeLinesHolds` (`WholeLines`), `OnceHolds` (`OnceUnlessExcused`) | none |
| `QueryProofs` | `QueryTypes`, `RepliesOnceInOrder` (`OnceInOrder`), `ArchiveKeepsHolds` (`ArchiveKeeps`), `OldestExpireHolds` (`OldestExpire`) | none |
| the same, second part | `LinesAndReplies`, `AuthenticHolds` (`Authentic`), `CompleteHolds` (`Complete`) | `Envelopes`; see below |

**AppendWriter.** `IndInv == TypeOK /\ OffsetsAligned /\ OpenIntact /\ ClosedWritten /\
ReportedInFile`. `StreamIntact` is not inductive: it does not say that the next write goes to
the place after the last byte kept. `OpenIntact` adds, for a writer that has a file and was not
misused, that the logical size is at most the offset plus the tail, with equality as long as
the tail is not empty (a sealed segment has an offset past its end). `ClosedWritten` says that
a writer without a file has reported all it was given: close and the rotation may drop the
memory only because of it, and `force_flush` on a closed writer returns success.
`ReportedInFile` needs all of them: a rewrite of the partial block that fails half way may
leave the old or the new block, and both begin with the bytes already reported.

**AsyncWriter, order.** `IndInv == TypeOK /\ Control /\ Order /\ Archived /\ Sidecar`.
`DiskOrder` speaks of the disk only; what keeps it true is `Placed` in `Order`: position for
position, a cell of the file from the write offset on is the cell of tail, batch and queue that
a write under way or failed before may have put there, so that a batch that goes back to the
queue and is written again repeats nothing. It is stated for both keys of a record, its identity
and its number; a sidecar left behind by a failed checkpoint store spoils the numbers and not the
order, hence `Keys` and the hypothesis `"checkpoint" \notin Faults` of `NumbersResume`.
`Sidecar` says what recovery may take on trust: the sidecar's number is above those of the
records before its offset, the ones still in the tail included.

**AsyncWriter, durability.** The second part of `AsyncWriterProofs` takes the byte writer's invariant through
`AWP == INSTANCE AppendWriterProofs` and discharges its condition that no batch meets a writer
that is closed or sealed. `DurableInv == Writer /\ ReadyInv /\ Counted /\ Drained /\ Kept /\
Accounted` holds under `Reliable == Faults \cap {"close", "rename", "archive", "open"} = {}`: no
step of a rotation fails. Writes, checkpoint stores and sidecar reads may fail, and the process
may die anywhere. `CommittedKept` further needs a start that keeps the file (`~TruncateOnStart`),
`NothingLost` one run of the engine, or several without failing writes and without
truncation (`OneRun`), `StopKeepsAcked` also no failing write. None of these hypotheses is a
convenience: with any one of the four rotation faults TLC violates each of the four
properties; a failing write followed by a restart violates `NothingLost`, and a failing write
`StopKeepsAcked` (the fourth behaviour in section 5); a failing checkpoint store violates
`SequenceResumes`. They are the limits of what the code promises.

**AsyncWriter, refinement.** `ShardIsALog` is the refinement `Spec => ImplementsShardLog` under
`Reliable /\ "write" \notin Faults /\ ~TruncateOnStart`, with checkpoint stores and sidecar
reads that may fail and a death at any step, between two removals of a cleanup too. Here containment is not enough: a failed write
may leave a record on disk and queue it again, so that nothing is lost and yet the log is not
the one `ShardLog` describes. `Exactness` shows that without failing writes this cannot be:
`Exact` says that the file holds the first records of `Chain`, the stream followed by batch
and queue, and that tail, batch and queue hold the others. The mapped state is then a picture of
the chain: `OnDisk` is the archives' records and the front of the chain, `Queued` the rest.
Two sequences with increasing identities and the same records are equal, so each action is
reduced to sets of records: it moves the front on (a flush, a seal, a stop), adds at the back
(`Submit`), drops the records of one of the segments over the count (a removal), moves the
active file into an archive (no change of the disk, but more may be retired), or loses what was not on disk (a crash, a start). TLC violates the refinement with each
of the faults left out, and with `TruncateOnStart`.

**Delivery.** `SkipsOnlyMissed` is about the offset file. The invariant follows a batch from the
scan that reads it (`ScanOK`: a record the scan passed over was missed, lies in a segment
still to come, or lies behind all of them) through the pending file and the queue (`LoopOK`,
`OneBatch`) to the acknowledgement (`Stages`: a batch in `offset` or `remove` is acknowledged)
and the offset that passes it (`FilesOK`, which is what a crash leaves).

**Engine.** The invariant places each record of each call: `Mail` (a message belongs to a call that
waits for that shard, comes after all the shard has of that caller, and is that caller's only
one), `Disjoint`, `Numbered`, `Placed`; `Routed` and `Turn` say where records with and
without keys are, `RingOK` that the ring is the configuration's. The refinement is proved
action by action: each is, for each shard, an `Accept`, a `Flush`, a loss of the queue or a
stutter of `ShardLog`. What `PartFor` and the ring are is proved of their definitions by position
and by rank; sums over the round robin counter are lemmas on `Share`.

**Agent.** `Awaited` says which sources have ended at each place of `main`, `RequestsOK` which
places have an HTTP server, `EngineOK` where the engine is up: together nobody appends once
the engine is stopped, and `TakenOK` follows the taken records to the disk. `MigrationOK` relates
the two files of the migration to the place of `main` and to an interrupted earlier migration.

**Agent, streams.** `StreamPrefix` says nothing of the buffers between a socket and the engine.
`StreamInv` does. A source that serves a connection holds exactly what it has read behind some line
end, and the engine has exactly the lines before it (`ServingOK`); outside of an append
no complete line is left in the buffer; a source between two connections holds nothing (`IdleOK`);
and a connection that was left, by the end of its stream, an error, the connection limit or the stop, has all
its complete lines in the log, unless an append failed or the process died (`WholeOK`). What a
batch does to this is `BatchOfStream`: the first `max_lines` lines of a buffer are the texts up to
the end of the last of them (`LineTexts`), and the rest of the buffer goes on behind it. A
crash cuts the log, and what is cut off is its end (`CutLog`). `ForeignOK` keeps the records of the
other sources and of the requests apart, of which the log has any number in between.
The hypothesis `Marked` is about how the model writes text: each line of a connection is at most one cell
of text, a CR or none, and an NL, of which the last line may have only a beginning; and no cell of text
occurs twice, or as a datagram, an input line or an ingested message. It makes a record of the log
tell which line it is; the code does not look into a line. The run's streams satisfy it
(`MCMarked`).

**Health.** `ForgetsExpired` compares a reader's sum with the failures of its window; buckets are
taken over by other threads while it reads. `LabelsOK` bounds each bucket by the failures counted
in it since the minute on its label, also between clearing and labelling; `SumOK` bounds the partial sum
by the failures in the buckets already read.
The other two properties are bounds from below, and have an invariant of their own, `CountInv`.
It speaks of the failures that no disturbed rotation excuses: a rotation that meets another call,
or goes back, writes its minute into `racedAt` and excuses all that is there. So a rotation
that still matters is alone on its counter and goes forward (`RotatesAs`). Until it has
stored the number of its bucket the failures of the window lie as many buckets behind the
current one as they are minutes old (`InStep`), hence the bucket it takes over and clears has
none of them (`NextInStep`: a rotation of `kNumWindows` minutes or more leaves no window to
hit). `KeptOK` says that each bucket then carries the minute of its failures and
counts them all, `Shows` that a reply's finished sums, and the one under way from the failure's
bucket on, are above zero, also when that bucket is read long after the request.
`Sum` is a recursive function over the ring; `Added` shows by induction that it exists.

**File source.** The invariant has layers that follow a byte from the file to the shard and
back to the offset file. `Basics` has the types and what can be busy together (a shard has a letter
only of a call that the loop waits for). `Covers` says of every offset, in memory, on disk and
under way in the turn, that the bytes below it are whole lines that were accepted, dropped by the
limits or, while the call waits, posted to a shard: an append that fails leaves the offset alone,
one that returned well has nothing posted any more. `Turned` and `Whole` say where each message of a
shard lies in the file, from what `Lines` cuts and `ApplyMultiline` joins (`RecordsParted`: each
record is a run of lines, and each character is in one). For `OnceUnlessExcused` this is not
enough: nothing sent twice is a statement about the future of the offsets. `OnceInv` adds that
characters are in one place of one file (`Unique`, `Numbered`, `OnePath`) and, until something
excuses a copy, that all that was sent lies behind the `Frontier` of its path, which is the
offset or, from the append to the store, the offset to come (`Behind`); that the turn goes on from
there under the inode it looked at (`TurnOnce`); and that a start finds on disk what memory
had (`Known`). A failed append, a failed store, a crash with an offset that was not stored, or
an inode that was swapped break `Behind`; these are what `excused` names.

**Query.** `IndInv == DiskInv /\ ReaderTyped /\ Uncut /\ ReaderSound /\ OnceInOrder`. `DiskInv`
is about the files alone and holds whether anybody reads them. `Files` says where a piece of a
line may stand, `Ordered` that older names hold older records and the active log the youngest; it
rests on a name that was taken being older than the next one (`Used`, `Fresh`), which after a
restart that begins the rotation index again only the clock guarantees. `Times` relates the
modification times, which age-based cleanup goes by, to the names, which count-based cleanup goes by: a
segment was written to last no later than its own name says and no earlier than any older name,
hence the aged segments are the oldest of the archive. `Expiry` follows a cleanup from its
listing to the last removal: what it has yet to take is older than all it will leave, so that
wherever it dies, throws or is looked at the youngest `MaxArchived` segments are younger than
everything that went, while of the others a younger one may be gone before an older. Once a
cleanup is through, nothing older than what went is left. `Twins` is what a crash between the rename of the twin and the removal
of the plain file leaves. `ArchiveKeeps` follows from `NothingLost`, and its second half from
`Uncut`: a line that was written whole verifies (`EncodedVerifies`, for each checksum class and
each choice of fields), so that recovery stops at the piece at the end of the file and not
before it. `ReaderSound` says that what the query still has to read is younger than all it has
found, through every renaming of the files under it: a listed segment keeps its name, the active
log only becomes a younger file.

**Query, contents.** `Authentic` and `Complete` rest on what the codec makes of lines, for every
choice of fields, checksum class and payload. `Restored`: an encoded line is accepted and gives the
record back, where `CodecRestores` says so. `MatchesStays`: even where it does not, a line that
parses still matches the queries its record matches. `NumberedIs`: of the `Fragments` of a line with
a checksum, one that is accepted and has a sequence number has lost nothing the checksum covers.
`Content` follows the lines from there: every line in a file is one of these (`GenuineFiles`, with
`EntriesEngine` for what rotation, compression, cleanup and recovery do to them), a twin has nothing
its plain file has not, and a record owed to the query is found, or still in a segment ahead of it
(`Awaited`), or lies behind a line that did not parse; and that segment was counted. A record has one
line wherever copies of it lie (`SameEntry`, from `Ordered`).
The hypothesis `Envelopes` is about the payloads: one that begins like an envelope is one that
`render_agent_record_envelope` makes, and its message is not the word `source_id`. The
reader looks for the first `"source_id"` in the text (record_codec.cc:207) and would take the
value of the next key, `agent_id`, for the source's name. The run's payloads satisfy it
(`MCEnvelopes`).

Where a proof needs induction it takes the least element of a set of naturals with a property
(`Least`, and `Inductive` built on it): the library's induction theorems have operator
parameters, which none of the provers can instantiate. `OnDisk` and `Queued` are recursive
functions on positions for the same reason; what they return is proved with `Inductive`.

Only model-checked are liveness and fairness (`WaitersResume`, `StopEnds`, `ScannerStops`,
`EventuallyDelivered`, `CallsReturn`, `CatchesUp`, `StopReturns`), which are out of the prover's
reach. Every other property of a passing run is the property of a theorem.

## 5. What is not modelled, and known limits

* The bytes of a record and the checksum and hash functions; the sinks' protocols, metrics,
  JSON of the replies, parsing of options; the client, the tools and the benchmarks.
* Power failure and `fdatasync` (a compressed twin is not synced before the plain file is
  removed); temporary sidecar files; the recursive walk over several shards' directories.
* `write_chunked_buffer_prefix` in `flush_tail`: `AlignedWrites` shows the tail shorter than a
  block, so that path is never taken.
* The start and stop of the query server's HTTP and gRPC listeners; `maybe_advance_window` and
  `reset` of the counters, which nothing in the engine or the agent calls.

Five behaviours that TLC finds in `AsyncWriter` and `Delivery` with other constants than the runs':

| Behaviour | Formula and constants |
|---|---|
| `submit` that meets another task's flush returns success although its record is only queued, in `write_ack` and `sync_ack` alike (async_writer.cc:189) | `BatchSize = 1 /\ ~crashed => acked \subseteq Durable` as an invariant; two submitters, `BatchSize = 1`, `MaxRecords = 2`, no faults |
| a gzip or a removal that fails leaves the writer without a file; the next small batch stays in memory, `force_flush` reports success, the next rotation forgets it (append_writer.cc:133) | `CommittedKept`; `Faults = {"archive"}`, `BatchSize = 2`, `RotateSize = 3`, `MaxArchived = 2`, `MaxRecords = 4`, one submitter, `MaxFaults = 1` |
| without the flush timer (the default) all submitters can wait for room with nobody left to flush (async_writer.cc:249) | `WaitersResume` under `FairSpec`; `TimerEnabled = FALSE`, two submitters, `BatchSize = 3`, `MaxPending = 2`, `MaxRecords = 4` |
| a timer's flush that fails while `stop` waits at the gate puts its batch back into a queue that `stop` no longer looks at (async_writer.cc:98) | `StopKeepsAcked`; `Faults = {"write"}`, `TimerEnabled = TRUE`, `BatchSize = 3`, `RotateSize = 3` |
| an unreadable state file ends the scanner before the stop flag is set; the workers' only wake-up is lost and shutdown waits for them for ever (agent.cc:765) | `stopping /\ Up ~> ~Up` under `FairSpec`; two workers, `Faults = {"load"}`, `MaxRecords = 2`, `MaxRotations = 0`, `MaxSessions = 1` |

What the models show as exceptions of the properties, or reading showed:

* Writer and recovery. The timer's flush leaves a partial block in memory and no later
  timer looks at it; without another submit or a stop it does not reach the file. Recovery
  accepts a run of NULs before a record as part of a line, because a line that does not
  begin with `crc=` passes `verify_record_line`. A checkpoint store that fails after a
  rotation, followed by a crash, leaves the old checkpoint beside a new segment.
* Engine. Records handed to a writer that is stopping are dropped and reported as success.
* Codec. With the header class and no field before the payload, the reader does not accept
  the writer's lines. Without any structure, a payload that begins with `crc=` or `seq=` is
  read as that field. A torn line shorter than its prefix is returned as a record without
  sequence number. An agent's record whose message is the word `source_id` is read back with the
  agent's name as its source.
* Archives and queries. A query that races a rotation misses the records that moved. A cleanup
  that dies or throws between two removals leaves an older segment while a younger one is gone
  (log_manager.cc:536 sorts the newest first); the next cleanup takes it. An
  expired segment's `.gz` twin comes back when cleanup removed only the plain file. Cleanup
  ages a segment by its file's mtime, so that the segment of an idle shard may expire as it
  is rotated. `log_reader.cc:33` says that a damaged gzip segment is skipped as a whole; its
  readable beginning is kept. A limit of 0 is nothing over HTTP and 100 over gRPC.
* Health. A rotation that races a `record`, or a clock that steps back, can lose the counts of
  the minutes up to it. Status and reason of a gRPC reply may disagree.
* File source. An offset is stored when the engine has *accepted* the lines; a crash loses what
  the shard had only queued. A file truncated in place that grows past the offset before
  the next look is read from the offset. A multiline record is cut where a batch ends. Multiline
  assembly drops the empty lines before a record and counts none of them, so the
  `source_offset`s of the records behind them in the batch are too small: `WholeLines` excepts
  multiline files with empty lines, and batches from which the limits dropped a record. A
  configured file that is missing ends each pass before the globbed files after it.
* Agent. A source that failed (one backpressure pause is enough for UDP and stdin, although
  `src/doc/agent-usage-guide.md:118` says that records are dropped and counted) rethrows at
  shutdown, before the HTTP server and the engine are stopped. A crash between the two
  steps of the migration makes every later start fail. `max_socket_connections` counts all
  connections the loop has ever had. `{"records":[]}`, or an array with something that is not
  an object, is ingested as one record. The last, unfinished line of a stream is dropped.
* Delivery. When the store of a pending batch fails after a batch was formed, the scanner's
  next turn submits the batch from memory without a pending file, although
  `src/doc/agent-architecture.md:69` has the file written before the batch is queued. The same
  document puts one dispatcher on the control shard; the code has one per shard.

## 6. Plan

Done: every module of section 2, and the proofs of section 4. The modules that theorems are
planned for declare no RECURSIVE operator.

To come: the parts that section 5 lists as not modelled.
