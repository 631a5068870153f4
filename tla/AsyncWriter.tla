---------------------------- MODULE AsyncWriter ----------------------------
(***************************************************************************)
(* One shard of the engine: the queue and the flush of async_writer.cc,    *)
(* over the byte writer of append_writer.cc (module AppendWriter), with    *)
(* the rotation, the checkpoint sidecar and the recovery of                *)
(* log_manager.cc.                                                         *)
(*                                                                         *)
(* The shard's reactor runs one task at a time and switches at co_await,   *)
(* so one action is what runs between two of them: a submit up to its      *)
(* first wait, one I/O of the flush, one step of start or stop.  At most   *)
(* one flush is in progress (_flush_in_progress); callers queue behind it. *)
(*                                                                         *)
(* A record is one cell of the file, so a block holds Alignment records    *)
(* and _pending_bytes is Len(pending); records that straddle blocks and    *)
(* single bytes are AppendWriter's subject.  A record carries the sequence *)
(* number the code gives it and an identity, which the code does not have, *)
(* so that two records that get the same number can be told apart.         *)
(***************************************************************************)
EXTENDS Integers, SequencesExt, FiniteSets

CONSTANTS
  Submitters,         \* the tasks that call submit or submit_many
  NUL,                \* a padding cell
  Alignment,          \* records in a DMA block
  BatchSize,          \* batch_size
  MaxPending,         \* max_pending_bytes, 0: no backpressure
  LowWatermark,       \* pending_bytes_low_watermark, 0: half of MaxPending
  RotateSize,         \* rotate_size_bytes, 0: no rotation by size
  TimeRotation,       \* rotate_interval_seconds > 0: any flush may find it due
  MaxArchived,        \* max_archived_files_per_shard
  TimerEnabled,       \* flush_interval_ms > 0
  CheckpointEnabled,  \* checkpoint_enabled
  TruncateOnStart,    \* truncate_on_start
  Faults,             \* the I/O operations that may fail
  MaxFaults,          \* bound: failed operations
  MaxRecords,         \* bound: records submitted
  MaxMany,            \* bound: records in one submit_many
  MaxSessions         \* bound: starts of the engine

FaultKinds == {"write", "close", "rename", "archive", "open", "checkpoint", "sidecar"}

ASSUME SubmittersAssumption == "timer" \notin Submitters /\ "stop" \notin Submitters
ASSUME ConfigAssumption ==
  /\ BatchSize \in Nat \ {0} /\ MaxArchived \in Nat \ {0}
  /\ MaxPending \in Nat /\ LowWatermark \in Nat /\ RotateSize \in Nat
  /\ MaxPending > 0 => LowWatermark <= MaxPending
  /\ Alignment \in Nat \ {0}
  /\ {TimeRotation, TimerEnabled, CheckpointEnabled, TruncateOnStart} \subseteq BOOLEAN
  /\ Faults \subseteq FaultKinds
  /\ {MaxFaults, MaxRecords, MaxMany, MaxSessions} \subseteq Nat

Record == [id : Nat, seq : Nat]

ASSUME PaddingAssumption == NUL \notin Record

VARIABLES
  \* AppendWriter's state: the active file and the writer of it
  file, present, file_open, tail, write_offset, logical_size,
  stream, flushed, misused,
  \* AsyncWriter's state
  pending,         \* _pending
  sequence,        \* _sequence
  rotation_index,  \* _rotation_index
  batch,           \* the records the flush in progress took from pending
  flush,           \* the flush in progress: where it is, who awaits it
  life,            \* where start and stop are
  sub,             \* where each submitter is in submit
  \* the other files of the shard
  archives,        \* the contents of the archived segments, oldest first
  checkpoint,      \* the checkpoint sidecar: at most one
  \* History, for the properties and the bounds only
  submitted,       \* how many records were submitted: the last identity
  held,            \* the records of each submitter's call in progress
  acked,           \* the records whose submit returned without an error
  committed,       \* the records a flush reported written, tail included
  expired,         \* the records archive cleanup removed
  crashed,         \* did the process ever die?
  faults,          \* failed operations so far
  sessions         \* starts so far

AW == INSTANCE AppendWriter WITH
        Cells <- Record, Batches <- Seq(Record), MaxBytes <- MaxRecords

writerVars == <<file, present, file_open, tail, write_offset, logical_size,
                stream, flushed, misused>>
queueVars  == <<pending, sequence, batch>>
diskVars   == <<archives, checkpoint>>
ghostVars  == <<submitted, held, acked, committed, expired, crashed, faults, sessions>>
vars == <<writerVars, queueVars, rotation_index, flush, life, sub, diskVars, ghostVars>>

-----------------------------------------------------------------------------
IsRecord(cell) == cell # NUL

Ids(cells) == {cells[i].id : i \in {j \in DOMAIN cells : IsRecord(cells[j])}}

ArchivedIds == UNION {Ids(archives[i]) : i \in DOMAIN archives}

Idle == [pc |-> "idle", owner |-> "timer", partial |-> FALSE]

(* _stopping: set by stop, cleared only by the next start.                 *)
Stopping == life \in {"stopping", "gate", "stop_tail", "stop_checkpoint", "stop_close",
                      "stopped", "failed"}

(* above_backpressure_limit and below_backpressure_resume_threshold for a  *)
(* queue of this length.                                                   *)
AboveLimit(n) == MaxPending > 0 /\ n >= MaxPending

ResumeThreshold == IF LowWatermark > 0 THEN LowWatermark ELSE MaxPending \div 2

BelowResume(n) == MaxPending = 0 \/ n <= ResumeThreshold

(* notify_backpressure_waiters: broadcast wakes every waiter there is.     *)
Notified(states, stopping, n) ==
  [s \in Submitters |->
     IF states[s] = "waiting" /\ (stopping \/ BelowResume(n)) THEN "woken" ELSE states[s]]

(* A submitter's call returns without an error.                            *)
Return(s) ==
  /\ sub' = [sub EXCEPT ![s] = "idle"]
  /\ acked' = acked \cup held[s]
  /\ held' = [held EXCEPT ![s] = {}]

Fault(kind) ==
  /\ kind \in Faults
  /\ faults < MaxFaults
  /\ faults' = faults + 1

-----------------------------------------------------------------------------
(* The flush.                                                              *)

(* Mutant of StartFlush: _flush_in_progress is not looked at.              *)
StartFlushUnguarded(queue, owner, partial) ==
  /\ queue # <<>>
  /\ flush' = [pc |-> "append", owner |-> owner, partial |-> partial]
  /\ batch' = queue
  /\ pending' = <<>>

(* flush_once up to its first I/O: take the whole queue.                   *)
StartFlush(queue, owner, partial) ==
  /\ flush.pc = "idle"
  /\ queue # <<>>
  /\ flush' = [pc |-> "append", owner |-> owner, partial |-> partial]
  /\ batch' = queue
  /\ pending' = <<>>

(* Mutant of FlushReturns: the waiters are not woken.                      *)
FlushReturnsSilently ==
  /\ flush' = Idle
  /\ sub' = IF flush.owner \in Submitters
            THEN [sub EXCEPT ![flush.owner] = "flushed"] ELSE sub

(* flush_once returns: wake the waiters, let its caller go on.             *)
FlushReturns ==
  LET states == Notified(sub, Stopping, Len(pending)) IN
  /\ flush' = Idle
  /\ sub' = IF flush.owner \in Submitters
            THEN [states EXCEPT ![flush.owner] = "flushed"] ELSE states

(* The rest of FlushThrows, once the queue is what it should be.           *)
ErrorReturned(queue) ==
  LET states == Notified(sub, Stopping, Len(queue))
      owned  == flush.owner \in Submitters
  IN
  /\ pending' = queue
  /\ batch' = <<>>
  /\ flush' = Idle
  /\ sub' = IF owned THEN [states EXCEPT ![flush.owner] = "idle"] ELSE states
  /\ held' = IF owned THEN [held EXCEPT ![flush.owner] = {}] ELSE held
  /\ life' = IF flush.owner = "stop" THEN "failed" ELSE life
  /\ UNCHANGED <<sequence, submitted, acked, expired, crashed, sessions>>

(* Mutants of FlushThrows: the batch is forgotten, or goes to the back.    *)
FlushThrowsDropsBatch == ErrorReturned(pending)
FlushThrowsRequeuesLast == ErrorReturned(pending \o batch)

(* flush_once fails: what is left of the batch goes back to the front of   *)
(* the queue, waiters are woken, the caller gets the error.  The timer     *)
(* logs it; stop is abandoned.                                             *)
FlushThrows == ErrorReturned(batch \o pending)

Goto(pc) == flush' = [flush EXCEPT !.pc = pc] /\ UNCHANGED sub

(* maybe_rotate once the batch is written: go on to rotate, or return.     *)
MaybeRotate ==
  LET sizeReady == RotateSize > 0 /\ logical_size' >= RotateSize IN
  \/ (sizeReady \/ TimeRotation) /\ Goto("seal")
  \/ ~sizeReady /\ FlushReturns

(* append_batch.  A timer's flush stops here: the tail stays in memory.    *)
FlushAppend ==
  /\ flush.pc = "append"
  /\ AW!AppendBatch(batch)
  /\ batch' = <<>>
  /\ IF flush.partial THEN Goto("force") ELSE MaybeRotate
  /\ UNCHANGED <<pending, sequence, rotation_index, life, diskVars, ghostVars>>

FlushAppendFails ==
  /\ flush.pc = "append"
  /\ Fault("write")
  /\ AW!AppendBatchFails(batch)
  /\ FlushThrows
  /\ UNCHANGED <<rotation_index, diskVars, committed>>

(* force_flush: the caller is told that everything is in the file.         *)
FlushForce ==
  /\ flush.pc = "force"
  /\ AW!ForceFlush
  /\ committed' = committed \cup Ids(stream)
  /\ MaybeRotate
  /\ UNCHANGED <<queueVars, rotation_index, life, diskVars,
                 submitted, held, acked, expired, crashed, faults, sessions>>

FlushForceFails ==
  /\ flush.pc = "force"
  /\ Fault("write")
  /\ AW!ForceFlushFails
  /\ FlushThrows
  /\ UNCHANGED <<rotation_index, diskVars, committed>>

-----------------------------------------------------------------------------
(* Rotation, the end of a flush that filled the segment.                   *)

(* flush_tail(true) and close; a closed writer skips both.                 *)
RotateSeal ==
  /\ flush.pc = "seal"
  /\ IF file_open THEN AW!FlushTail ELSE UNCHANGED writerVars
  /\ Goto("close")
  /\ UNCHANGED <<queueVars, rotation_index, life, diskVars, ghostVars>>

RotateClose ==
  /\ flush.pc = "close"
  /\ IF file_open THEN AW!Close ELSE UNCHANGED writerVars
  /\ rotation_index' = rotation_index + 1
  /\ Goto("rename")
  /\ UNCHANGED <<queueVars, life, diskVars, ghostVars>>

(* Either of them failing: in its write, in truncate, or in flush or       *)
(* close, by when the file is as after a success.                          *)
RotateCloseFails ==
  /\ flush.pc \in {"seal", "close"}
  /\ Fault("close")
  /\ AW!FlushTailWriteFails \/ AW!FlushTailTruncateFails \/ AW!FlushTail
  /\ FlushThrows
  /\ UNCHANGED <<rotation_index, diskVars, committed>>

(* rotate_active_file.  With no active file, which an earlier failure can  *)
(* leave behind, it does nothing.                                          *)
RotateRename ==
  /\ flush.pc = "rename"
  /\ IF present
     THEN AW!RenameAway /\ archives' = Append(archives, file) /\ Goto("cleanup")
     ELSE UNCHANGED <<writerVars, archives>> /\ Goto("reopen")
  /\ UNCHANGED <<queueVars, rotation_index, life, checkpoint, ghostVars>>

(* rename fails: the file stays where it is, closed.                       *)
RotateRenameFails ==
  /\ flush.pc = "rename"
  /\ present
  /\ Fault("rename")
  /\ FlushThrows
  /\ UNCHANGED <<writerVars, rotation_index, diskVars, committed>>

(* Mutant of NextOut: the count is off by one.                             *)
NextOutOneMore == IF Len(archives) >= MaxArchived THEN Len(archives) - MaxArchived + 1 ELSE 0

(* The place of the segment that goes next, 0: none.  Of those over the    *)
(* count cleanup_archives takes the newest first.                          *)
NextOut == IF Len(archives) > MaxArchived THEN Len(archives) - MaxArchived ELSE 0

(* cleanup_archives, behind gzip_file, which changes no contents: one file *)
(* after the other.                                                        *)
RotateCleanup ==
  /\ flush.pc = "cleanup"
  /\ IF NextOut # 0
     THEN /\ archives' = RemoveAt(archives, NextOut)
          /\ expired' = expired \cup Ids(archives[NextOut])
          /\ UNCHANGED <<flush, sub>>
     ELSE Goto("reopen") /\ UNCHANGED <<archives, expired>>
  /\ UNCHANGED <<writerVars, queueVars, rotation_index, life, checkpoint,
                 submitted, held, acked, committed, crashed, faults, sessions>>

(* gzip_file or one of the removals throws: the archive is there, the      *)
(* writer has no file.                                                     *)
RotateCleanupFails ==
  /\ flush.pc = "cleanup"
  /\ Fault("archive")
  /\ FlushThrows
  /\ UNCHANGED <<writerVars, rotation_index, diskVars, committed>>

(* reset_after_rotation and start: a new, empty active file.               *)
RotateReopen ==
  /\ flush.pc = "reopen"
  /\ AW!Start(TruncateOnStart)
  /\ IF CheckpointEnabled THEN Goto("checkpoint") ELSE FlushReturns
  /\ UNCHANGED <<queueVars, rotation_index, life, diskVars, ghostVars>>

RotateReopenFails ==
  /\ flush.pc = "reopen"
  /\ Fault("open")
  /\ AW!StartFails
  /\ FlushThrows
  /\ UNCHANGED <<rotation_index, diskVars, committed>>

(* persist_checkpoint: force_flush, then replace the sidecar by rename.    *)
PersistCheckpoint ==
  /\ AW!ForceFlush
  /\ checkpoint' = {[size |-> logical_size, seq |-> sequence, rotation |-> rotation_index]}

(* It fails before the rename or, in the directory's fsync, after it.      *)
PersistCheckpointFails ==
  /\ Fault("checkpoint")
  /\ PersistCheckpoint \/ (AW!ForceFlush /\ UNCHANGED checkpoint)

RotateCheckpoint ==
  /\ flush.pc = "checkpoint"
  /\ PersistCheckpoint
  /\ FlushReturns
  /\ UNCHANGED <<queueVars, rotation_index, life, archives, ghostVars>>

RotateCheckpointFails ==
  /\ flush.pc = "checkpoint"
  /\ PersistCheckpointFails
  /\ FlushThrows
  /\ UNCHANGED <<rotation_index, archives, committed>>

-----------------------------------------------------------------------------
(* The tasks that put records in the queue and start flushes.              *)

(* submit and submit_many, up to the first wait: number the records, queue *)
(* them, and flush when the queue is long enough.  While another task's    *)
(* flush is in progress flush_background returns at once.  A call that     *)
(* finds _stopping set returns at once and leaves no trace.                *)
Submit(s, n) ==
  LET new   == [k \in 1..n |-> [id |-> submitted + k, seq |-> sequence + k - 1]]
      queue == pending \o new
      ids   == (submitted + 1)..(submitted + n)
      due   == Len(queue) >= BatchSize \/ AboveLimit(Len(queue))
  IN
  /\ life = "up"
  /\ sub[s] = "idle"
  /\ submitted + n <= MaxRecords
  /\ submitted' = submitted + n
  /\ sequence' = sequence + n
  /\ \/ /\ due
        /\ StartFlush(queue, s, TRUE)
        /\ sub' = [sub EXCEPT ![s] = "flushing"]
        /\ held' = [held EXCEPT ![s] = ids]
        /\ UNCHANGED acked
     \/ /\ due /\ flush.pc # "idle"
        /\ pending' = queue
        /\ sub' = [sub EXCEPT ![s] = "flushed"]
        /\ held' = [held EXCEPT ![s] = ids]
        /\ UNCHANGED <<batch, flush, acked>>
     \/ /\ ~due
        /\ pending' = queue
        /\ acked' = acked \cup ids
        /\ UNCHANGED <<batch, flush, sub, held>>
  /\ UNCHANGED <<writerVars, rotation_index, life, diskVars,
                 committed, expired, crashed, faults, sessions>>

(* maybe_wait_for_backpressure, once flush_background returned: wait for   *)
(* room, or return.                                                        *)
Resume(s) ==
  /\ sub[s] = "flushed"
  /\ IF AboveLimit(Len(pending)) /\ ~Stopping /\ ~BelowResume(Len(pending))
     THEN sub' = [sub EXCEPT ![s] = "waiting"] /\ UNCHANGED <<acked, held>>
     ELSE Return(s)
  /\ UNCHANGED <<writerVars, queueVars, rotation_index, flush, life, diskVars,
                 submitted, committed, expired, crashed, faults, sessions>>

(* A woken waiter looks at the queue again before it returns.              *)
Wake(s) ==
  /\ sub[s] = "woken"
  /\ IF Stopping \/ BelowResume(Len(pending))
     THEN Return(s)
     ELSE sub' = [sub EXCEPT ![s] = "waiting"] /\ UNCHANGED <<acked, held>>
  /\ UNCHANGED <<writerVars, queueVars, rotation_index, flush, life, diskVars,
                 submitted, committed, expired, crashed, faults, sessions>>

(* The flush timer: flush_background(false, false).                        *)
Timer ==
  /\ TimerEnabled
  /\ life = "up"
  /\ StartFlush(pending, "timer", FALSE)
  /\ UNCHANGED <<writerVars, sequence, rotation_index, life, sub, diskVars, ghostVars>>

-----------------------------------------------------------------------------
(* stop.                                                                   *)

Stop ==
  /\ life = "up"
  /\ life' = "stopping"
  /\ sub' = Notified(sub, TRUE, Len(pending))
  /\ UNCHANGED <<writerVars, queueVars, rotation_index, flush, diskVars, ghostVars>>

(* Mutant of StopFlush: it calls flush_background, which a stopping writer *)
(* returns from at once.                                                   *)
StopFlushInBackground ==
  /\ life = "stopping"
  /\ ~Stopping
  /\ StartFlush(pending, "stop", TRUE)
  /\ UNCHANGED <<writerVars, sequence, rotation_index, life, sub, diskVars, ghostVars>>

(* The drain loop: flush while the queue is not empty.  It only spins when *)
(* the queue fills behind another task's flush.                            *)
StopFlush ==
  /\ life = "stopping"
  /\ StartFlush(pending, "stop", TRUE)
  /\ UNCHANGED <<writerVars, sequence, rotation_index, life, sub, diskVars, ghostVars>>

(* Mutant of StopDrained: the queue is not looked at.                      *)
StopDrainedEarly ==
  /\ life = "stopping"
  /\ flush.pc = "idle" \/ flush.owner # "stop"
  /\ life' = "gate"
  /\ UNCHANGED <<writerVars, queueVars, rotation_index, flush, sub, diskVars, ghostVars>>

StopDrained ==
  /\ life = "stopping"
  /\ flush.pc = "idle" \/ flush.owner # "stop"
  /\ pending = <<>>
  /\ life' = "gate"
  /\ UNCHANGED <<writerVars, queueVars, rotation_index, flush, sub, diskVars, ghostVars>>

(* _gate.close() waits for the flush in progress, if there is one.         *)
StopGate ==
  /\ life = "gate"
  /\ flush.pc = "idle"
  /\ life' = "stop_tail"
  /\ UNCHANGED <<writerVars, queueVars, rotation_index, flush, sub, diskVars, ghostVars>>

StopTail ==
  /\ life = "stop_tail"
  /\ IF file_open THEN AW!FlushTail ELSE UNCHANGED writerVars
  /\ life' = IF CheckpointEnabled THEN "stop_checkpoint" ELSE "stop_close"
  /\ UNCHANGED <<queueVars, rotation_index, flush, sub, diskVars, ghostVars>>

StopCheckpoint ==
  /\ life = "stop_checkpoint"
  /\ PersistCheckpoint
  /\ life' = "stop_close"
  /\ UNCHANGED <<queueVars, rotation_index, flush, sub, archives, ghostVars>>

StopClose ==
  /\ life = "stop_close"
  /\ IF file_open THEN AW!Close ELSE UNCHANGED writerVars
  /\ life' = "stopped"
  /\ UNCHANGED <<queueVars, rotation_index, flush, sub, diskVars, ghostVars>>

(* A step of stop throws; the process is on its way out.                   *)
StopFails ==
  /\ \/ /\ life \in {"stop_tail", "stop_close"}
        /\ Fault("close")
        /\ AW!FlushTailWriteFails \/ AW!FlushTailTruncateFails \/ AW!FlushTail
        /\ UNCHANGED checkpoint
     \/ /\ life = "stop_checkpoint"
        /\ PersistCheckpointFails
  /\ life' = "failed"
  /\ UNCHANGED <<queueVars, rotation_index, flush, sub, archives,
                 submitted, held, acked, committed, expired, crashed, sessions>>

-----------------------------------------------------------------------------
(* start and recovery.                                                     *)

(* start opens the file, creating it when it is missing, before anything   *)
(* is read from it.                                                        *)
StartOpen ==
  /\ life \in {"down", "stopped"}
  /\ \A s \in Submitters : sub[s] = "idle"
  /\ sessions < MaxSessions
  /\ sessions' = sessions + 1
  /\ AW!Start(TruncateOnStart)
  /\ pending' = <<>>
  /\ sequence' = 0
  /\ rotation_index' = 0
  /\ life' = IF ~TruncateOnStart THEN "recover"
             ELSE IF CheckpointEnabled THEN "start_checkpoint" ELSE "up"
  /\ UNCHANGED <<batch, flush, sub, diskVars,
                 submitted, held, acked, committed, expired, crashed, faults>>

(* Mutants of Scan: nothing after the offset is looked at, and the number  *)
(* of the last record is given again.                                      *)
ScanNothing(from, next) == [size |-> from, seq |-> next]

ScanResumesAtLast(from, next) ==
  LET records == {i \in (from + 1)..Len(file) : IsRecord(file[i])}
      last    == CHOOSE i \in records : \A j \in records : j <= i
  IN  IF records = {} THEN [size |-> from, seq |-> next]
                      ELSE [size |-> last, seq |-> file[last].seq]

(* scan_log_file_streaming from an offset: the records up to the padding   *)
(* at the end of the file, and the number after the last one's.  Padding   *)
(* before a record does not stop the scan: a line that does not start with *)
(* "crc=" is taken for a record without a checksum.                        *)
Scan(from, next) ==
  LET records == {i \in (from + 1)..Len(file) : IsRecord(file[i])}
      last    == CHOOSE i \in records : \A j \in records : j <= i
  IN  IF records = {} THEN [size |-> from, seq |-> next]
                      ELSE [size |-> last, seq |-> file[last].seq + 1]

(* recover_active_file, and recover_from_checkpoint's use of what it       *)
(* returns.  A checkpoint is used when the file is long enough for it;     *)
(* else, or when it cannot be read, the whole file is scanned.             *)
Recover ==
  /\ life = "recover"
  /\ \/ \E c \in checkpoint :
          /\ Len(file) >= c.size
          /\ AW!TruncateTo(Scan(c.size, c.seq).size)
          /\ sequence' = Scan(c.size, c.seq).seq
          /\ rotation_index' = c.rotation
          /\ UNCHANGED faults
     \/ /\ \/ /\ \A c \in checkpoint : Len(file) < c.size
              /\ UNCHANGED faults
           \/ /\ checkpoint # {}
              /\ Fault("sidecar")
        /\ AW!TruncateTo(Scan(0, 0).size)
        /\ sequence' = Scan(0, 0).seq
        /\ rotation_index' = 0
  /\ life' = IF CheckpointEnabled THEN "start_checkpoint" ELSE "up"
  /\ UNCHANGED <<pending, batch, flush, sub, diskVars,
                 submitted, held, acked, committed, expired, crashed, sessions>>

StartCheckpoint ==
  /\ life = "start_checkpoint"
  /\ PersistCheckpoint
  /\ life' = "up"
  /\ UNCHANGED <<queueVars, rotation_index, flush, sub, archives, ghostVars>>

-----------------------------------------------------------------------------
(* The process dies.  A start that throws is a death too.                  *)
ProcessDies ==
  /\ life' = "down"
  /\ pending' = <<>>
  /\ batch' = <<>>
  /\ sequence' = 0
  /\ rotation_index' = 0
  /\ flush' = Idle
  /\ sub' = [s \in Submitters |-> "idle"]
  /\ held' = [s \in Submitters |-> {}]
  /\ crashed' = TRUE
  /\ UNCHANGED <<diskVars, submitted, acked, committed, expired, faults, sessions>>

Crash ==
  /\ life \notin {"down", "stopped"}
  /\ sessions < MaxSessions
  /\ AW!Crash
  /\ ProcessDies

(* ... in the middle of append_batch: the chunks of the buffer are issued  *)
(* in order, so the file got the first blocks of it.                       *)
CrashInAppend ==
  LET bytes == tail \o batch IN
  /\ flush.pc = "append"
  /\ sessions < MaxSessions
  /\ file_open
  /\ \E last \in 1..(Len(bytes) \div Alignment) :
       file' = AW!OverwriteAll(file, write_offset, SubSeq(bytes, 1, last * Alignment))
  /\ AW!ProcessForgets
  /\ UNCHANGED present
  /\ ProcessDies

(* append_batch with a full block to write and no file: dma_write on an    *)
(* empty seastar::file.                                                    *)
AppendToNoFile ==
  /\ flush.pc = "append"
  /\ ~file_open
  /\ AW!AlignDown(Len(tail \o batch)) > 0
  /\ AW!Crash
  /\ ProcessDies

-----------------------------------------------------------------------------
Init ==
  /\ AW!Init
  /\ pending = <<>>
  /\ sequence = 0
  /\ rotation_index = 0
  /\ batch = <<>>
  /\ flush = Idle
  /\ life = "down"
  /\ sub = [s \in Submitters |-> "idle"]
  /\ archives = <<>>
  /\ checkpoint = {}
  /\ submitted = 0
  /\ held = [s \in Submitters |-> {}]
  /\ acked = {}
  /\ committed = {}
  /\ expired = {}
  /\ crashed = FALSE
  /\ faults = 0
  /\ sessions = 0

(* The I/O of the flush in progress, when it succeeds.                     *)
FlushStep ==
  \/ FlushAppend \/ FlushForce
  \/ RotateSeal \/ RotateClose \/ RotateRename \/ RotateCleanup \/ RotateReopen \/ RotateCheckpoint

FlushFails ==
  \/ FlushAppendFails \/ FlushForceFails \/ RotateCloseFails \/ RotateRenameFails
  \/ RotateCleanupFails \/ RotateReopenFails \/ RotateCheckpointFails

StartStep == StartOpen \/ Recover \/ StartCheckpoint

StopStep ==
  \/ StopFlush \/ StopDrained \/ StopGate \/ StopTail \/ StopCheckpoint \/ StopClose

(* What the shard's tasks do.  From the rename to the last removal the     *)
(* rotation does not yield to them; the process may die meanwhile.         *)
Task ==
  \/ \E s \in Submitters : \E n \in 1..MaxMany : Submit(s, n)
  \/ \E s \in Submitters : Resume(s) \/ Wake(s)
  \/ Timer
  \/ Stop
  \/ StopStep
  \/ StopFails

Next ==
  \/ flush.pc # "cleanup" /\ Task
  \/ FlushStep
  \/ FlushFails
  \/ StartStep
  \/ Crash
  \/ CrashInAppend
  \/ AppendToNoFile

Spec == Init /\ [][Next]_vars

(* I/O completes, ready tasks run, an armed timer fires, and stop, once    *)
(* called, is carried through.  Nobody has to submit, stop, fail or crash. *)
Fairness ==
  /\ WF_vars(FlushStep)
  /\ WF_vars(Timer)
  /\ WF_vars(StopStep)
  /\ \A s \in Submitters : WF_vars(Resume(s)) /\ WF_vars(Wake(s))

FairSpec == Spec /\ Fairness

-----------------------------------------------------------------------------
(* What is on disk, and what is accepted and not on disk yet.              *)

(* Some segments, one after the other.  Here and in RecordsOf the recursion *)
(* is a function, so that the refinement of ShardLog can be proved.        *)
Joined(segments) ==
  LET first[n \in 0..Len(segments)] ==
        IF n = 0 THEN <<>> ELSE first[n - 1] \o segments[n]
  IN  first[Len(segments)]

(* The records among some cells, in order, but those with an identity in   *)
(* `known'.                                                                *)
RecordsOf(cells, known) ==
  LET first[n \in 0..Len(cells)] ==
        IF n = 0 THEN <<>>
        ELSE IF IsRecord(cells[n]) /\ cells[n].id \notin known
             THEN Append(first[n - 1], cells[n])
             ELSE first[n - 1]
  IN  first[Len(cells)]

OnDisk == RecordsOf(Joined(Append(archives, file)), {})

(* How many records lie in segments over the count.                        *)
Retired == Len(RecordsOf(Joined(SubSeq(archives, 1, Len(archives) - MaxArchived)), {}))

Queued == RecordsOf(tail \o (batch \o pending), Ids(file))

Durable == Ids(file) \cup ArchivedIds \cup expired

(* The records among some cells increase in key, their "id" or their "seq". *)
Increasing(key, cells) ==
  \A i, j \in DOMAIN cells :
    i < j /\ IsRecord(cells[i]) /\ IsRecord(cells[j]) => cells[i][key] < cells[j][key]

(* Each record among the first cells was accepted before each of the others. *)
AllBefore(first, second) ==
  \A i \in DOMAIN first : \A j \in DOMAIN second :
    IsRecord(first[i]) /\ IsRecord(second[j]) => first[i].id < second[j].id

-----------------------------------------------------------------------------
TypeOK ==
  /\ AW!TypeOK
  /\ pending \in Seq(Record) /\ batch \in Seq(Record)
  /\ sequence \in Nat /\ rotation_index \in Nat
  /\ flush \in [pc : {"idle", "append", "force", "seal", "close", "rename", "cleanup",
                      "reopen", "checkpoint"},
                owner : Submitters \cup {"timer", "stop"}, partial : BOOLEAN]
  /\ life \in {"down", "recover", "start_checkpoint", "up", "stopping", "gate",
               "stop_tail", "stop_checkpoint", "stop_close", "stopped", "failed"}
  /\ sub \in [Submitters -> {"idle", "flushing", "flushed", "waiting", "woken"}]
  /\ archives \in Seq(Seq(Record \cup {NUL}))
  /\ checkpoint \in SUBSET [size : Nat, seq : Nat, rotation : Nat]
  /\ Cardinality(checkpoint) <= 1
  /\ submitted \in Nat /\ faults \in Nat /\ sessions \in Nat
  /\ held \in [Submitters -> SUBSET Nat]
  /\ {acked, committed, expired} \subseteq SUBSET Nat
  /\ crashed \in BOOLEAN

(* The flush that takes the queue, the failure that puts it back, and      *)
(* every step of a rotation lose no record: as long as the process lives,  *)
(* each accepted record is on disk, in the tail, in the batch being        *)
(* written or in the queue.                                                *)
NothingLost ==
  ~crashed => (1..submitted) \subseteq Durable \cup Ids(tail) \cup Ids(batch) \cup Ids(pending)

(* Records reach the disk in the order they were accepted, each once:      *)
(* neither a failed flush that puts its batch back before newer records,   *)
(* nor a rotation, nor a recovery after a crash at any point reorders or   *)
(* repeats one.                                                            *)
DiskOrder ==
  LET segments == Append(archives, file) IN
  \A a \in DOMAIN segments :
    /\ Increasing("id", segments[a])
    /\ \A b \in (a + 1)..Len(segments) : AllBefore(segments[a], segments[b])

(* The numbers along the active segment and the queue behind it increase,  *)
(* and the next one to be given is larger than all of them: a restarted    *)
(* shard resumes after the last record recovery kept.                      *)
SequenceResumes ==
  life = "up" =>
    LET cells == stream \o (batch \o pending) IN
    /\ Increasing("seq", cells)
    /\ \A i \in DOMAIN cells : IsRecord(cells[i]) => cells[i].seq < sequence

(* A record that a flush with force_flush reported written is on disk from *)
(* then on, until archive cleanup removes its segment: no crash, restart,  *)
(* recovery or rotation takes it away.                                     *)
CommittedKept == committed \subseteq Durable

(* A clean stop leaves nothing behind: every record whose submit returned  *)
(* without an error is on disk when stop returns.                          *)
StopKeepsAcked == life = "stopped" /\ ~crashed => acked \subseteq Durable

(* The flush hands a batch only to a writer that has a file and whose next *)
(* write goes where the segment ends: what AppendWriter's guarantees ask   *)
(* of its caller, whatever flush, rotation and recovery did before.        *)
WriterReady == flush.pc = "append" => AW!Ready

(* Across all the segments of the shard a sequence number names one        *)
(* record.                                                                 *)
UniqueSequences ==
  \A i, j \in DOMAIN OnDisk : OnDisk[i].seq = OnDisk[j].seq => i = j

(* A submitter that waits for room in the queue is let go.                 *)
WaitersResume ==
  \A s \in Submitters : sub[s] = "waiting" ~> sub[s] # "waiting"

(* stop, once called, ends.                                                *)
StopEnds == life = "stopping" ~> life \in {"stopped", "failed", "down"}

(* The shard implements ShardLog.                                          *)
Abstract == INSTANCE ShardLog WITH log <- OnDisk, queue <- Queued, retired <- Retired
ImplementsShardLog == Abstract!Spec
=============================================================================
