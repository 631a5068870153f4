------------------------------ MODULE Delivery ------------------------------
(***************************************************************************)
(* The delivery of one shard's records to the remote sink (agent.cc):      *)
(* run_shard_delivery_scanner, its DeliveryDispatcher with its workers,    *)
(* the offset file and the pending file (agent_support.cc), and the reads  *)
(* of the shard's segments (log_reader.cc, log_layout.cc).                 *)
(*                                                                         *)
(* Scanner, workers and the shard's writer run on one reactor and switch   *)
(* at co_await, so an action is what runs between two waits; listing the   *)
(* segments and reading each of them are separate, and the writer may      *)
(* rotate in between.  The writer appears here as what it promises: a log  *)
(* that grows by one record at a time, each with the next sequence number. *)
(* A record is that number.  A record that is not complete in the file yet *)
(* fails its checksum, ends the read of the segment and is not in it here. *)
(*                                                                         *)
(* A batch is the set of its records; with one scanner per dispatcher and  *)
(* one batch per scanner, a completed promise is the scanner's.            *)
(***************************************************************************)
EXTENDS Integers, Sequences, FiniteSets

CONSTANTS
  Workers,         \* sink_dispatcher_concurrency of them
  QueueCapacity,   \* sink_dispatch_queue_capacity
  SinkBatchSize,   \* sink_batch_size
  MaxArchived,     \* max_archived_files_per_shard
  Faults,          \* the operations that may fail
  MaxFaults,       \* bound: failed operations
  MaxRecords,      \* bound: records in the log
  MaxRotations,    \* bound: rotations
  MaxSessions      \* bound: starts of the agent

FaultKinds == {"load", "read", "store", "sink", "remove"}

ASSUME WorkersAssumption == IsFiniteSet(Workers) /\ Workers # {}
ASSUME OptionsAssumption ==
  /\ {QueueCapacity, SinkBatchSize, MaxArchived} \subseteq Nat \ {0}
  /\ Faults \subseteq FaultKinds
  /\ {MaxFaults, MaxRecords, MaxRotations, MaxSessions} \subseteq Nat

Record == 0..(MaxRecords - 1)

VARIABLES
  \* the shard's log, as the writer leaves it
  archives,       \* the records of each archived segment; {} once removed
  active,         \* the records of the active segment
  present,        \* is there an active segment?
  written,        \* the next sequence number
  \* the files of the delivery
  offset_file,    \* next_sequence in the offset file, 0 when there is none
  pending_file,   \* the batch in the pending file, {} when there is none
  \* run_shard_delivery_scanner
  scanner,        \* where it is
  next_sequence,  \* next_sequence
  pending,        \* pending, {} when it has no value
  segments,       \* the listed segments it has not read yet
  records,        \* the records it has read
  \* DeliveryDispatcher and the agent's stop flag
  queue,          \* _queue
  worker,         \* what each worker is doing
  stopping,       \* stopping
  \* History, for the properties and the bounds only
  acked,          \* the records of the batches the sink acknowledged
  missed,         \* records that a scan listed and could not read
  faults, sessions

logVars     == <<archives, active, present, written>>
fileVars    == <<offset_file, pending_file>>
scanVars    == <<next_sequence, pending, segments, records>>
dispatchVars == <<queue, worker>>
vars == <<logVars, fileVars, scanner, scanVars, dispatchVars, stopping,
          acked, missed, faults, sessions>>

-----------------------------------------------------------------------------
Nothing == [archived |-> {}, active |-> FALSE]

Largest(S) == CHOOSE x \in S : \A y \in S : y <= x
Smallest(S) == CHOOSE x \in S : \A y \in S : x <= y

(* build_delivery_batch_from_records: next_sequence of a batch.            *)
NextOf(batch) == Largest(batch) + 1

(* matches_record_query: seq_from is next_sequence.                        *)
New(segment) == {r \in segment : r >= next_sequence}

(* What a scan takes of a segment, up to the limit.                        *)
Matching(segment) ==
  {r \in New(segment) :
     Cardinality(records) + Cardinality({q \in New(segment) : q < r}) < SinkBatchSize}

Up == scanner \notin {"down", "done"}

Fault(kind) ==
  /\ kind \in Faults
  /\ faults < MaxFaults
  /\ faults' = faults + 1

(* broadcast on _queue_not_empty, for workers in these states.             *)
Broadcast(states) == [w \in Workers |-> IF states[w] = "wait" THEN "check" ELSE states[w]]

-----------------------------------------------------------------------------
(* The writer of the shard (AsyncWriter), while the agent runs.            *)

Append1 ==
  /\ Up /\ present
  /\ written < MaxRecords
  /\ active' = active \cup {written}
  /\ written' = written + 1
  /\ UNCHANGED <<archives, present, fileVars, scanner, scanVars, dispatchVars, stopping,
                 acked, missed, faults, sessions>>

(* rotate_active_file: rename and cleanup, in one piece.                   *)
Rotate ==
  LET all == Append(archives, active) IN
  /\ Up /\ present
  /\ active # {}
  /\ Len(archives) < MaxRotations
  /\ archives' = [i \in 1..Len(all) |-> IF i <= Len(all) - MaxArchived THEN {} ELSE all[i]]
  /\ active' = {}
  /\ present' = FALSE
  /\ missed' = IF segments.active THEN missed \cup New(active) ELSE missed
  /\ UNCHANGED <<written, fileVars, scanner, scanVars, dispatchVars, stopping,
                 acked, faults, sessions>>

(* AppendWriter::start creates the next active segment.                    *)
Reopen ==
  /\ Up /\ ~present
  /\ present' = TRUE
  /\ UNCHANGED <<archives, active, written, fileVars, scanner, scanVars, dispatchVars,
                 stopping, acked, missed, faults, sessions>>

-----------------------------------------------------------------------------
(* The scanner.                                                            *)

(* Mutant of Load: the offset is not read.                                 *)
LoadNoOffset ==
  /\ scanner = "load"
  /\ next_sequence' = 0
  /\ pending' = pending_file
  /\ scanner' = "loop"
  /\ UNCHANGED <<logVars, fileVars, segments, records, dispatchVars, stopping,
                 acked, missed, faults, sessions>>

(* load_delivery_offset_async and load_pending_delivery_batch_async.       *)
Load ==
  /\ scanner = "load"
  /\ next_sequence' = offset_file
  /\ pending' = pending_file
  /\ scanner' = "loop"
  /\ UNCHANGED <<logVars, fileVars, segments, records, dispatchVars, stopping,
                 acked, missed, faults, sessions>>

(* Either of them throws (a file that cannot be read or parsed, or one of  *)
(* another shard): the scanner ends, and .finally stops the dispatcher.    *)
LoadFails ==
  /\ scanner = "load"
  /\ Fault("load")
  /\ scanner' = "exit"
  /\ UNCHANGED <<logVars, fileVars, scanVars, dispatchVars, stopping,
                 acked, missed, sessions>>

(* The head of the loop, up to its first wait: leave when stopping, submit *)
(* a batch that is there already, or list the segments.                    *)
Loop ==
  /\ scanner = "loop"
  /\ scanner' = IF stopping THEN "exit" ELSE IF pending # {} THEN "submit" ELSE "read"
  /\ segments' = IF ~stopping /\ pending = {}
                 THEN [archived |-> {i \in DOMAIN archives : archives[i] # {}},
                       active |-> present]
                 ELSE Nothing
  /\ records' = {}
  /\ UNCHANGED <<logVars, fileVars, next_sequence, pending, dispatchVars, stopping,
                 acked, missed, faults, sessions>>

(* The listed segment to read next: the archives in their order, then the  *)
(* active one.  Its path is opened now, so it has what the path now names; *)
(* a path that names nothing any more is skipped.                          *)
Reading == IF segments.archived # {} THEN archives[Smallest(segments.archived)] ELSE active

Unread ==
  IF segments.archived # {}
  THEN [segments EXCEPT !.archived = @ \ {Smallest(@)}]
  ELSE Nothing

(* read_records_from_segments_async, one segment: it stops at the limit.   *)
ReadSegment ==
  /\ scanner = "read"
  /\ segments # Nothing
  /\ records' = records \cup Matching(Reading)
  /\ segments' = IF Cardinality(records') = SinkBatchSize THEN Nothing ELSE Unread
  /\ UNCHANGED <<logVars, fileVars, scanner, next_sequence, pending, dispatchVars, stopping,
                 acked, missed, faults, sessions>>

(* ... when reading the segment fails after some of its records.           *)
ReadSegmentFails ==
  /\ scanner = "read"
  /\ segments # Nothing
  /\ Fault("read")
  /\ \E cut \in Matching(Reading) :
       records' = records \cup {r \in Matching(Reading) : r < cut}
  /\ segments' = Unread
  /\ missed' = missed \cup (New(Reading) \ records')
  /\ UNCHANGED <<logVars, fileVars, scanner, next_sequence, pending, dispatchVars, stopping,
                 acked, sessions>>

(* Listing the segments or opening one of them throws.                     *)
ScanFails ==
  /\ scanner = "read"
  /\ Fault("read")
  /\ segments' = Nothing
  /\ records' = {}
  /\ scanner' = "failed"
  /\ UNCHANGED <<logVars, fileVars, next_sequence, pending, dispatchVars, stopping,
                 acked, missed, sessions>>

(* All read: wait for more, or make a batch of the records.                *)
ScanDone ==
  /\ scanner = "read"
  /\ segments = Nothing
  /\ scanner' = IF records = {} THEN "sleep" ELSE "store"
  /\ pending' = records
  /\ records' = {}
  /\ UNCHANGED <<logVars, fileVars, next_sequence, segments, dispatchVars, stopping,
                 acked, missed, faults, sessions>>

(* store_pending_delivery_batch_async: a temporary file, then rename.      *)
StorePending ==
  /\ scanner = "store"
  /\ pending_file' = pending
  /\ scanner' = "submit"
  /\ UNCHANGED <<logVars, offset_file, scanVars, dispatchVars, stopping,
                 acked, missed, faults, sessions>>

(* It fails before the rename or, in sync_directory, after it.  The batch  *)
(* stays in memory: the next turn of the loop submits it.                  *)
StorePendingFails ==
  /\ scanner = "store"
  /\ Fault("store")
  /\ pending_file' \in {pending_file, pending}
  /\ scanner' = "failed"
  /\ UNCHANGED <<logVars, offset_file, scanVars, dispatchVars, stopping,
                 acked, missed, sessions>>

(* Mutant of Submit: the workers are not told.                             *)
SubmitSilently ==
  /\ scanner = "submit"
  /\ stopping \/ Len(queue) < QueueCapacity
  /\ IF stopping
     THEN scanner' = "failed" /\ UNCHANGED queue
     ELSE scanner' = "await" /\ queue' = Append(queue, pending)
  /\ UNCHANGED <<logVars, fileVars, scanVars, worker, stopping, acked, missed, faults,
                 sessions>>

(* DeliveryDispatcher::submit, up to the wait for the completion.          *)
Submit ==
  /\ scanner = "submit"
  /\ stopping \/ Len(queue) < QueueCapacity
  /\ IF stopping
     THEN scanner' = "failed" /\ UNCHANGED dispatchVars
     ELSE /\ scanner' = "await"
          /\ queue' = Append(queue, pending)
          /\ worker' = Broadcast(worker)
  /\ UNCHANGED <<logVars, fileVars, scanVars, stopping, acked, missed, faults, sessions>>

(* store_delivery_offset_async, next_sequence having been advanced.        *)
StoreOffset ==
  /\ scanner = "offset"
  /\ next_sequence' = NextOf(pending)
  /\ offset_file' = next_sequence'
  /\ scanner' = "remove"
  /\ UNCHANGED <<logVars, pending_file, pending, segments, records, dispatchVars, stopping,
                 acked, missed, faults, sessions>>

StoreOffsetFails ==
  /\ scanner = "offset"
  /\ Fault("store")
  /\ next_sequence' = NextOf(pending)
  /\ offset_file' \in {offset_file, next_sequence'}
  /\ scanner' = "failed"
  /\ UNCHANGED <<logVars, pending_file, pending, segments, records, dispatchVars, stopping,
                 acked, missed, sessions>>

(* Mutant of RemovePending: the file stays.                                *)
RemovePendingInMemory ==
  /\ scanner = "remove"
  /\ pending' = {}
  /\ scanner' = "loop"
  /\ UNCHANGED <<logVars, fileVars, next_sequence, segments, records, dispatchVars,
                 stopping, acked, missed, faults, sessions>>

(* remove_pending_delivery_batch_async and pending.reset().                *)
RemovePending ==
  /\ scanner = "remove"
  /\ pending_file' = {}
  /\ pending' = {}
  /\ scanner' = "loop"
  /\ UNCHANGED <<logVars, offset_file, next_sequence, segments, records, dispatchVars,
                 stopping, acked, missed, faults, sessions>>

(* It fails with the file still there, or in sync_directory.               *)
RemovePendingFails ==
  /\ scanner = "remove"
  /\ Fault("remove")
  /\ pending_file' \in {pending_file, {}}
  /\ scanner' = "failed"
  /\ UNCHANGED <<logVars, offset_file, scanVars, dispatchVars, stopping,
                 acked, missed, sessions>>

(* The end of a turn that caught an error: leave when stopping, else sleep *)
(* and go on.                                                              *)
Failed ==
  /\ scanner = "failed"
  /\ scanner' = IF stopping THEN "exit" ELSE "sleep"
  /\ UNCHANGED <<logVars, fileVars, scanVars, dispatchVars, stopping,
                 acked, missed, faults, sessions>>

WakeUp ==
  /\ scanner = "sleep"
  /\ scanner' = "loop"
  /\ UNCHANGED <<logVars, fileVars, scanVars, dispatchVars, stopping,
                 acked, missed, faults, sessions>>

-----------------------------------------------------------------------------
(* The dispatcher.                                                         *)

(* run_worker, when it looks at the queue.                                 *)
WorkerCheck(w) ==
  /\ worker[w] = "check"
  /\ \/ /\ queue # <<>>
        /\ worker' = [worker EXCEPT ![w] = "deliver"]
        /\ queue' = Tail(queue)
     \/ /\ queue = <<>>
        /\ worker' = [worker EXCEPT ![w] = IF stopping THEN "done" ELSE "wait"]
        /\ UNCHANGED queue
  /\ UNCHANGED <<logVars, fileVars, scanner, scanVars, stopping,
                 acked, missed, faults, sessions>>

(* sink->deliver returns: the scanner's future is made ready.              *)
Deliver(w) ==
  /\ worker[w] = "deliver"
  /\ acked' = acked \cup pending
  /\ scanner' = "offset"
  /\ worker' = [worker EXCEPT ![w] = "check"]
  /\ UNCHANGED <<logVars, fileVars, scanVars, queue, stopping, missed, faults, sessions>>

(* Mutant of DeliverFails: the error is lost.                              *)
DeliverFailsSilently(w) ==
  /\ worker[w] = "deliver"
  /\ Fault("sink")
  /\ scanner' = "offset"
  /\ worker' = [worker EXCEPT ![w] = "check"]
  /\ UNCHANGED <<logVars, fileVars, scanVars, queue, stopping, acked, missed, sessions>>

(* It throws.  Whether the sink got the batch is not known: it is sent     *)
(* again.                                                                  *)
DeliverFails(w) ==
  /\ worker[w] = "deliver"
  /\ Fault("sink")
  /\ scanner' = "failed"
  /\ worker' = [worker EXCEPT ![w] = "check"]
  /\ UNCHANGED <<logVars, fileVars, scanVars, queue, stopping, acked, missed, sessions>>

(* Mutant of StopDispatcher: nobody is woken.                              *)
StopDispatcherSilently ==
  /\ scanner = "exit"
  /\ scanner' = "join"
  /\ UNCHANGED <<logVars, fileVars, scanVars, dispatchVars, stopping,
                 acked, missed, faults, sessions>>

(* DeliveryDispatcher::stop: wake everybody, then wait for the workers.    *)
StopDispatcher ==
  /\ scanner = "exit"
  /\ scanner' = "join"
  /\ worker' = Broadcast(worker)
  /\ UNCHANGED <<logVars, fileVars, scanVars, queue, stopping,
                 acked, missed, faults, sessions>>

Joined ==
  /\ scanner = "join"
  /\ \A w \in Workers : worker[w] = "done"
  /\ scanner' = "done"
  /\ UNCHANGED <<logVars, fileVars, scanVars, dispatchVars, stopping,
                 acked, missed, faults, sessions>>

-----------------------------------------------------------------------------
(* The process.                                                            *)

Start ==
  /\ scanner \in {"down", "done"}
  /\ sessions < MaxSessions
  /\ sessions' = sessions + 1
  /\ scanner' = "load"
  /\ present' = TRUE
  /\ worker' = [w \in Workers |-> "check"]
  /\ stopping' = FALSE
  /\ UNCHANGED <<archives, active, written, fileVars, scanVars, queue,
                 acked, missed, faults>>

(* SIGINT or SIGTERM.                                                      *)
StopSignal ==
  /\ Up /\ ~stopping
  /\ stopping' = TRUE
  /\ UNCHANGED <<logVars, fileVars, scanner, scanVars, dispatchVars,
                 acked, missed, faults, sessions>>

(* The process dies; the files stay.                                       *)
Crash ==
  /\ Up
  /\ sessions < MaxSessions
  /\ scanner' = "down"
  /\ next_sequence' = 0
  /\ pending' = {}
  /\ segments' = Nothing
  /\ records' = {}
  /\ queue' = <<>>
  /\ worker' = [w \in Workers |-> "done"]
  /\ stopping' = FALSE
  /\ UNCHANGED <<logVars, fileVars, acked, missed, faults, sessions>>

Init ==
  /\ archives = <<>>
  /\ active = {}
  /\ present = FALSE
  /\ written = 0
  /\ offset_file = 0
  /\ pending_file = {}
  /\ scanner = "down"
  /\ next_sequence = 0
  /\ pending = {}
  /\ segments = Nothing
  /\ records = {}
  /\ queue = <<>>
  /\ worker = [w \in Workers |-> "done"]
  /\ stopping = FALSE
  /\ acked = {}
  /\ missed = {}
  /\ faults = 0
  /\ sessions = 0

ScannerStep ==
  \/ Load \/ Loop \/ ReadSegment \/ ScanDone \/ StorePending \/ Submit
  \/ StoreOffset \/ RemovePending \/ Failed \/ WakeUp \/ StopDispatcher \/ Joined

ScannerFails ==
  \/ LoadFails \/ ReadSegmentFails \/ ScanFails \/ StorePendingFails
  \/ StoreOffsetFails \/ RemovePendingFails

WorkerStep(w) == WorkerCheck(w) \/ Deliver(w)

Next ==
  \/ Append1 \/ Rotate \/ Reopen
  \/ ScannerStep
  \/ ScannerFails
  \/ \E w \in Workers : WorkerStep(w) \/ DeliverFails(w)
  \/ Start
  \/ StopSignal
  \/ Crash

Spec == Init /\ [][Next]_vars

(* The tasks of a running agent go on: reads, stores and the sink answer,  *)
(* sleeps end, woken workers run.  Nobody has to write, rotate, fail, stop *)
(* or crash.                                                               *)
Fairness ==
  /\ WF_vars(ScannerStep)
  /\ \A w \in Workers : WF_vars(WorkerStep(w))

FairSpec == Spec /\ Fairness

-----------------------------------------------------------------------------
OnDisk == active \cup UNION {archives[i] : i \in DOMAIN archives}

(* The scanner is in its loop, or on the way to it.                        *)
Working == Up /\ scanner \notin {"exit", "join"}

(* A batch is on its way to the sink.                                      *)
InFlight == scanner = "await"

TypeOK ==
  /\ archives \in Seq(SUBSET Record)
  /\ active \in SUBSET Record
  /\ present \in BOOLEAN
  /\ written \in 0..MaxRecords
  /\ offset_file \in 0..MaxRecords
  /\ next_sequence \in 0..MaxRecords
  /\ pending_file \in SUBSET Record
  /\ pending \in SUBSET Record
  /\ records \in SUBSET Record
  /\ scanner \in {"down", "load", "loop", "read", "sleep", "store", "submit", "await",
                  "offset", "remove", "failed", "exit", "join", "done"}
  /\ segments \in [archived : SUBSET Nat, active : BOOLEAN]
  /\ queue \in Seq(SUBSET Record)
  /\ worker \in [Workers -> {"check", "wait", "deliver", "done"}]
  /\ stopping \in BOOLEAN
  /\ {acked, missed} \subseteq SUBSET Record
  /\ faults \in Nat /\ sessions \in Nat

(* The stored offset passes over no record that the sink did not           *)
(* acknowledge, however stores, sink and process fail, except for records  *)
(* that a scan listed and then could not read.                             *)
SkipsOnlyMissed ==
  \A r \in OnDisk : r < offset_file => r \in acked \cup missed

(* Delivery is at least once: a record on disk that the stored offset has  *)
(* passed was acknowledged by the sink.                                    *)
AtLeastOnce == \A r \in OnDisk : r < offset_file => r \in acked

(* What is sent again is the last acknowledged batch, whole, and nothing   *)
(* older: a batch on its way to the sink starts at or after the stored     *)
(* offset, or ends at it.                                                  *)
ReplayWindow ==
  InFlight => \/ \A r \in pending : r >= offset_file
              \/ NextOf(pending) = offset_file

(* The stored offset never goes back, over any number of restarts.         *)
OffsetMonotone == [][offset_file' >= offset_file]_vars

(* A signal to stop that finds the scanner at work, wherever it waits, is  *)
(* followed by the end of the scanner, of every worker and of the batch    *)
(* that was under way.                                                     *)
ScannerStops == stopping /\ Working ~> ~Up

(* A scanner at work delivers each record of the log, if it is not missed, *)
(* removed by archive cleanup, or interrupted, whatever failed before.     *)
EventuallyDelivered ==
  \A r \in Record :
    r \in OnDisk /\ Working ~>
      r \in acked \cup missed \/ r \notin OnDisk \/ stopping \/ ~Working
=============================================================================
