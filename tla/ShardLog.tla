------------------------------ MODULE ShardLog ------------------------------
(***************************************************************************)
(* What one shard of the engine promises, with the files, the buffers and  *)
(* the recovery left out: a log that only grows at its end and only with   *)
(* records in the order they were accepted, and a queue of accepted        *)
(* records that a crash may lose.  Rotation, checkpoints and restarts are  *)
(* invisible.  Archive cleanup may drop records from the oldest part of    *)
(* the log, in any order: a crash may leave an older one there while a     *)
(* younger is gone.  The rest of the log has no gaps.                      *)
(***************************************************************************)
EXTENDS Integers, Sequences

VARIABLES
  log,      \* the records on disk, archives first
  queue,    \* the records accepted and not on disk yet
  retired   \* how many records at the beginning of log cleanup may drop

vars == <<log, queue, retired>>

Init == log = <<>> /\ queue = <<>> /\ retired = 0

(* A caller hands over records: they go to the end of the queue.           *)
Accept ==
  /\ Len(queue') > Len(queue)
  /\ SubSeq(queue', 1, Len(queue)) = queue
  /\ UNCHANGED <<log, retired>>

(* A flush moves the front of the queue to the end of the log.             *)
Persist(n) ==
  /\ log' = log \o SubSeq(queue, 1, n)
  /\ queue' = SubSeq(queue, n + 1, Len(queue))
  /\ UNCHANGED retired

(* The process dies, perhaps in the middle of a flush.                     *)
Crash(n) ==
  /\ log' = log \o SubSeq(queue, 1, n)
  /\ queue' = <<>>
  /\ UNCHANGED retired

(* A rotation makes more of the oldest records superfluous.                *)
Retire(n) ==
  /\ retired' = n
  /\ UNCHANGED <<log, queue>>

(* Archive cleanup drops some of them.                                     *)
Expire(m, n) ==
  /\ log' = SubSeq(log, 1, m - 1) \o SubSeq(log, n + 1, Len(log))
  /\ retired' = retired - (n - m + 1)
  /\ UNCHANGED queue

Next ==
  \/ Accept
  \/ \E n \in 1..Len(queue) : Persist(n)
  \/ \E n \in 0..Len(queue) : Crash(n)
  \/ \E n \in (retired + 1)..Len(log) : Retire(n)
  \/ \E m \in 1..retired : \E n \in m..retired : Expire(m, n)

Spec == Init /\ [][Next]_vars
=============================================================================
