------------------------------ MODULE LogEngine ------------------------------
(***************************************************************************)
(* log_engine.cc: the sharded engine.  A call of append or append_batch    *)
(* picks a shard for every record, submits to the caller's own shard at    *)
(* once and to the others by a message between cores, and returns when     *)
(* every shard has answered.                                               *)
(*                                                                         *)
(* A shard is what module ShardLog says of it (AsyncWriter is shown to     *)
(* implement that): a queue in memory and a log on disk.  submit_many puts *)
(* its records in the queue before anything can fail, so a call that       *)
(* throws has left its records behind; a shard that is stopping drops them *)
(* and reports success.                                                    *)
(***************************************************************************)
EXTENDS ShardRouter

CONSTANTS
  Callers,        \* the tasks that call the engine
  Home,           \* the shard each caller runs on
  KeyHash,        \* stable_hash of each route key
  Records,        \* what a call may carry: records with an id, a key and a caller
  MaxFaults       \* bound: submits that fail

ASSUME EngineAssumption ==
  /\ Home \in [Callers -> Shards]
  /\ MaxFaults \in Nat

VARIABLES
  points,   \* the hash of each virtual node, fixed by the configuration
  ring,     \* _router._ring
  policy,   \* empty_route_policy
  rr,       \* _rr_counter, modulo the shard count: all that is looked at
  started,  \* _started, and whether stop is under way
  writer,   \* the life of each shard's writer
  inbox,    \* messages between cores to each shard: submits not run yet
  queue,    \* what each shard accepted and has not on disk
  log,      \* what each shard has on disk
  call,     \* each caller's call: the shards that have not answered
  faults,   \* History: failed submits so far
  dropped   \* History: records a stopping shard dropped

config == <<points, ring, policy>>

engineVars == <<config, rr, started, writer, inbox, queue, log, call, faults, dropped>>

NoCall == [pc |-> "idle", left |-> {}, bad |-> FALSE]

-----------------------------------------------------------------------------
(* Routing a call.                                                         *)

Empty(m) == m.key = NoKey

(* next_empty_route_index: how far it moves the counter.                   *)
IndexStep == IF policy = "round_robin" THEN 1 ELSE 0

(* route_to_shard, with the counter at this value.                         *)
RouteToShard(key, home, counter) ==
  IF key = NoKey THEN RouteEmpty(policy, home, counter) ELSE RouteHash(ring, KeyHash[key])

(* Do all records share one key that is not empty?                         *)
SameKey(msgs) == ~Empty(msgs[1]) /\ \A i \in DOMAIN msgs : msgs[i].key = msgs[1].key

EmptyBefore(msgs, i) == Cardinality({j \in 1..(i - 1) : Empty(msgs[j])})

EmptyCount(msgs) == EmptyBefore(msgs, Len(msgs) + 1)

(* Mutant of ShardsOf: a mixed batch goes round robin, keys and all.       *)
ShardsOfMixed(msgs, home) ==
  [i \in DOMAIN msgs |->
     IF EmptyCount(msgs) > 0 /\ policy = "round_robin" THEN (rr + i - 1) % ShardCount
     ELSE RouteToShard(msgs[i].key, home, rr)]

(* The shard of every record of a batch.  The shortcuts of append_batch    *)
(* (one key, all local, all round robin) choose as the general loop does.  *)
ShardsOf(msgs, home) ==
  [i \in DOMAIN msgs |->
     IF Empty(msgs[i]) /\ policy = "round_robin" THEN (rr + EmptyBefore(msgs, i)) % ShardCount
     ELSE RouteToShard(msgs[i].key, home, rr)]

(* The counter after a batch: the empty keys claim their indexes together, *)
(* every key routed through route_to_shard claims one too.                 *)
CounterAfter(msgs) ==
  LET routed == IF ring # <<>> /\ SameKey(msgs) THEN 1 ELSE Len(msgs) - EmptyCount(msgs)
  IN  IF policy = "round_robin" THEN (rr + EmptyCount(msgs) + routed) % ShardCount ELSE rr

(* The n-th smallest number of a set.                                      *)
Nth(set, n) == CHOOSE i \in set : Cardinality({j \in set : j <= i}) = n

(* The part of a batch that goes to one shard, in the batch's order.       *)
PartFor(msgs, shards, s) ==
  LET mine == {i \in DOMAIN msgs : shards[i] = s}
  IN  [k \in 1..Cardinality(mine) |-> msgs[Nth(mine, k)]]

-----------------------------------------------------------------------------
(* submit and submit_many on one shard, up to their first wait.            *)
Accepts(s) == writer[s] = "up"

(* append and append_batch: everything up to the wait for the answers.     *)
Dispatch(c, msgs, shards, counter) ==
  LET part == [s \in Shards |-> PartFor(msgs, shards, s)]
      used == {s \in Shards : part[s] # <<>>}
      home == Home[c]
  IN  /\ started # "down"
      /\ writer[home] # "gone"
      /\ call[c].pc # "waiting"
      /\ rr' = counter
      /\ queue' = IF Accepts(home) THEN [queue EXCEPT ![home] = @ \o part[home]] ELSE queue
      /\ dropped' = IF Accepts(home) THEN dropped ELSE dropped \cup ToSet(part[home])
      /\ inbox' = [s \in Shards |->
                     IF s \in used \ {home}
                     THEN Append(inbox[s], [caller |-> c, msgs |-> part[s]])
                     ELSE inbox[s]]
      /\ call' = [call EXCEPT ![c] = [pc |-> "waiting", left |-> used, bad |-> FALSE]]
      /\ UNCHANGED <<config, started, writer, log, faults>>

(* append, and info, warn and error, which call it.                        *)
AppendOne(c, m) ==
  Dispatch(c, <<m>>, <<RouteToShard(m.key, Home[c], rr)>>, (rr + IndexStep) % ShardCount)

AppendBatch(c, msgs) == Dispatch(c, msgs, ShardsOf(msgs, Home[c]), CounterAfter(msgs))

(* One shard's answer reaches the caller; when_all_succeed waits for the   *)
(* others even when this one failed.                                       *)
Answered(c, s, failed) ==
  LET left == call[c].left \ {s}
      bad  == call[c].bad \/ failed
  IN  [pc   |-> IF left # {} THEN "waiting" ELSE IF bad THEN "failed" ELSE "ok",
       left |-> left,
       bad  |-> bad]

(* Mutant of Deliver: a writer that is gone never answers.                 *)
DeliverUnanswered(s) ==
  /\ inbox[s] # <<>>
  /\ writer[s] # "gone"
  /\ inbox' = [inbox EXCEPT ![s] = Tail(@)]
  /\ queue' = [queue EXCEPT ![s] = @ \o Head(inbox[s]).msgs]
  /\ UNCHANGED <<config, rr, started, writer, log, call, faults, dropped>>

(* A message between cores runs on its shard: submit_many up to its first  *)
(* wait, or the exception of a service that is gone.                       *)
Deliver(s) ==
  /\ inbox[s] # <<>>
  /\ inbox' = [inbox EXCEPT ![s] = Tail(@)]
  /\ LET m == Head(inbox[s])
     IN  /\ queue' = IF Accepts(s) THEN [queue EXCEPT ![s] = @ \o m.msgs] ELSE queue
         /\ dropped' = IF writer[s] \in {"stopping", "stopped"}
                       THEN dropped \cup ToSet(m.msgs) ELSE dropped
         /\ call' = IF writer[s] = "gone"
                    THEN [call EXCEPT ![m.caller] = Answered(m.caller, s, TRUE)] ELSE call
  /\ UNCHANGED <<config, rr, started, writer, log, faults>>

(* Mutant of Answer: when_all gives up on the first failure.               *)
AnswerFirstFailure(c, s, failed) ==
  /\ s \in call[c].left
  /\ \A i \in DOMAIN inbox[s] : inbox[s][i].caller # c
  /\ call' = [call EXCEPT ![c] = [pc |-> "ok", left |-> {}, bad |-> FALSE]]
  /\ UNCHANGED <<config, rr, started, writer, inbox, queue, log, faults, dropped>>

(* submit_many returns on one shard, with an error when its flush failed.  *)
Answer(c, s, failed) ==
  /\ s \in call[c].left
  /\ \A i \in DOMAIN inbox[s] : inbox[s][i].caller # c
  /\ failed => faults < MaxFaults /\ writer[s] \in {"up", "stopping"}
  /\ faults' = faults + (IF failed THEN 1 ELSE 0)
  /\ call' = [call EXCEPT ![c] = Answered(c, s, failed)]
  /\ UNCHANGED <<config, rr, started, writer, inbox, queue, log, dropped>>

-----------------------------------------------------------------------------
(* The shards, as ShardLog has them, and the engine's life.                *)

(* Mutant of Flush: the batch is written after what was queued behind it.  *)
FlushReordered(s, n) ==
  /\ writer[s] \in {"up", "stopping"}
  /\ n \in 1..Len(queue[s])
  /\ log' = [log EXCEPT ![s] = @ \o SubSeq(queue[s], Len(queue[s]) - n + 1, Len(queue[s]))]
  /\ queue' = [queue EXCEPT ![s] = SubSeq(@, 1, Len(@) - n)]
  /\ UNCHANGED <<config, rr, started, writer, inbox, call, faults, dropped>>

(* A flush moves the first n records of the queue to disk.                 *)
Flush(s, n) ==
  /\ writer[s] \in {"up", "stopping"}
  /\ n \in 1..Len(queue[s])
  /\ log' = [log EXCEPT ![s] = @ \o SubSeq(queue[s], 1, n)]
  /\ queue' = [queue EXCEPT ![s] = SubSeq(@, n + 1, Len(@))]
  /\ UNCHANGED <<config, rr, started, writer, inbox, call, faults, dropped>>

(* start: every writer, then the router.                                   *)
Start(strategy, empty, pts) ==
  /\ started = "down"
  /\ writer' = [s \in Shards |-> "up"]
  /\ points' = pts
  /\ ring' = Ring(strategy, pts, ShardCount)
  /\ policy' = empty
  /\ started' = "up"
  /\ UNCHANGED <<rr, inbox, queue, log, call, faults, dropped>>

(* stop: tell every writer.                                                *)
Stop ==
  /\ started = "up"
  /\ started' = "stopping"
  /\ UNCHANGED <<config, rr, writer, inbox, queue, log, call, faults, dropped>>

(* AsyncWriter::stop arrives at a shard.                                   *)
StopShard(s) ==
  /\ started = "stopping" /\ writer[s] = "up"
  /\ writer' = [writer EXCEPT ![s] = "stopping"]
  /\ UNCHANGED <<config, rr, started, inbox, queue, log, call, faults, dropped>>

(* AsyncWriter::stop is done once the queue is on disk.                    *)
StoppedShard(s) ==
  /\ writer[s] = "stopping" /\ queue[s] = <<>>
  /\ writer' = [writer EXCEPT ![s] = "stopped"]
  /\ UNCHANGED <<config, rr, started, inbox, queue, log, call, faults, dropped>>

(* _writers.stop destroys them; submits still under way find nothing.      *)
Stopped ==
  /\ started = "stopping" /\ \A s \in Shards : writer[s] = "stopped"
  /\ writer' = [s \in Shards |-> "gone"]
  /\ started' = "down"
  /\ UNCHANGED <<config, rr, inbox, queue, log, call, faults, dropped>>

(* The process dies.                                                       *)
EngineCrash ==
  /\ started # "down"
  /\ started' = "down"
  /\ writer' = [s \in Shards |-> "gone"]
  /\ inbox' = [s \in Shards |-> <<>>]
  /\ queue' = [s \in Shards |-> <<>>]
  /\ call' = [c \in Callers |-> NoCall]
  /\ rr' = 0
  /\ UNCHANGED <<config, log, faults, dropped>>

EngineInit ==
  /\ points = [p \in (0..ShardCount) \X Vnodes |-> 0]
  /\ ring = <<>>
  /\ policy = "local"
  /\ rr = 0
  /\ started = "down"
  /\ writer = [s \in Shards |-> "gone"]
  /\ inbox = [s \in Shards |-> <<>>]
  /\ queue = [s \in Shards |-> <<>>]
  /\ log = [s \in Shards |-> <<>>]
  /\ call = [c \in Callers |-> NoCall]
  /\ faults = 0
  /\ dropped = {}

(* What happens on the shards whoever calls.                               *)
ShardStep ==
  \E s \in Shards :
    \/ Deliver(s)
    \/ \E c \in Callers, failed \in BOOLEAN : Answer(c, s, failed)
    \/ \E n \in 1..Len(queue[s]) : Flush(s, n)

EngineTypeOK ==
  /\ points \in PointSpace
  /\ ring \in Seq([hash : Hashes, shard : Shards])
  /\ policy \in Policies
  /\ rr \in Shards
  /\ started \in {"down", "up", "stopping"}
  /\ writer \in [Shards -> {"up", "stopping", "stopped", "gone"}]
  /\ inbox \in [Shards -> Seq([caller : Callers, msgs : Seq(Records)])]
  /\ queue \in [Shards -> Seq(Records)]
  /\ log \in [Shards -> Seq(Records)]
  /\ call \in [Callers -> [pc : {"idle", "waiting", "ok", "failed"},
                           left : SUBSET Shards, bad : BOOLEAN]]
  /\ faults \in 0..MaxFaults
  /\ dropped \in SUBSET Records
=============================================================================
