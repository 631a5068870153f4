---------------------------- MODULE EngineClients ----------------------------
(***************************************************************************)
(* An application that links the engine: several of its tasks call append  *)
(* and append_batch at the same time while it is started, stopped and      *)
(* killed.  The records of a call are numbered as the calls are made, which*)
(* the code does not do, to tell them apart.                               *)
(***************************************************************************)
EXTENDS LogEngine

CONSTANTS
  Keys,          \* the route keys, without NoKey
  MaxRecords,    \* bound: records sent
  MaxBatch,      \* bound: records in a batch
  MaxStarts,     \* bound: starts of the engine
  Configs,       \* the routing_strategy and empty_route_policy of a start
  CallPoints     \* bound: the virtual node hashes that calls are explored with

RecordSet == [id : 1..MaxRecords, key : Keys \cup {NoKey}, from : Callers]

ASSUME ClientsAssumption ==
  /\ Configs \subseteq [routing : Strategies, empty : Policies]
  /\ Records = RecordSet /\ NoKey \notin Keys
  /\ KeyHash \in [Keys -> Hashes]
  /\ {MaxRecords, MaxBatch, MaxStarts} \subseteq Nat

VARIABLES
  sent,      \* History: how many records were sent
  held,      \* History: the records of each caller's last call
  spread,    \* History: empty-key records routed to each shard since the start
  keyed,     \* History: was a record with a key routed since the start?
  starts     \* History: starts so far

clientVars == <<sent, held, spread, keyed, starts>>
vars == <<engineVars, clientVars>>

Init ==
  /\ EngineInit
  /\ sent = 0
  /\ held = [c \in Callers |-> {}]
  /\ spread = [s \in Shards |-> 0]
  /\ keyed = FALSE
  /\ starts = 0

-----------------------------------------------------------------------------
(* What a call sends: records with these keys.                             *)
Batch(c, keys) == [i \in DOMAIN keys |-> [id |-> sent + i, key |-> keys[i], from |-> c]]

Note(c, msgs, shards) ==
  /\ points \in CallPoints
  /\ sent' = sent + Len(msgs)
  /\ held' = [held EXCEPT ![c] = ToSet(msgs)]
  /\ spread' = [s \in Shards |->
                  spread[s] + Cardinality({i \in DOMAIN msgs : Empty(msgs[i]) /\ shards[i] = s})]
  /\ keyed' = (keyed \/ \E i \in DOMAIN msgs : ~Empty(msgs[i]))
  /\ UNCHANGED starts

CallAppend(c, key) ==
  /\ sent < MaxRecords
  /\ AppendOne(c, Batch(c, <<key>>)[1])
  /\ Note(c, Batch(c, <<key>>), <<RouteToShard(key, Home[c], rr)>>)

CallAppendBatch(c, keys) ==
  /\ sent + Len(keys) <= MaxRecords
  /\ AppendBatch(c, Batch(c, keys))
  /\ Note(c, Batch(c, keys), ShardsOf(Batch(c, keys), Home[c]))

StartEngine(strategy, empty, pts) ==
  /\ starts < MaxStarts
  /\ Start(strategy, empty, pts)
  /\ starts' = starts + 1
  /\ spread' = [s \in Shards |-> 0]
  /\ keyed' = FALSE
  /\ UNCHANGED <<sent, held>>

Next ==
  \/ \E conf \in Configs, pts \in PointSpace : StartEngine(conf.routing, conf.empty, pts)
  \/ \E c \in Callers :
       \/ \E key \in Keys \cup {NoKey} : CallAppend(c, key)
       \/ \E n \in 2..MaxBatch : \E keys \in [1..n -> Keys \cup {NoKey}] : CallAppendBatch(c, keys)
  \/ (ShardStep \/ Stop \/ Stopped \/ EngineCrash) /\ UNCHANGED clientVars
  \/ \E s \in Shards : (StopShard(s) \/ StoppedShard(s)) /\ UNCHANGED clientVars

(* The reactors run what was sent to them, and submits return once their   *)
(* flush ends or the queue has drained (AsyncWriter).                      *)
Fairness ==
  /\ WF_vars((\E s \in Shards : Deliver(s)) /\ UNCHANGED clientVars)
  /\ WF_vars((\E c \in Callers, s \in Shards : Answer(c, s, FALSE)) /\ UNCHANGED clientVars)

Spec == Init /\ [][Next]_vars /\ Fairness

-----------------------------------------------------------------------------
TypeOK ==
  /\ EngineTypeOK
  /\ sent \in 0..MaxRecords
  /\ held \in [Callers -> SUBSET Records]
  /\ spread \in [Shards -> Nat]
  /\ keyed \in BOOLEAN
  /\ starts \in 0..MaxStarts

(* All a shard has accepted: on disk, then queued.                         *)
Accepted(s) == log[s] \o queue[s]

Places(m) == UNION {{<<s, i>> : i \in {j \in DOMAIN Accepted(s) : Accepted(s)[j] = m}} : s \in Shards}

(* Whatever failed, stopped or died, append_batch puts no record on two    *)
(* shards or twice on one; and when it returned without an error every     *)
(* record of the call is on a shard, or was handed to a shard that was     *)
(* stopping (log_engine.cc:183-197, async_writer.cc:127).                  *)
OkMeansPlaced ==
  \A c \in Callers : \A m \in held[c] :
    /\ \A p, q \in Places(m) : p = q
    /\ call[c].pc = "ok" => m \in dropped \/ Places(m) # {}

(* While the engine keeps its configuration, records with one key are all  *)
(* on the shard that append routes the key to, whichever path of           *)
(* append_batch took them (log_engine.cc:50-72, 141-159).  Under           *)
(* round_robin, as long as no record has a key, the shards' shares differ  *)
(* by at most one, however append and batches from several cores           *)
(* interleave (log_engine.cc:101, 221).                                    *)
WellRouted ==
  /\ starts = 1 =>
       \A s \in Shards : \A i \in DOMAIN Accepted(s) :
         ~Empty(Accepted(s)[i]) => s = RouteToShard(Accepted(s)[i].key, s, rr)
  /\ policy = "round_robin" /\ ~keyed => \A s, t \in Shards : spread[s] - spread[t] <= 1

(* A shard has a caller's records in the order the caller sent them, over  *)
(* all its calls, although calls travel between cores and failed ones are  *)
(* left behind.                                                            *)
CallerOrder ==
  \A s \in Shards : \A i, j \in DOMAIN Accepted(s) :
    i < j /\ Accepted(s)[i].from = Accepted(s)[j].from => Accepted(s)[i].id < Accepted(s)[j].id

(* The ring looks up the nearest virtual node at or after a hash, wrapping *)
(* around (routing.cc:82-85), so that one more shard takes keys over and   *)
(* moves none between the old ones: what the ring is for (routing.cc:39-51)*)
(* Looked at before the first call: the ring does not change while the     *)
(* engine is up.                                                           *)
RingLookup == sent = 0 /\ ring # <<>> => NearestServes(ring) /\ OnlyToNewShard(points)

(* Every call comes back, also when shards fail it, stop or are gone: the  *)
(* wait for all answers (log_engine.cc:197) never hangs.                   *)
CallsReturn == \A c \in Callers : call[c].pc = "waiting" ~> call[c].pc # "waiting"

(* What this module takes a shard to be is ShardLog, which AsyncWriter     *)
(* implements.                                                             *)
Shard(s) == INSTANCE ShardLog WITH log <- log[s], queue <- queue[s], retired <- 0
ShardsAreShardLogs ==
  /\ \A s \in Shards : Shard(s)!Init
  /\ [][\A s \in Shards : [Shard(s)!Next]_<<log[s], queue[s]>>]_<<log, queue>>
=============================================================================
