-------------------------- MODULE MCEngineClients --------------------------
(* EngineClients with two shards, callers on different shards and keys     *)
(* whose hashes fall between the virtual nodes.                            *)
EXTENDS EngineClients

CONSTANTS c1, c2, k1, k2

MCHome == [c \in Callers |-> IF c = c1 THEN 0 ELSE 1]
MCKeyHash == [k \in Keys |-> IF k = k1 THEN 1 ELSE HashSpace - 1]

(* The defaults of the agent and of the library with the other strategy.   *)
MCConfigs == {[routing |-> "consistent_hashing", empty |-> "round_robin"],
              [routing |-> "hash_modulo", empty |-> "local"]}

(* Every shard gets a key.                                                 *)
MCCallPoints == {[p \in (0..ShardCount) \X Vnodes |-> (2 * p[1]) % HashSpace]}
=============================================================================
