----------------------------- MODULE ShardRouter -----------------------------
(***************************************************************************)
(* routing.cc: which shard a record goes to.  The router has no state but  *)
(* the ring it is configured with, so this module has no variables: it     *)
(* gives the ring and the lookup as operators over it.                     *)
(*                                                                         *)
(* A hash value is a number below HashSpace (2^64 in the code); which value*)
(* a key or a virtual node has is a parameter, so that collisions happen.  *)
(***************************************************************************)
EXTENDS Integers, Sequences, FiniteSets, SequencesExt

CONSTANTS
  ShardCount,     \* smp::count
  VirtualNodes,   \* routing_virtual_nodes, at least 1
  HashSpace,      \* number of hash values
  NoKey           \* the empty route key

ASSUME RouterAssumption ==
  /\ ShardCount \in Nat \ {0}
  /\ VirtualNodes \in Nat \ {0}
  /\ HashSpace \in Nat \ {0}

Shards == 0..(ShardCount - 1)
Vnodes == 0..(VirtualNodes - 1)
Hashes == 0..(HashSpace - 1)
Strategies == {"hash_modulo", "consistent_hashing"}
Policies   == {"local", "round_robin"}

(* What hash_parts gives each virtual node: of the shards, and of the one  *)
(* that a machine with one more core would have.                           *)
PointSpace == [(0..ShardCount) \X Vnodes -> Hashes]

(* The order of the ring: by hash, then by shard.                          *)
Before(a, b) == a.hash < b.hash \/ (a.hash = b.hash /\ a.shard < b.shard)

(* The virtual nodes of the first count shards; equal ones of one shard    *)
(* are kept once.                                                          *)
Entries(points, count) ==
  {[hash |-> points[p], shard |-> p[1]] : p \in (0..(count - 1)) \X Vnodes}

(* Where std::sort puts an entry: after those before it.                   *)
Rank(entries, e) == Cardinality({f \in entries : f = e \/ Before(f, e)})

(* configure: the sorted ring; none for hash_modulo.                       *)
Ring(strategy, points, count) ==
  LET entries == Entries(points, count)
  IN  IF strategy # "consistent_hashing" THEN <<>>
      ELSE [k \in 1..Cardinality(entries) |-> CHOOSE e \in entries : Rank(entries, e) = k]

(* Mutant of LowerBound: upper_bound instead, an entry equal to the hash   *)
(* is passed over.                                                         *)
LowerBoundStrict(ring, hash) ==
  LET from == {i \in DOMAIN ring : ring[i].hash > hash}
  IN  IF from = {} THEN ring[1] ELSE ring[Min(from)]

(* std::lower_bound on the ring, wrapping to the front.                    *)
LowerBound(ring, hash) ==
  LET from == {i \in DOMAIN ring : ring[i].hash >= hash}
  IN  IF from = {} THEN ring[1] ELSE ring[Min(from)]

(* route for a key with this hash: the ring if there is one, else modulo.  *)
RouteHash(ring, hash) ==
  IF ring # <<>> THEN LowerBound(ring, hash).shard ELSE hash % ShardCount

(* route for an empty key.                                                 *)
RouteEmpty(policy, local, index) ==
  (IF policy = "round_robin" THEN index ELSE local) % ShardCount

-----------------------------------------------------------------------------
(* How far a hash has to travel up the ring, wrapping, to reach another.   *)
Distance(from, to) == (to - from + HashSpace) % HashSpace

(* The ring serves every hash by the nearest virtual node at or after it,  *)
(* the lower shard when two are equally near: what lookup by lower_bound   *)
(* and wrap-around (routing.cc:82) has to compute.                         *)
NearestServes(ring) ==
  \A h \in Hashes :
    LET e == LowerBound(ring, h)
    IN  \A i \in DOMAIN ring :
          \/ Distance(h, e.hash) < Distance(h, ring[i].hash)
          \/ Distance(h, e.hash) = Distance(h, ring[i].hash) /\ e.shard <= ring[i].shard

(* Growing from n to n + 1 shards moves a hash to the new shard or not at  *)
(* all.                                                                    *)
OnlyToNewShard(points) ==
  \A n \in 1..ShardCount :
    LET small == Ring("consistent_hashing", points, n)
        large == Ring("consistent_hashing", points, n + 1)
    IN  \A h \in Hashes : LowerBound(large, h).shard \in {LowerBound(small, h).shard, n}
=============================================================================
