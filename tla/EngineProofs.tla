---------------------------- MODULE EngineProofs ----------------------------
(****************************************************************************)
(* Proofs about the sharded engine and its clients, for any shards,         *)
(* callers, keys, hashes, ring points and faults. First what the ring and   *)
(* the parts of a batch are: the n-th smallest number and the rank of a     *)
(* virtual node exist, so the ring is sorted and complete. Then an          *)
(* invariant that follows every record from the call that sent it, through  *)
(* the message between cores, to the queue and the log of one shard. Where  *)
(* a proof needs induction it takes the least number with a property.       *)
(****************************************************************************)
EXTENDS EngineClients, SequenceTheorems, FiniteSetTheorems, WellFoundedInduction, TLAPS

-----------------------------------------------------------------------------
(* A set of naturals has a least element, as < is well founded on them.     *)
LEMMA Least ==
  ASSUME NEW T, T \subseteq Nat, T # {}
  PROVE  \E x \in T : \A y \in T : x <= y
<1> DEFINE R == OpToRel(<, Nat)
<1>1. \A x, y \in Nat : <<x, y>> \in R <=> x < y
  BY DEF OpToRel
<1>2. IsWellFoundedOn(R, Nat)
  BY NatLessThanWellFounded
<1> HIDE DEF R
<1>3. PICK x \in T : \A y \in T : ~ (<<y, x>> \in R)
  BY <1>2, WFMin
<1>4. \A y \in T : x <= y
  <2> TAKE y \in T
  <2>1. x \in Nat /\ y \in Nat
    OBVIOUS
  <2>2. ~ (y < x)
    BY <1>1, <1>3, <2>1
  <2> QED BY <2>1, <2>2
<1> QED BY <1>4

(* A set of positions of a sequence is finite.                              *)
LEMMA PartFinite ==
  ASSUME NEW m \in Nat, NEW S \in SUBSET (1..m)
  PROVE  IsFiniteSet(S) /\ Cardinality(S) \in Nat
<1>1. 1 \in Int /\ m \in Int
  OBVIOUS
<1>2. IsFiniteSet(1..m)
  BY ONLY <1>1, FS_Interval
<1>3. IsFiniteSet(S)
  BY ONLY <1>2, S \in SUBSET (1..m), FS_Subset
<1> QED BY <1>3, FS_CardinalityType

(* The n-th smallest position of a set is one of it, and has n positions up *)
(* to it.                                                                   *)
LEMMA NthIsMember ==
  ASSUME NEW m \in Nat, NEW S \in SUBSET (1..m), NEW n \in 1..Cardinality(S)
  PROVE  Nth(S, n) \in S /\ Cardinality({j \in S : j <= Nth(S, n)}) = n
<1> DEFINE upTo(i) == {j \in S : j <= i}
           T == {i \in Nat : Cardinality(upTo(i)) >= n}
<1>1. IsFiniteSet(S)
  BY PartFinite
<1> \A j \in S : j \in Nat /\ 1 <= j /\ j <= m
  OBVIOUS
<1>2. \A i \in Nat : IsFiniteSet(upTo(i)) /\ Cardinality(upTo(i)) \in Nat
  BY <1>1, FS_Subset, FS_CardinalityType
<1>3. upTo(m) = S
  OBVIOUS
<1>4. m \in T
  <2>1. Cardinality(S) \in Nat
    BY <1>1, FS_CardinalityType
  <2> QED BY <1>3, <2>1
<1>5. PICK x \in T : \A y \in T : x <= y
  BY <1>4, Least
<1>6. x # 0
  <2>1. upTo(0) = {}
    <3> \A j \in S : ~ (j <= 0)
      OBVIOUS
    <3> QED OBVIOUS
  <2>2. Cardinality(upTo(0)) = 0
    BY <2>1, FS_EmptySet
  <2>3. ~ (0 >= n)
    BY <1>1, FS_CardinalityType
  <2>4. 0 \notin T
    BY <2>2, <2>3
  <2> QED BY <2>4
<1>7. x \in Nat /\ x - 1 \in Nat /\ ~ (x <= x - 1)
  BY <1>6
<1>8. x - 1 \notin T
  BY <1>5, <1>7
<1>9. ~ (Cardinality(upTo(x - 1)) >= n) /\ Cardinality(upTo(x)) >= n
  BY <1>7, <1>8
<1>10. n \in Nat
  BY <1>1, FS_CardinalityType
<1>11. x \in S /\ Cardinality(upTo(x)) = n
  <2>1. CASE x \in S
    <3> \A j \in S : j <= x <=> j <= x - 1 \/ j = x
      BY <1>7
    <3>1. upTo(x) = upTo(x - 1) \cup {x} /\ x \notin upTo(x - 1)
      BY <1>7, <2>1
    <3>2. Cardinality(upTo(x)) = Cardinality(upTo(x - 1)) + 1
      BY <1>2, <1>7, <3>1, FS_AddElement
    <3>3. Cardinality(upTo(x - 1)) \in Nat
      BY <1>2, <1>7
    <3> QED BY <1>9, <1>10, <2>1, <3>2, <3>3
  <2>2. CASE x \notin S
    <3> \A j \in S : j <= x <=> j <= x - 1
      BY <1>7, <2>2
    <3>1. upTo(x) = upTo(x - 1)
      OBVIOUS
    <3> QED BY <1>9, <3>1
  <2> QED BY <2>1, <2>2
<1>12. \E i \in S : Cardinality({j \in S : j <= i}) = n
  BY <1>11
<1> QED BY <1>12 DEF Nth

(* Induction over the naturals, for a set: the least number outside would   *)
(* have a predecessor inside.                                               *)
LEMMA Inductive ==
  ASSUME NEW S, 0 \in S, \A n \in Nat : n \in S => n + 1 \in S
  PROVE  Nat \subseteq S
<1> SUFFICES ASSUME Nat \ S # {} PROVE FALSE
  OBVIOUS
<1>1. PICK x \in Nat \ S : \A y \in Nat \ S : x <= y
  BY Least
<1>2. x # 0 /\ x - 1 \in Nat /\ ~ (x <= x - 1)
  OBVIOUS
<1>3. x - 1 \in S
  BY <1>1, <1>2
<1> QED BY <1>2, <1>3

(* What the proofs use of %.                                                *)
LEMMA Remainder ==
  ASSUME NEW n \in Nat \ {0}, NEW a \in Int
  PROVE  /\ a % n \in 0..(n - 1)
         /\ a \in 0..(n - 1) => a % n = a
         /\ a \in n..(2 * n - 1) => a % n = a - n
OBVIOUS

(* A remainder is the only one,                                             *)
LEMMA RemainderUnique ==
  ASSUME NEW n \in Nat \ {0}, NEW q \in Nat, NEW r \in 0..(n - 1)
  PROVE  (q * n + r) % n = r
<1> DEFINE a == q * n + r
           p == a \div n
           t == a % n
<1>1. a \in Nat /\ p \in Nat /\ t \in 0..(n - 1) /\ a = p * n + t
  OBVIOUS
<1> HIDE DEF p, t
<1>2. q * n + r = p * n + t
  BY <1>1
<1>3. (q - p) * n = t - r
  BY <1>1, <1>2
<1>4. t - r < n /\ t - r > -n
  BY <1>1
<1>5. q - p = 0
  <2>1. CASE q - p >= 1
    <3>1. (q - p) * n >= n
      BY <1>1, <2>1
    <3> QED BY <1>1, <1>3, <1>4, <3>1
  <2>2. CASE q - p <= -1
    <3>1. (q - p) * n <= -n
      BY <1>1, <2>2
    <3> QED BY <1>1, <1>3, <1>4, <3>1
  <2> QED BY <1>1, <2>1, <2>2
<1>6. q = p
  BY <1>1, <1>5
<1>7. t = r
  BY <1>1, <1>2, <1>6
<1> QED BY <1>7 DEF t

(* ... so counting on moves it on by one and round: the counter of          *)
(* next_empty_route_index.                                                  *)
LEMMA RemainderNext ==
  ASSUME NEW n \in Nat \ {0}, NEW a \in Nat
  PROVE  (a + 1) % n = IF a % n = n - 1 THEN 0 ELSE (a % n) + 1
<1>1. PICK q \in Nat, r \in 0..(n - 1) : a = q * n + r /\ r = a % n
  <2>1. a \div n \in Nat /\ a % n \in 0..(n - 1) /\ a = (a \div n) * n + (a % n)
    OBVIOUS
  <2> QED BY <2>1
<1>2. CASE r = n - 1
  <2>1. a + 1 = (q + 1) * n + 0 /\ q + 1 \in Nat /\ 0 \in 0..(n - 1)
    BY <1>1, <1>2
  <2>2. (a + 1) % n = 0
    BY <2>1, RemainderUnique
  <2> QED BY <1>1, <1>2, <2>2
<1>3. CASE r # n - 1
  <2>1. a + 1 = q * n + (r + 1) /\ r + 1 \in 0..(n - 1)
    BY <1>1, <1>3
  <2>2. (a + 1) % n = r + 1
    BY <2>1, RemainderUnique
  <2> QED BY <1>1, <1>3, <2>2
<1> QED BY <1>2, <1>3

(* The way from a hash forward to another, without %.                       *)
LEMMA DistanceValue ==
  ASSUME NEW a \in Hashes, NEW b \in Hashes
  PROVE  Distance(a, b) = IF a <= b THEN b - a ELSE b - a + HashSpace
<1>1. HashSpace \in Nat \ {0} /\ a \in 0..(HashSpace - 1) /\ b \in 0..(HashSpace - 1)
  BY RouterAssumption DEF Hashes
<1> DEFINE d == b - a + HashSpace
<1>2. d \in Int /\ (a <= b => d \in HashSpace..(2 * HashSpace - 1))
      /\ (~ (a <= b) => d \in 0..(HashSpace - 1))
  BY <1>1
<1>3. d % HashSpace = IF a <= b THEN d - HashSpace ELSE d
  <2> HIDE DEF d
  <2> QED BY <1>1, <1>2, Remainder
<1> QED BY <1>1, <1>3 DEF Distance

(* A virtual node as the ring has it.                                       *)
Entry == [hash : Int, shard : Int]

-----------------------------------------------------------------------------
(* The ring sorts by a strict order that is total,                          *)
LEMMA BeforeIsOrder ==
  ASSUME NEW a \in Entry, NEW b \in Entry, NEW c \in Entry
  PROVE  /\ ~ Before(a, a)
         /\ Before(a, b) /\ Before(b, c) => Before(a, c)
         /\ a = b \/ Before(a, b) \/ Before(b, a)
         /\ ~ (Before(a, b) /\ Before(b, a))
<1>1. a.hash \in Int /\ a.shard \in Int /\ b.hash \in Int /\ b.shard \in Int /\ c.hash \in Int
      /\ c.shard \in Int
  BY DEF Entry
<1>2. a.hash = b.hash /\ a.shard = b.shard => a = b
  BY DEF Entry
<1> QED BY <1>1, <1>2 DEF Before

(* ... the rank of a virtual node grows with it,                            *)
LEMMA RankOrder ==
  ASSUME NEW R \in SUBSET Entry, IsFiniteSet(R), NEW e \in R, NEW f \in R
  PROVE  /\ Rank(R, e) \in 1..Cardinality(R)
         /\ Before(e, f) => Rank(R, e) < Rank(R, f)
<1> DEFINE below(x) == {g \in R : g = x \/ Before(g, x)}
<1>1. /\ below(e) \in SUBSET R /\ e \in below(e)
      /\ below(f) \in SUBSET R /\ f \in below(f)
  OBVIOUS
<1>2. Rank(R, e) = Cardinality(below(e)) /\ Rank(R, f) = Cardinality(below(f))
  BY DEF Rank
<1>3. ASSUME Before(e, f) PROVE below(e) \in SUBSET below(f) /\ f \notin below(e)
  <2>1. ASSUME NEW g \in R, g = e \/ Before(g, e) PROVE Before(g, f)
    <3>1. g \in Entry /\ e \in Entry /\ f \in Entry
      OBVIOUS
    <3> QED BY <1>3, <2>1, <3>1, BeforeIsOrder
  <2>2. f # e /\ ~ Before(f, e)
    <3>1. e \in Entry /\ f \in Entry
      OBVIOUS
    <3> QED BY <1>3, <3>1, BeforeIsOrder
  <2> QED BY <2>1, <2>2
<1> HIDE DEF below
<1>4. IsFiniteSet(below(e)) /\ Cardinality(below(e)) <= Cardinality(R) /\ IsFiniteSet(below(f))
  BY <1>1, FS_Subset
<1>5. Cardinality(below(e)) \in Nat /\ Cardinality(below(f)) \in Nat /\ Cardinality(R) \in Nat
  BY <1>4, FS_CardinalityType
<1>6. Cardinality(below(e)) # 0
  BY <1>1, <1>4, FS_EmptySet
<1>7. Rank(R, e) \in 1..Cardinality(R)
  BY <1>2, <1>4, <1>5, <1>6
<1>8. ASSUME Before(e, f) PROVE Rank(R, e) < Rank(R, f)
  <2>1. below(e) \in SUBSET below(f) /\ below(e) # below(f)
    BY <1>1, <1>3, <1>8
  <2>2. Cardinality(below(e)) <= Cardinality(below(f))
        /\ Cardinality(below(e)) # Cardinality(below(f))
    BY <1>4, <2>1, FS_Subset
  <2> QED BY <1>2, <1>5, <2>2
<1> QED BY <1>7, <1>8

(* ... and every place of the ring is the rank of one: a strictly growing   *)
(* map into as many numbers is onto.                                        *)
LEMMA RankOnto ==
  ASSUME NEW R \in SUBSET Entry, IsFiniteSet(R), NEW k \in 1..Cardinality(R)
  PROVE  \E e \in R : Rank(R, e) = k
<1> DEFINE n == Cardinality(R)
           f == [e \in R |-> Rank(R, e)]
<1>1. n \in Nat
  BY FS_CardinalityType
<1>2. f \in [R -> 1..n]
  BY RankOrder
<1>3. ASSUME NEW a \in R, NEW b \in R, f[a] = f[b] PROVE a = b
  <2>1. Rank(R, a) = Rank(R, b) /\ Rank(R, a) \in Int
    BY <1>3, <1>1, RankOrder
  <2>2. ~ Before(a, b) /\ ~ Before(b, a)
    BY <2>1, RankOrder
  <2> QED BY <2>2, BeforeIsOrder
<1>4. f \in Injection(R, 1..n)
  BY <1>2, <1>3 DEF Injection, IsInjective
<1>5. IsFiniteSet(1..n) /\ Cardinality(1..n) = n
  <2>1. 1 \in Int /\ n \in Int /\ (1 > n => n = 0) /\ n - 1 + 1 = n
    BY <1>1
  <2> HIDE DEF n
  <2> QED BY <2>1, FS_Interval
<1>6. Cardinality(R) = Cardinality(1..n)
  BY <1>5
<1> HIDE DEF f
<1>7. f \in Surjection(R, 1..n)
  BY <1>4, <1>5, <1>6, FS_Injection
<1>8. \E e \in R : f[e] = k
  BY <1>7 DEF Surjection
<1> QED BY <1>8 DEF f

(* A virtual node belongs to a shard and a number of one,                   *)
LEMMA EntriesHave ==
  ASSUME NEW pts, NEW count, NEW e \in Entries(pts, count)
  PROVE  \E s \in 0..(count - 1), v \in Vnodes : e = [hash |-> pts[<<s, v>>], shard |-> s]
<1>1. PICK p \in (0..(count - 1)) \X Vnodes : e = [hash |-> pts[p], shard |-> p[1]]
  BY DEF Entries
<1>2. p = <<p[1], p[2]>> /\ p[1] \in 0..(count - 1) /\ p[2] \in Vnodes
  OBVIOUS
<1> QED BY <1>1, <1>2

(* ... each of them has its node,                                           *)
LEMMA EntriesTake ==
  ASSUME NEW pts, NEW count, NEW s \in 0..(count - 1), NEW v \in Vnodes
  PROVE  [hash |-> pts[<<s, v>>], shard |-> s] \in Entries(pts, count)
<1>1. <<s, v>> \in (0..(count - 1)) \X Vnodes /\ <<s, v>>[1] = s
  OBVIOUS
<1> QED BY <1>1 DEF Entries

(* ... and there are finitely many.                                         *)
LEMMA EntriesProperties ==
  ASSUME NEW pts \in PointSpace, NEW count \in 1..(ShardCount + 1)
  PROVE  /\ Entries(pts, count) \in SUBSET Entry /\ IsFiniteSet(Entries(pts, count))
         /\ Cardinality(Entries(pts, count)) \in Nat \ {0}
         /\ \A e \in Entries(pts, count) : e.hash \in Hashes /\ e.shard \in 0..(count - 1)
<1> DEFINE P == (0..(count - 1)) \X Vnodes
           R == Entries(pts, count)
           f == [p \in P |-> [hash |-> pts[p], shard |-> p[1]]]
<1>0. ShardCount \in Nat \ {0} /\ VirtualNodes \in Nat \ {0} /\ HashSpace \in Nat \ {0}
      /\ count \in Nat \ {0}
      /\ count <= ShardCount + 1
  BY RouterAssumption
<1>3. ASSUME NEW e \in R PROVE e \in Entry /\ e.hash \in Hashes /\ e.shard \in 0..(count - 1)
  <2>2. PICK s \in 0..(count - 1), v \in Vnodes : e = [hash |-> pts[<<s, v>>], shard |-> s]
    BY EntriesHave
  <2>3. s \in 0..ShardCount
    BY <1>0
  <2>4. pts[<<s, v>>] \in Hashes
    BY <2>3 DEF PointSpace
  <2>5. pts[<<s, v>>] \in Int /\ s \in Int
    BY <1>0, <2>4 DEF Hashes
  <2>6. e.hash = pts[<<s, v>>] /\ e.shard = s
    BY <2>2
  <2> QED BY <2>2, <2>4, <2>5, <2>6 DEF Entry
<1>4. f \in Surjection(P, R)
  <2>1. R = {f[p] : p \in P}
    BY DEF Entries
  <2> QED BY <2>1 DEF Surjection
<1>5. IsFiniteSet(0..(count - 1)) /\ IsFiniteSet(Vnodes)
  <2>1. 0 \in Int /\ count - 1 \in Int /\ VirtualNodes - 1 \in Int
    BY <1>0
  <2>2. IsFiniteSet(0..(count - 1)) /\ IsFiniteSet(0..(VirtualNodes - 1))
    BY ONLY <2>1, FS_Interval
  <2> QED BY <2>2 DEF Vnodes
<1>6. IsFiniteSet(P)
  BY <1>5, FS_Product
<1>8. R # {}
  <2>1. 0 \in 0..(count - 1) /\ 0 \in Vnodes
    BY <1>0 DEF Vnodes
  <2> QED BY <2>1, EntriesTake
<1> HIDE DEF f, P, R
<1>7. IsFiniteSet(R)
  BY <1>4, <1>6, FS_Surjection
<1>9. Cardinality(R) \in Nat /\ Cardinality(R) # 0
  BY <1>7, <1>8, FS_CardinalityType, FS_EmptySet
<1> QED BY <1>3, <1>7, <1>9 DEF R

(* The ring has every virtual node, in order.                               *)
LEMMA RingProperties ==
  ASSUME NEW pts \in PointSpace, NEW count \in 1..(ShardCount + 1), NEW r,
         r = Ring("consistent_hashing", pts, count)
  PROVE  /\ r \in Seq(Entry) /\ r # <<>> /\ Len(r) \in Nat \ {0} /\ DOMAIN r = 1..Len(r)
         /\ \A i \in DOMAIN r : r[i] \in Entries(pts, count)
         /\ \A e \in Entries(pts, count) : \E i \in DOMAIN r : r[i] = e
         /\ \A i, j \in DOMAIN r : i < j => Before(r[i], r[j])
<1> DEFINE R == Entries(pts, count)
           n == Cardinality(R)
<1>1. R \in SUBSET Entry /\ IsFiniteSet(R) /\ n \in Nat \ {0}
  BY EntriesProperties
<1>2. r = [k \in 1..n |-> CHOOSE e \in R : Rank(R, e) = k]
  BY DEF Ring
<1> HIDE DEF R
<1>3. \A k \in 1..n : r[k] \in R /\ Rank(R, r[k]) = k
  <2> TAKE k \in 1..n
  <2>1. \E e \in R : Rank(R, e) = k
    BY <1>1, RankOnto
  <2>2. r[k] = CHOOSE e \in R : Rank(R, e) = k
    BY <1>2
  <2> QED BY <2>1, <2>2
<1> HIDE DEF n
<1>4. r \in [1..n -> Entry]
  <2>1. \A k \in 1..n : r[k] \in Entry
    BY <1>1, <1>3
  <2> QED BY <1>2, <2>1
<1>5. r \in Seq(Entry) /\ Len(r) = n /\ DOMAIN r = 1..n
  BY <1>1, <1>4
<1>6. ASSUME NEW e \in R PROVE \E i \in DOMAIN r : r[i] = e
  <2> DEFINE k == Rank(R, e)
  <2>1. k \in 1..n
    BY <1>1, RankOrder DEF n
  <2>2. r[k] \in R /\ Rank(R, r[k]) = k
    BY <1>3, <2>1
  <2>3. ~ Before(r[k], e) /\ ~ Before(e, r[k])
    <3>1. k \in Int
      BY <1>1, <2>1
    <3> QED BY <1>1, <2>2, <3>1, RankOrder
  <2>4. r[k] = e
    BY <1>1, <2>2, <2>3, BeforeIsOrder
  <2> QED BY <1>5, <2>1, <2>4
<1>7. ASSUME NEW i \in 1..n, NEW j \in 1..n, i < j PROVE Before(r[i], r[j])
  <2>1. r[i] \in R /\ r[j] \in R /\ Rank(R, r[i]) = i /\ Rank(R, r[j]) = j
    BY <1>3
  <2>2. i \in Int /\ j \in Int /\ ~ (j < i) /\ i # j
    BY <1>1, <1>7
  <2>3. r[i] # r[j] /\ ~ Before(r[j], r[i])
    BY <1>1, <2>1, <2>2, RankOrder
  <2> QED BY <1>1, <2>1, <2>3, BeforeIsOrder
<1>8. r # <<>>
  BY <1>1, <1>5
<1> QED BY <1>1, <1>3, <1>5, <1>6, <1>7, <1>8 DEF R

(* The lookup finds the first virtual node at or after the hash, or the     *)
(* first of all when there is none.                                         *)
LEMMA LowerBoundProperties ==
  ASSUME NEW r \in Seq(Entry), r # <<>>, NEW h \in Int,
         \A i, j \in DOMAIN r : i < j => Before(r[i], r[j])
  PROVE  \E k \in DOMAIN r :
           /\ LowerBound(r, h) = r[k]
           /\ \/ k = 1 /\ \A i \in DOMAIN r : r[i].hash < h
              \/ r[k].hash >= h /\ \A i \in DOMAIN r : i < k => r[i].hash < h
<1> DEFINE from == {i \in DOMAIN r : r[i].hash >= h}
<1>0. DOMAIN r = 1..Len(r) /\ Len(r) \in Nat \ {0} /\ \A i \in DOMAIN r : r[i] \in Entry
  OBVIOUS
<1>1. DOMAIN r = 1..Len(r) /\ Len(r) \in Nat \ {0} /\ \A i \in DOMAIN r : r[i].hash \in Int
  BY <1>0 DEF Entry
<1>2. CASE from = {}
  <2>1. LowerBound(r, h) = r[1]
    BY <1>2 DEF LowerBound
  <2>2. \A i \in DOMAIN r : r[i].hash < h
    BY <1>1, <1>2
  <2>3. 1 \in DOMAIN r
    BY <1>1
  <2> QED BY <2>1, <2>2, <2>3
<1>3. CASE from # {}
  <2>1. from \subseteq Nat
    BY <1>1
  <2>2. \E x \in from : \A y \in from : x <= y
    BY <1>3, <2>1, Least
  <2>3. Min(from) \in from /\ \A y \in from : Min(from) <= y
    BY <2>2 DEF Min
  <2>4. LowerBound(r, h) = r[Min(from)]
    BY <1>3 DEF LowerBound
  <2> DEFINE k == Min(from)
  <2>5. k \in DOMAIN r /\ r[k].hash >= h
    BY <2>3
  <2>6. ASSUME NEW i \in DOMAIN r, i < k PROVE r[i].hash < h
    <3>1. i \in Int /\ k \in Int
      BY <1>1, <2>5
    <3>2. ~ (k <= i)
      BY <2>6, <3>1
    <3>3. i \notin from
      BY <2>3, <3>2
    <3> QED BY <1>1, <3>3
  <2> QED BY <2>4, <2>5, <2>6
<1> QED BY <1>2, <1>3

(* So it finds the nearest one going up and round.                          *)
LEMMA RingServesNearest ==
  ASSUME NEW pts \in PointSpace, NEW count \in 1..(ShardCount + 1), NEW r,
         r = Ring("consistent_hashing", pts, count)
  PROVE  NearestServes(r)
<1> SUFFICES ASSUME NEW h \in Hashes, NEW i \in DOMAIN r
             PROVE  LET e == LowerBound(r, h)
                    IN  \/ Distance(h, e.hash) < Distance(h, r[i].hash)
                        \/ Distance(h, e.hash) = Distance(h, r[i].hash) /\ e.shard <= r[i].shard
  BY DEF NearestServes
<1>1. /\ r \in Seq(Entry) /\ r # <<>> /\ DOMAIN r = 1..Len(r) /\ Len(r) \in Nat
      /\ \A j \in DOMAIN r : r[j] \in Entries(pts, count)
      /\ \A j, k \in DOMAIN r : j < k => Before(r[j], r[k])
  BY RingProperties
<1>2. h \in Int /\ HashSpace \in Nat \ {0} /\ 0 <= h /\ h < HashSpace
  BY RouterAssumption DEF Hashes
<1>3. PICK k \in DOMAIN r :
           /\ LowerBound(r, h) = r[k]
           /\ \/ k = 1 /\ \A j \in DOMAIN r : r[j].hash < h
              \/ r[k].hash >= h /\ \A j \in DOMAIN r : j < k => r[j].hash < h
  BY <1>1, <1>2, LowerBoundProperties
<1>4. /\ r[i].hash \in Hashes /\ r[k].hash \in Hashes /\ r[i].shard \in Int /\ r[k].shard \in Int
      /\ r[i] \in Entry /\ r[k] \in Entry
  BY <1>1, <1>3, EntriesProperties DEF Entry
<1>5. /\ Distance(h, r[i].hash) = IF h
           <= r[i].hash THEN r[i].hash - h ELSE r[i].hash - h + HashSpace
      /\ Distance(h, r[k].hash) = IF h
           <= r[k].hash THEN r[k].hash - h ELSE r[k].hash - h + HashSpace
  BY <1>4, DistanceValue
<1>6. /\ r[i].hash \in Int /\ r[k].hash \in Int /\ 0 <= r[i].hash /\ 0 <= r[k].hash
      /\ r[i].hash < HashSpace /\ r[k].hash < HashSpace
  BY <1>2, <1>4 DEF Hashes
<1>7. k <= i => r[k].hash < r[i].hash \/ (r[k].hash = r[i].hash /\ r[k].shard <= r[i].shard)
  <2>1. CASE k < i
    BY <1>1, <1>3, <1>4, <2>1 DEF Before
  <2>2. CASE k = i
    BY <1>4, <1>6, <2>2
  <2> QED BY <1>1, <1>3, <2>1, <2>2
<1>8. \/ k <= i
      \/ i < k /\ r[i].hash < h /\ r[k].hash >= h
  BY <1>1, <1>2, <1>3
<1>9. \/ r[i].hash < h /\ r[k].hash < h /\ k <= i
      \/ r[k].hash >= h /\ (k <= i \/ r[i].hash < h)
  BY <1>1, <1>2, <1>3, <1>8
<1>10. \/ Distance(h, r[k].hash) < Distance(h, r[i].hash)
       \/ Distance(h, r[k].hash) = Distance(h, r[i].hash) /\ r[k].shard <= r[i].shard
  BY <1>2, <1>5, <1>6, <1>7, <1>9
<1> QED BY <1>3, <1>10

(* A ring with one more shard has the old virtual nodes and the new         *)
(* shard's: a lookup that changes goes to the new shard.                    *)
LEMMA RingGrows ==
  ASSUME NEW pts \in PointSpace
  PROVE  OnlyToNewShard(pts)
<1>0. ShardCount \in Nat \ {0} /\ HashSpace \in Nat \ {0}
  BY RouterAssumption
<1> SUFFICES ASSUME NEW n \in 1..ShardCount, NEW h \in Hashes
             PROVE  LowerBound(Ring("consistent_hashing", pts, n + 1), h).shard
                      \in {LowerBound(Ring("consistent_hashing", pts, n), h).shard, n}
  BY DEF OnlyToNewShard
<1> DEFINE small == Ring("consistent_hashing", pts, n)
           large == Ring("consistent_hashing", pts, n + 1)
<1>1. n \in 1..(ShardCount + 1) /\ n + 1 \in 1..(ShardCount + 1) /\ n \in Nat /\ h \in Int
  BY <1>0 DEF Hashes
<1>2. /\ small \in Seq(Entry) /\ small # <<>>
         /\ \A i \in DOMAIN small : small[i] \in Entries(pts, n)
      /\ \A e \in Entries(pts, n) : \E i \in DOMAIN small : small[i] = e
      /\ \A i, j \in DOMAIN small : i < j => Before(small[i], small[j])
  BY <1>1, RingProperties
<1>3. /\ large \in Seq(Entry) /\ large # <<>>
         /\ \A i \in DOMAIN large : large[i] \in Entries(pts, n + 1)
      /\ \A e \in Entries(pts, n + 1) : \E i \in DOMAIN large : large[i] = e
      /\ \A i, j \in DOMAIN large : i < j => Before(large[i], large[j])
  BY <1>1, RingProperties
<1>4. NearestServes(small) /\ NearestServes(large)
  BY <1>1, RingServesNearest
<1> HIDE DEF small, large
<1> DEFINE a == LowerBound(small, h)
           b == LowerBound(large, h)
<1>5. a \in Entries(pts, n) /\ b \in Entries(pts, n + 1)
  <2>1. \E k \in DOMAIN small : a = small[k]
    BY <1>1, <1>2, LowerBoundProperties
  <2>2. \E k \in DOMAIN large : b = large[k]
    BY <1>1, <1>3, LowerBoundProperties
  <2> QED BY <1>2, <1>3, <2>1, <2>2
<1> HIDE DEF a, b
<1>m. PICK m \in Nat : m = n + 1
  BY <1>1
<1>6. a \in Entries(pts, n + 1)
  <2>1. PICK s \in 0..(n - 1), v \in Vnodes : a = [hash |-> pts[<<s, v>>], shard |-> s]
    BY <1>5, EntriesHave
  <2>2. s \in 0..(m - 1)
    BY <1>1, <1>m
  <2>3. a \in Entries(pts, m)
    BY <2>1, <2>2, EntriesTake
  <2> QED BY <2>3, <1>m
<1>7. b.shard = n \/ b \in Entries(pts, n)
  <2>0. b \in Entries(pts, m)
    BY <1>5, <1>m
  <2>1. PICK s \in 0..(m - 1), v \in Vnodes : b = [hash |-> pts[<<s, v>>], shard |-> s]
    BY <2>0, EntriesHave
  <2>2. s = n \/ s \in 0..(n - 1)
    BY <1>1, <1>m
  <2>3. b.shard = s
    BY <2>1
  <2> QED BY <2>1, <2>2, <2>3, EntriesTake
<1>8. /\ a.hash \in Hashes /\ b.hash \in Hashes /\ a.shard \in Int /\ b.shard \in Int
  <2>1. a \in Entry /\ b \in Entry /\ a.hash \in Hashes /\ b.hash \in Hashes
    BY <1>1, <1>5, EntriesProperties
  <2> QED BY <2>1 DEF Entry
<1>9. Distance(h, a.hash) \in Int /\ Distance(h, b.hash) \in Int
  <2>1. a.hash \in Int /\ b.hash \in Int
    BY <1>0, <1>8 DEF Hashes
  <2>2. /\ Distance(h, a.hash) = IF h <= a.hash THEN a.hash - h ELSE a.hash - h + HashSpace
        /\ Distance(h, b.hash) = IF h <= b.hash THEN b.hash - h ELSE b.hash - h + HashSpace
    BY <1>8, DistanceValue
  <2> QED BY <1>0, <1>1, <2>1, <2>2
<1>10. PICK i \in DOMAIN large : large[i] = a
  BY <1>3, <1>6
<1>11. \/ Distance(h, b.hash) < Distance(h, a.hash)
       \/ Distance(h, b.hash) = Distance(h, a.hash) /\ b.shard <= a.shard
  BY <1>4, <1>10 DEF NearestServes, a, b
<1>12. CASE b \in Entries(pts, n)
  <2>1. PICK j \in DOMAIN small : small[j] = b
    BY <1>2, <1>12
  <2>2. \/ Distance(h, a.hash) < Distance(h, b.hash)
        \/ Distance(h, a.hash) = Distance(h, b.hash) /\ a.shard <= b.shard
    BY <1>4, <2>1 DEF NearestServes, a, b
  <2>3. a.shard = b.shard
    BY <1>8, <1>9, <1>11, <2>2
  <2> QED BY <2>3 DEF small, large, a, b
<1> QED BY <1>7, <1>12 DEF small, large, a, b

-----------------------------------------------------------------------------
(* The positions of S up to i.                                              *)
UpTo(S, i) == {j \in S : j <= i}

(* There are more of them the larger i is.                                  *)
LEMMA UpToProperties ==
  ASSUME NEW m \in Nat, NEW S \in SUBSET (1..m), NEW i \in S, NEW k \in S
  PROVE  /\ Cardinality(UpTo(S, i)) \in 1..Cardinality(S)
         /\ i <= k => Cardinality(UpTo(S, i)) <= Cardinality(UpTo(S, k))
         /\ i < k => Cardinality(UpTo(S, i)) < Cardinality(UpTo(S, k))
<1>1. /\ \A j \in S : j \in Nat
      /\ i \in Nat /\ k \in Nat /\ Cardinality(S) \in Nat /\ IsFiniteSet(S)
  BY PartFinite
<1>2. /\ UpTo(S, i) \in SUBSET S /\ UpTo(S, k) \in SUBSET S
      /\ i \in UpTo(S, i) /\ k \in UpTo(S, k)
  BY <1>1 DEF UpTo
<1>3. ASSUME i <= k PROVE UpTo(S, i) \in SUBSET UpTo(S, k)
  <2>1. \A j \in S : j <= i => j <= k
    BY <1>1, <1>3
  <2> QED BY <2>1 DEF UpTo
<1>4. i < k => k \notin UpTo(S, i)
  BY <1>1 DEF UpTo
<1>5. /\ IsFiniteSet(UpTo(S, i)) /\ Cardinality(UpTo(S, i)) <= Cardinality(S)
      /\ IsFiniteSet(UpTo(S, k))
  BY <1>1, <1>2, FS_Subset
<1>6. Cardinality(UpTo(S, i)) \in Nat /\ Cardinality(UpTo(S, k)) \in Nat
  BY <1>5, FS_CardinalityType
<1>7. Cardinality(UpTo(S, i)) # 0
  BY <1>2, <1>5, FS_EmptySet
<1>8. i <= k => Cardinality(UpTo(S, i)) <= Cardinality(UpTo(S, k))
  BY <1>3, <1>5, FS_Subset
<1>9. ASSUME i < k PROVE Cardinality(UpTo(S, i)) < Cardinality(UpTo(S, k))
  <2>1. i <= k
    BY <1>1, <1>9
  <2>2. UpTo(S, i) \in SUBSET UpTo(S, k) /\ UpTo(S, i) # UpTo(S, k)
    BY <1>2, <1>3, <1>4, <1>9, <2>1
  <2>3. Cardinality(UpTo(S, i)) <= Cardinality(UpTo(S, k))
        /\ Cardinality(UpTo(S, i)) # Cardinality(UpTo(S, k))
    BY <1>5, <2>2, FS_Subset
  <2> QED BY <1>6, <2>3
<1> QED BY <1>1, <1>5, <1>6, <1>7, <1>8, <1>9

(* The n-th smallest positions grow with n,                                 *)
LEMMA NthOrder ==
  ASSUME NEW m \in Nat, NEW S \in SUBSET (1..m), NEW k \in 1..Cardinality(S), NEW l
           \in 1..Cardinality(S), k < l
  PROVE  Nth(S, k) < Nth(S, l)
<1>1. /\ Nth(S, k) \in S /\ Cardinality(UpTo(S, Nth(S, k))) = k
      /\ Nth(S, l) \in S /\ Cardinality(UpTo(S, Nth(S, l))) = l
  BY NthIsMember DEF UpTo
<1>2. Nth(S, l) <= Nth(S, k) => l <= k
  BY <1>1, UpToProperties
<1>0. \A j \in S : j \in Int
  OBVIOUS
<1>3. Nth(S, k) \in Int /\ Nth(S, l) \in Int
  BY <1>0, <1>1
<1>4. k \in Int /\ l \in Int
  BY PartFinite
<1> QED BY <1>2, <1>3, <1>4

(* ... and every position is one of them.                                   *)
LEMMA NthOnto ==
  ASSUME NEW m \in Nat, NEW S \in SUBSET (1..m), NEW i \in S
  PROVE  \E k \in 1..Cardinality(S) : Nth(S, k) = i
<1> DEFINE k == Cardinality(UpTo(S, i))
<1>1. k \in 1..Cardinality(S)
  BY UpToProperties
<1>2. Nth(S, k) \in S /\ Cardinality(UpTo(S, Nth(S, k))) = k
  BY <1>1, NthIsMember DEF UpTo
<1>0. (\A j \in S : j \in Int) /\ Cardinality(S) \in Nat
  BY PartFinite
<1>3. k \in Int /\ i \in Int /\ Nth(S, k) \in Int
  <2>1. i \in Int /\ Nth(S, k) \in Int
    BY <1>0, <1>2
  <2>2. \A c \in Nat : \A x \in 1..c : x \in Int
    OBVIOUS
  <2> QED BY <1>0, <1>1, <2>1, <2>2
<1>4. ~ (i < Nth(S, k))
  <2>1. i < Nth(S, k) => k < Cardinality(UpTo(S, Nth(S, k)))
    BY <1>2, UpToProperties
  <2> QED BY <1>2, <1>3, <2>1
<1>5. ~ (Nth(S, k) < i)
  <2>1. Nth(S, k) < i => Cardinality(UpTo(S, Nth(S, k))) < k
    BY <1>2, UpToProperties
  <2> QED BY <1>2, <1>3, <2>1
<1> QED BY <1>1, <1>3, <1>4, <1>5

(* A shard's part of a batch has exactly the records that go there, in the  *)
(* order of the batch.                                                      *)
LEMMA PartProperties ==
  ASSUME NEW M, NEW msgs \in Seq(M), NEW shards \in [1..Len(msgs) -> Shards], NEW s, NEW part,
         part = PartFor(msgs, shards, s)
  PROVE  /\ part \in Seq(M)
         /\ \A k \in DOMAIN part : \E i \in 1..Len(msgs) : shards[i] = s /\ part[k] = msgs[i]
         /\ \A i \in 1..Len(msgs) : shards[i] = s => \E k \in DOMAIN part : part[k] = msgs[i]
         /\ \A k, l \in DOMAIN part : k < l =>
              \E i, j \in 1..Len(msgs) : i < j /\ part[k] = msgs[i] /\ part[l] = msgs[j]
<1> DEFINE mine == {i \in DOMAIN msgs : shards[i] = s}
           n == Cardinality(mine)
<1>1. Len(msgs) \in Nat /\ DOMAIN msgs = 1..Len(msgs)
  OBVIOUS
<1>2. mine \in SUBSET (1..Len(msgs)) /\ \A i \in 1..Len(msgs) : i \in mine <=> shards[i] = s
  BY <1>1
<1>3. part = [k \in 1..n |-> msgs[Nth(mine, k)]]
  BY DEF PartFor
<1> HIDE DEF mine
<1>4. n \in Nat
  BY <1>1, <1>2, PartFinite
<1>5. \A k \in 1..n : Nth(mine, k) \in mine
  BY <1>1, <1>2, NthIsMember
<1>6. \A k, l \in 1..n : k < l => Nth(mine, k) < Nth(mine, l)
  BY <1>1, <1>2, NthOrder
<1>7. \A i \in mine : \E k \in 1..n : Nth(mine, k) = i
  BY <1>1, <1>2, NthOnto
<1> HIDE DEF n
<1>8. \A k \in 1..n : part[k] = msgs[Nth(mine, k)] /\ Nth(mine, k) \in 1..Len(msgs)
      /\ shards[Nth(mine, k)] = s
  BY <1>2, <1>3, <1>5
<1>9. part \in [1..n -> M] /\ DOMAIN part = 1..n
  <2>1. \A k \in 1..n : msgs[Nth(mine, k)] \in M
    BY <1>1, <1>8
  <2> QED BY <1>3, <2>1
<1>10. part \in Seq(M)
  BY <1>4, <1>9
<1>11. \A i \in 1..Len(msgs) : shards[i] = s => \E k \in DOMAIN part : part[k] = msgs[i]
  BY <1>2, <1>7, <1>8, <1>9
<1>12. \A k, l \in DOMAIN part : k < l =>
          \E i, j \in 1..Len(msgs) : i < j /\ part[k] = msgs[i] /\ part[l] = msgs[j]
  BY <1>6, <1>8, <1>9
<1> QED BY <1>8, <1>9, <1>10, <1>11, <1>12

(* The same, fact by fact: every record of a part goes there,               *)
LEMMA PartMembers ==
  ASSUME NEW M, NEW msgs \in Seq(M), NEW shards \in [1..Len(msgs) -> Shards], NEW s, NEW k
           \in DOMAIN PartFor(msgs, shards, s)
  PROVE  \E i \in 1..Len(msgs) : shards[i] = s /\ PartFor(msgs, shards, s)[k] = msgs[i]
<1>1. PICK part : part = PartFor(msgs, shards, s)
  OBVIOUS
<1>2. /\ \A l \in DOMAIN part : \E j \in 1..Len(msgs) : shards[j] = s /\ part[l] = msgs[j]
      /\ \A j \in 1..Len(msgs) : shards[j] = s => \E l \in DOMAIN part : part[l] = msgs[j]
  BY ONLY SMTT(30), <1>1, msgs \in Seq(M), shards \in [1..Len(msgs) -> Shards], PartProperties
<1> QED BY <1>1, <1>2

(* ... every record that goes there is in the part,                         *)
LEMMA PartCovers ==
  ASSUME NEW M, NEW msgs \in Seq(M), NEW shards \in [1..Len(msgs) -> Shards], NEW s, NEW i
           \in 1..Len(msgs), shards[i] = s
  PROVE  \E k \in DOMAIN PartFor(msgs, shards, s) : PartFor(msgs, shards, s)[k] = msgs[i]
<1>1. PICK part : part = PartFor(msgs, shards, s)
  OBVIOUS
<1>2. \A j \in 1..Len(msgs) : shards[j] = s => \E l \in DOMAIN part : part[l] = msgs[j]
  BY ONLY <1>1, msgs \in Seq(M), shards \in [1..Len(msgs) -> Shards], PartProperties
<1> QED BY <1>1, <1>2

(* ... and two records keep their order.                                    *)
LEMMA PartOrder ==
  ASSUME NEW M, NEW msgs \in Seq(M), NEW shards \in [1..Len(msgs) -> Shards], NEW s,
         NEW k \in DOMAIN PartFor(msgs, shards, s), NEW l \in DOMAIN PartFor(msgs, shards, s), k < l
  PROVE  \E i, j \in 1..Len(msgs) : i < j /\ PartFor(msgs, shards, s)[k] = msgs[i]
         /\ PartFor(msgs, shards, s)[l] = msgs[j]
BY PartProperties

-----------------------------------------------------------------------------
(* The ring is the one of the configuration.                                *)
RingOK ==
  /\ points \in PointSpace
  /\ ring = <<>> \/ ring = Ring("consistent_hashing", points, ShardCount)

(* What append and append_batch have in common: the numbered records of one *)
(* call, each with a shard, the one of its key if it has one, the next ones *)
(* in turn if nothing in the batch has.                                     *)
Posted(c, msgs, shards) ==
  /\ msgs \in Seq(Records) /\ msgs # <<>> /\ shards \in [1..Len(msgs) -> Shards]
  /\ \A i \in 1..Len(msgs) :
       /\ msgs[i].id = sent + i /\ msgs[i].from = c
       /\ ~Empty(msgs[i]) => shards[i] = RouteHash(ring, KeyHash[msgs[i].key])
  /\ policy = "round_robin" /\ (\A i \in 1..Len(msgs) : Empty(msgs[i])) =>
       /\ \A i \in 1..Len(msgs) : shards[i] = (rr + (i - 1)) % ShardCount
       /\ rr' = (rr + Len(msgs)) % ShardCount
  /\ rr' \in Shards /\ sent + Len(msgs) <= MaxRecords
  /\ Dispatch(c, msgs, shards, rr')
  /\ Note(c, msgs, shards)

(* The constants.                                                           *)
LEMMA Sizes ==
  /\ ShardCount \in Nat \ {0} /\ HashSpace \in Nat \ {0} /\ MaxRecords \in Nat /\ MaxBatch \in Nat
     /\ MaxStarts \in Nat
  /\ MaxFaults \in Nat /\ KeyHash \in [Keys -> Hashes] /\ Home \in [Callers -> Shards]
     /\ NoKey \notin Keys
  /\ Records = RecordSet /\ Configs \subseteq [routing : Strategies, empty : Policies]
BY RouterAssumption, EngineAssumption, ClientsAssumption

(* The ring names shards only,                                              *)
LEMMA RingType ==
  ASSUME NEW pts \in PointSpace, NEW r, r = Ring("consistent_hashing", pts, ShardCount)
  PROVE  /\ r \in Seq([hash : Hashes, shard : Shards]) /\ r # <<>>
         /\ \A h \in Hashes : LowerBound(r, h).shard \in Shards
<1>1. ShardCount \in 1..(ShardCount + 1)
  BY Sizes
<1>2. /\ r \in Seq(Entry) /\ r # <<>> /\ Len(r) \in Nat \ {0} /\ DOMAIN r = 1..Len(r)
      /\ \A i \in DOMAIN r : r[i] \in Entries(pts, ShardCount)
      /\ \A i, j \in DOMAIN r : i < j => Before(r[i], r[j])
  BY <1>1, RingProperties
<1>3. \A e \in Entries(pts, ShardCount) : e \in Entry /\ e.hash \in Hashes /\ e.shard \in Shards
  BY <1>1, EntriesProperties DEF Shards
<1>4. \A i \in 1..Len(r) : r[i] \in [hash : Hashes, shard : Shards]
  BY <1>2, <1>3 DEF Entry
<1>5. r \in Seq([hash : Hashes, shard : Shards])
  <2> DEFINE X == [hash : Hashes, shard : Shards]
             n == Len(r)
  <2>1. \A i \in 1..n : r[i] \in X
    BY <1>4
  <2>2. n \in Nat /\ r = [i \in 1..n |-> r[i]]
    BY <1>2
  <2> HIDE DEF X, n
  <2>3. r \in [1..n -> X]
    BY <2>1, <2>2
  <2>4. r \in Seq(X)
    BY <2>2, <2>3
  <2> QED BY <2>4 DEF X
<1>6. ASSUME NEW h \in Hashes PROVE LowerBound(r, h).shard \in Shards
  <2>1. h \in Int
    BY Sizes DEF Hashes
  <2>2. \E k \in DOMAIN r : LowerBound(r, h) = r[k]
    BY <1>2, <2>1, LowerBoundProperties
  <2> QED BY <1>2, <1>3, <2>2
<1> QED BY <1>2, <1>5, <1>6

(* ... so does the route of a hash,                                         *)
LEMMA RouteType ==
  ASSUME RingOK, NEW h \in Hashes
  PROVE  RouteHash(ring, h) \in Shards
<1>1. CASE ring = <<>>
  <2>1. h \in Int
    BY Sizes DEF Hashes
  <2>2. h % ShardCount \in 0..(ShardCount - 1)
    BY Sizes, <2>1, Remainder
  <2> QED BY <1>1, <2>2 DEF RouteHash, Shards
<1>2. CASE ring # <<>>
  BY <1>2, RingType DEF RouteHash, RingOK
<1> QED BY <1>1, <1>2

(* ... and the route of an empty key.                                       *)
LEMMA EmptyRoute ==
  ASSUME NEW home \in Shards, NEW counter \in Nat
  PROVE  /\ RouteEmpty(policy, home, counter) \in Shards
         /\ policy = "round_robin" => RouteEmpty(policy, home, counter) = counter % ShardCount
<1>1. home \in Int /\ counter \in Int
  BY Sizes DEF Shards
<1>2. home % ShardCount \in 0..(ShardCount - 1) /\ counter % ShardCount \in 0..(ShardCount - 1)
  BY <1>1, Sizes, Remainder
<1> QED BY <1>2 DEF RouteEmpty, Shards

(* How many empty keys come before a record.                                *)
LEMMA EmptyBeforeProperties ==
  ASSUME NEW msgs, NEW i \in Nat \ {0}
  PROVE  /\ EmptyBefore(msgs, i) \in 0..(i - 1)
         /\ (\A j \in 1..(i - 1) : Empty(msgs[j])) => EmptyBefore(msgs, i) = i - 1
<1> DEFINE S == {j \in 1..(i - 1) : Empty(msgs[j])}
<1>1. i - 1 \in Nat /\ 1 \in Int /\ i - 1 \in Int /\ (1 > i - 1 => i - 1 = 0)
      /\ i - 1 - 1 + 1 = i - 1
  OBVIOUS
<1>2. S \in SUBSET (1..(i - 1)) /\ EmptyBefore(msgs, i) = Cardinality(S)
  BY DEF EmptyBefore
<1>3. (\A j \in 1..(i - 1) : Empty(msgs[j])) => S = 1..(i - 1)
  OBVIOUS
<1> HIDE DEF S
<1>4. IsFiniteSet(1..(i - 1)) /\ Cardinality(1..(i - 1)) = i - 1
  <2> DEFINE m == i - 1
  <2>1. m \in Nat /\ 1 \in Int /\ m \in Int /\ (1 > m => m = 0) /\ m - 1 + 1 = m
    BY <1>1
  <2> HIDE DEF m
  <2>2. IsFiniteSet(1..m) /\ Cardinality(1..m) = m
    BY <2>1, FS_Interval
  <2> QED BY <2>2 DEF m
<1>5. Cardinality(S) \in Nat /\ Cardinality(S) <= i - 1
  BY <1>2, <1>4, FS_Subset, FS_CardinalityType
<1>6. EmptyBefore(msgs, i) \in 0..(i - 1)
  BY <1>1, <1>2, <1>5
<1> QED BY <1>2, <1>3, <1>4, <1>6

(* The records of a call.                                                   *)
LEMMA BatchProperties ==
  ASSUME TypeOK, NEW c \in Callers, NEW n \in Nat \ {0}, NEW keys \in [1..n -> Keys \cup {NoKey}],
         sent + n <= MaxRecords, NEW msgs, msgs = Batch(c, keys)
  PROVE  /\ msgs \in Seq(Records) /\ Len(msgs) = n /\ DOMAIN msgs = 1..n /\ msgs # <<>>
         /\ \A i \in 1..n : /\ msgs[i].id = sent + i /\ msgs[i].from = c
                            /\ msgs[i].key = keys[i] /\ msgs[i].key \in Keys \cup {NoKey}
<1>1. sent \in Nat
  BY Sizes DEF TypeOK
<1>2. msgs = [i \in 1..n |-> [id |-> sent + i, key |-> keys[i], from |-> c]]
  BY DEF Batch
<1>3. \A i \in 1..n : sent + i \in 1..MaxRecords /\ keys[i] \in Keys \cup {NoKey}
  BY <1>1, Sizes
<1>4. \A i \in 1..n : msgs[i] = [id |-> sent + i, key |-> keys[i], from |-> c]
  BY <1>2
<1>5. ASSUME NEW i \in 1..n PROVE msgs[i] \in Records
  <2>1. [id |-> sent + i, key |-> keys[i], from |-> c] \in RecordSet
    BY <1>3 DEF RecordSet
  <2> QED BY <1>4, <2>1, Sizes
<1>6. msgs \in [1..n -> Records]
  BY <1>2, <1>5
<1>7. msgs \in Seq(Records) /\ Len(msgs) = n /\ DOMAIN msgs = 1..n /\ msgs # <<>>
  BY <1>6
<1> QED BY <1>3, <1>4, <1>7

(* append is such a call,                                                   *)
LEMMA AppendPosts ==
  ASSUME TypeOK, RingOK, NEW c \in Callers, NEW key \in Keys \cup {NoKey}, CallAppend(c, key)
  PROVE  \E msgs, shards : Posted(c, msgs, shards)
<1> DEFINE keys == <<key>>
           msgs == Batch(c, keys)
           to == RouteToShard(key, Home[c], rr)
           shards == <<to>>
<1>1. keys \in [1..1 -> Keys \cup {NoKey}] /\ keys[1] = key
  OBVIOUS
<1>2. sent \in Nat /\ sent + 1 <= MaxRecords /\ rr \in Nat /\ rr \in Shards /\ Home[c] \in Shards
  <2>1. sent \in Nat /\ rr \in Shards /\ sent < MaxRecords
    BY Sizes DEF TypeOK, EngineTypeOK, CallAppend
  <2> QED BY <2>1, Sizes DEF Shards
<1>3. /\ msgs \in Seq(Records) /\ Len(msgs) = 1 /\ DOMAIN msgs = 1..1 /\ msgs # <<>>
      /\ \A i \in 1..1 : msgs[i].id = sent + i /\ msgs[i].from = c /\ msgs[i].key = keys[i]
  <2>1. 1 \in Nat \ {0}
    OBVIOUS
  <2> HIDE DEF msgs, keys
  <2>2. PICK n \in Nat \ {0} : n = 1
    BY <2>1
  <2>3. msgs = Batch(c, keys) /\ keys \in [1..n -> Keys \cup {NoKey}] /\ sent + n <= MaxRecords
    BY <1>1, <1>2, <2>2 DEF msgs
  <2>4. /\ msgs \in Seq(Records) /\ Len(msgs) = n /\ DOMAIN msgs = 1..n /\ msgs # <<>>
        /\ \A i \in 1..n : msgs[i].id = sent + i /\ msgs[i].from = c /\ msgs[i].key = keys[i]
    BY <2>3, BatchProperties
  <2> QED BY <2>2, <2>4
<1>4. AppendOne(c, msgs[1]) /\ Note(c, msgs, shards)
  BY DEF CallAppend
<1> HIDE DEF msgs, keys
<1>5. msgs = <<msgs[1]>> /\ msgs[1].key = key /\ msgs[1].id = sent + 1 /\ msgs[1].from = c
  BY <1>1, <1>3
<1>6. /\ key = NoKey => to \in Shards
      /\ key = NoKey /\ policy = "round_robin" => to = rr % ShardCount
  BY <1>2, EmptyRoute DEF RouteToShard
<1>7. key # NoKey => to \in Shards /\ to = RouteHash(ring, KeyHash[key])
  BY Sizes, RouteType DEF RouteToShard
<1>8. Dispatch(c, msgs, shards, (rr + IndexStep) % ShardCount)
  BY <1>4, <1>5 DEF AppendOne
<1>9. rr' = (rr + IndexStep) % ShardCount
  BY <1>8 DEF Dispatch
<1>10. Dispatch(c, msgs, shards, rr')
  BY <1>8, <1>9
<1>11. rr' \in Shards
  <2>1. rr + IndexStep \in Int
    BY <1>2 DEF IndexStep
  <2> QED BY <1>9, <2>1, Sizes, Remainder DEF Shards
<1>12. shards \in [1..1 -> Shards] /\ shards[1] = to
  BY <1>6, <1>7
<1> HIDE DEF to, shards
<1>13. Empty(msgs[1]) <=> key = NoKey
  BY <1>5 DEF Empty
<1>14. ASSUME policy = "round_robin", Empty(msgs[1])
       PROVE  shards[1] = (rr + (1 - 1)) % ShardCount /\ rr' = (rr + 1) % ShardCount
  <2>1. shards[1] = rr % ShardCount /\ rr + (1 - 1) = rr
    BY <1>2, <1>6, <1>12, <1>13, <1>14
  <2> QED BY <1>9, <1>14, <2>1 DEF IndexStep
<1>15. \A i \in 1..1 : i = 1
  OBVIOUS
<1>16. Posted(c, msgs, shards)
  BY <1>2, <1>3, <1>4, <1>5, <1>7, <1>10, <1>11, <1>12, <1>13, <1>14, <1>15 DEF Posted,
     shards
<1> QED BY <1>16

(* ... and append_batch, whose shortcuts move the counter differently, is   *)
(* too.                                                                     *)
LEMMA BatchPosts ==
  ASSUME TypeOK, RingOK, NEW c \in Callers, NEW n \in 2..MaxBatch, NEW keys
           \in [1..n -> Keys \cup {NoKey}],
         CallAppendBatch(c, keys)
  PROVE  \E msgs, shards : Posted(c, msgs, shards)
<1> DEFINE msgs == Batch(c, keys)
           shards == ShardsOf(msgs, Home[c])
<1>1. n \in Nat \ {0} /\ Len(keys) = n
  <2>1. n \in Nat \ {0}
    BY Sizes
  <2>2. keys \in Seq(Keys \cup {NoKey})
    BY <2>1
  <2> QED BY <2>1, <2>2
<1>2. sent \in Nat /\ sent + n <= MaxRecords /\ rr \in Nat /\ rr \in Shards /\ Home[c] \in Shards
  <2>1. sent \in Nat /\ rr \in Shards /\ sent + n <= MaxRecords
    BY <1>1, Sizes DEF TypeOK, EngineTypeOK, CallAppendBatch
  <2> QED BY <2>1, Sizes DEF Shards
<1>3. /\ msgs \in Seq(Records) /\ Len(msgs) = n /\ DOMAIN msgs = 1..n /\ msgs # <<>>
      /\ \A i \in 1..n : /\ msgs[i].id = sent + i /\ msgs[i].from = c
                         /\ msgs[i].key = keys[i] /\ msgs[i].key \in Keys \cup {NoKey}
  <2> HIDE DEF msgs
  <2>1. msgs = Batch(c, keys)
    BY DEF msgs
  <2> QED BY <1>1, <1>2, <2>1, BatchProperties
<1>4. Dispatch(c, msgs, shards, CounterAfter(msgs)) /\ Note(c, msgs, shards)
  BY DEF CallAppendBatch, AppendBatch
<1> HIDE DEF msgs
<1>5. rr' = CounterAfter(msgs)
  BY <1>4 DEF Dispatch
<1>6. Dispatch(c, msgs, shards, rr')
  BY <1>4, <1>5
<1>7. EmptyCount(msgs) \in Nat /\ EmptyCount(msgs) <= n
      /\ ((\A i \in 1..n : Empty(msgs[i])) => EmptyCount(msgs) = n)
  <2>1. n + 1 \in Nat \ {0} /\ n + 1 - 1 = n
    BY <1>1
  <2> DEFINE k == n + 1
  <2> HIDE DEF k
  <2>2. k \in Nat \ {0} /\ k - 1 = n
    BY <2>1 DEF k
  <2>3. EmptyBefore(msgs, k) \in 0..n
    BY <2>2, EmptyBeforeProperties
  <2>4. (\A i \in 1..n : Empty(msgs[i])) => EmptyBefore(msgs, k) = n
    BY <2>2, EmptyBeforeProperties
  <2>5. EmptyCount(msgs) = EmptyBefore(msgs, k)
    BY <1>3 DEF EmptyCount, k
  <2> QED BY <1>1, <2>3, <2>4, <2>5
<1>8. rr' \in Shards
  <2> DEFINE routed == IF ring # <<>> /\ SameKey(msgs) THEN 1 ELSE Len(msgs) - EmptyCount(msgs)
  <2>1. routed \in Int
    BY <1>1, <1>3, <1>7
  <2> HIDE DEF routed
  <2>2. rr + EmptyCount(msgs) + routed \in Int
    BY <1>2, <1>7, <2>1
  <2>3. (rr + EmptyCount(msgs) + routed) % ShardCount \in Shards
    BY <2>2, Sizes, Remainder DEF Shards
  <2> QED BY <1>2, <1>5, <2>3 DEF CounterAfter, routed
<1>9. ASSUME NEW i \in 1..n
      PROVE  /\ shards[i] \in Shards
             /\ ~Empty(msgs[i]) => shards[i] = RouteHash(ring, KeyHash[msgs[i].key])
             /\ Empty(msgs[i])
                /\ policy = "round_robin" => shards[i] = (rr + EmptyBefore(msgs, i)) % ShardCount
  <2>1. shards[i] = IF Empty(msgs[i])
        /\ policy = "round_robin" THEN (rr + EmptyBefore(msgs, i)) % ShardCount
                    ELSE RouteToShard(msgs[i].key, Home[c], rr)
    BY <1>3 DEF ShardsOf
  <2> HIDE DEF shards
  <2>2. CASE ~Empty(msgs[i])
    <3>1. msgs[i].key # NoKey /\ msgs[i].key \in Keys /\ KeyHash[msgs[i].key] \in Hashes
      BY <1>3, <2>2, Sizes DEF Empty
    <3> QED BY <2>1, <2>2, <3>1, RouteType DEF RouteToShard
  <2>3. CASE Empty(msgs[i]) /\ policy = "round_robin"
    <3>1. i \in Nat \ {0}
      BY <1>1
    <3>2. EmptyBefore(msgs, i) \in Nat
      BY <3>1, EmptyBeforeProperties
    <3>3. rr + EmptyBefore(msgs, i) \in Int
      BY <1>2, <3>2
    <3>4. (rr + EmptyBefore(msgs, i)) % ShardCount \in Shards
      BY <3>3, Sizes, Remainder DEF Shards
    <3> QED BY <2>1, <2>3, <3>4
  <2>4. CASE Empty(msgs[i]) /\ policy # "round_robin"
    <3>1. shards[i] = RouteEmpty(policy, Home[c], rr)
      BY <2>1, <2>4 DEF RouteToShard, Empty
    <3> QED BY <1>2, <2>4, <3>1, EmptyRoute
  <2> QED BY <2>2, <2>3, <2>4
<1>10. shards \in [1..n -> Shards]
  <2>1. DOMAIN shards = 1..n /\ shards = [i \in 1..n |-> shards[i]]
    BY <1>3 DEF ShardsOf
  <2> HIDE DEF shards
  <2> QED BY <1>9, <2>1
<1> HIDE DEF shards
<1>11. ASSUME policy = "round_robin", \A i \in 1..n : Empty(msgs[i])
       PROVE  /\ \A i \in 1..n : shards[i] = (rr + (i - 1)) % ShardCount
              /\ rr' = (rr + n) % ShardCount
  <2>1. ASSUME NEW i \in 1..n PROVE EmptyBefore(msgs, i) = i - 1
    <3>1. i \in Nat \ {0} /\ \A j \in 1..(i - 1) : j \in 1..n
      BY <1>1
    <3> QED BY <1>11, <3>1, EmptyBeforeProperties
  <2>2. ~SameKey(msgs) /\ 1 \in 1..n
    BY <1>1, <1>11 DEF SameKey
  <2>3. Len(msgs) - EmptyCount(msgs) = 0 /\ rr + EmptyCount(msgs) + 0 = rr + n
    BY <1>1, <1>2, <1>3, <1>7, <1>11
  <2>4. rr' = (rr + n) % ShardCount
    BY <1>5, <1>11, <2>2, <2>3 DEF CounterAfter
  <2> QED BY <1>9, <1>11, <2>1, <2>4
<1>12. Posted(c, msgs, shards)
  BY <1>2, <1>3, <1>4, <1>6, <1>8, <1>9, <1>10, <1>11 DEF Posted
<1> QED BY <1>12

-----------------------------------------------------------------------------
(* Record m is on shard s, on disk or queued, or under way to it.           *)
Has(s, m) ==
  \/ \E k \in DOMAIN Accepted(s) : Accepted(s)[k] = m
  \/ \E i \in DOMAIN inbox[s] : \E k \in DOMAIN inbox[s][i].msgs : inbox[s][i].msgs[k] = m

(* A call that is over waits for nobody, and one that returned without an   *)
(* error had none.                                                          *)
Calls == \A c \in Callers :
  /\ call[c].pc # "waiting" => call[c].left = {}
  /\ call[c].pc = "ok" => ~call[c].bad

(* A message to shard s is of a call that waits for s; its records come     *)
(* after all that the shard has of that caller.                             *)
Letter(s, e) ==
  /\ call[e.caller].pc = "waiting" /\ s \in call[e.caller].left
  /\ \A k \in DOMAIN e.msgs : e.msgs[k].from = e.caller
  /\ \A k, l \in DOMAIN e.msgs : k < l => e.msgs[k].id < e.msgs[l].id
  /\ \A k \in DOMAIN Accepted(s), l \in DOMAIN e.msgs :
       Accepted(s)[k].from = e.caller => Accepted(s)[k].id < e.msgs[l].id

(* So are all messages, and a shard has one of a caller at most.            *)
Mail == \A s \in Shards : \A i \in DOMAIN inbox[s] :
  /\ Letter(s, inbox[s][i])
  /\ \A j \in DOMAIN inbox[s] : inbox[s][j].caller = inbox[s][i].caller => j = i

(* No record was made up, and a call's records are its caller's.            *)
Numbered ==
  /\ \A s \in Shards : \A m \in Records : Has(s, m) => m.id <= sent
  /\ \A c \in Callers : \A m \in held[c] : m.from = c

(* A record is on one shard only.                                           *)
Disjoint == \A s, t \in Shards : \A m \in Records : Has(s, m) /\ Has(t, m) => s = t

(* The records of a call without an error are somewhere or were dropped by  *)
(* a shard that was stopping.                                               *)
Placed == \A c \in Callers : call[c].pc \in {"waiting", "ok"} /\ ~call[c].bad =>
  \A m \in held[c] : m \in dropped \/ \E s \in Shards : Has(s, m)

(* In the first life of the engine a record with a key is where the ring    *)
(* says.                                                                    *)
Routed ==
  /\ starts = 0 => started = "down" /\ \A s \in Shards : \A m \in Records : ~Has(s, m)
  /\ starts <= 1 => \A s \in Shards : \A m \in Records :
       Has(s, m) /\ ~Empty(m) => s = RouteHash(ring, KeyHash[m.key])

(* Shard s is one of those from b up to r, going round.                     *)
InRange(b, r, s) == IF b <= r THEN b <= s /\ s < r ELSE s >= b \/ s < r

(* Every shard got q records in turn, and those from b up to r one more.    *)
Even(f, r) == \E q \in Nat, b \in Shards : \A s \in Shards : f[s]
  = q + (IF InRange(b, r, s) THEN 1 ELSE 0)

(* While every key is empty round_robin spreads evenly, and the counter is  *)
(* where the next record goes.                                              *)
Turn == policy = "round_robin" /\ ~keyed =>
  /\ \A s, t \in Shards : spread[s] - spread[t] <= 1
  /\ started # "down" => Even(spread, rr)

(* The inductive invariant.                                                 *)
IndInv ==
  /\ TypeOK /\ RingOK /\ Calls /\ Mail /\ CallerOrder /\ Numbered /\ Disjoint /\ Placed /\ Routed
     /\ Turn

-----------------------------------------------------------------------------
(* The steps of start and stop that touch no record and no call.            *)
Quiet ==
  /\ UNCHANGED <<config, rr, inbox, queue, log, call, faults, dropped, clientVars>>
  /\ started' \in {"down", "up", "stopping"} /\ (started = "down" => started' = "down")
  /\ writer' \in [Shards -> {"up", "stopping", "stopped", "gone"}]

(* Stopping is quiet.                                                       *)
LEMMA QuietSteps ==
  ASSUME TypeOK, UNCHANGED clientVars, Stop \/ Stopped \/ \E s \in Shards : StopShard(s)
         \/ StoppedShard(s)
  PROVE  Quiet
<1>1. started \in {"down", "up", "stopping"}
      /\ writer \in [Shards -> {"up", "stopping", "stopped", "gone"}]
  BY DEF TypeOK, EngineTypeOK
<1>2. CASE Stop
  BY <1>1, <1>2 DEF Quiet, Stop
<1>3. CASE Stopped
  BY <1>1, <1>3 DEF Quiet, Stopped
<1>4. ASSUME NEW s \in Shards, StopShard(s) PROVE Quiet
  BY <1>1, <1>4 DEF Quiet, StopShard
<1>5. ASSUME NEW s \in Shards, StoppedShard(s) PROVE Quiet
  BY <1>1, <1>5 DEF Quiet, StoppedShard
<1> QED BY <1>2, <1>3, <1>4, <1>5

(* Every step is one of these.                                              *)
LEMMA NextCases ==
  ASSUME TypeOK, RingOK, Next
  PROVE  \/ \E conf \in Configs, pts \in PointSpace : StartEngine(conf.routing, conf.empty, pts)
         \/ \E c \in Callers : \E msgs, shards : Posted(c, msgs, shards)
         \/ UNCHANGED clientVars /\ \E s \in Shards : Deliver(s)
         \/ UNCHANGED clientVars
            /\ \E s \in Shards, c \in Callers, failed \in BOOLEAN : Answer(c, s, failed)
         \/ UNCHANGED clientVars /\ \E s \in Shards : \E n \in 1..Len(queue[s]) : Flush(s, n)
         \/ UNCHANGED clientVars /\ EngineCrash
         \/ Quiet
<1>1. ASSUME NEW c \in Callers, NEW key \in Keys \cup {NoKey}, CallAppend(c, key)
      PROVE  \E msgs, shards : Posted(c, msgs, shards)
  BY <1>1, AppendPosts
<1>2. ASSUME NEW c \in Callers, NEW n \in 2..MaxBatch, NEW keys \in [1..n -> Keys \cup {NoKey}],
             CallAppendBatch(c, keys)
      PROVE  \E msgs, shards : Posted(c, msgs, shards)
  BY <1>2, BatchPosts
<1>3. ASSUME UNCHANGED clientVars, Stop \/ Stopped \/ \E s \in Shards : StopShard(s)
             \/ StoppedShard(s)
      PROVE  Quiet
  BY <1>3, QuietSteps
<1> QED BY <1>1, <1>2, <1>3 DEF Next, ShardStep

(* What a call does to one shard,                                           *)
LEMMA DispatchParts ==
  ASSUME TypeOK, NEW c \in Callers, NEW msgs, NEW shards, Posted(c, msgs, shards),
         NEW s \in Shards, NEW part, part = PartFor(msgs, shards, s)
  PROVE  /\ part \in Seq(Records)
         /\ queue'[s] = IF s = Home[c] /\ Accepts(s) THEN queue[s] \o part ELSE queue[s]
         /\ inbox'[s] = IF s # Home[c]
            /\ part # <<>> THEN Append(inbox[s], [caller |-> c, msgs |-> part])
                        ELSE inbox[s]
         /\ s = Home[c] /\ ~Accepts(s) => dropped' = dropped \cup ToSet(part)
<1>1. part \in Seq(Records)
  BY PartProperties DEF Posted
<1>2. Home[c] \in Shards /\ queue \in [Shards -> Seq(Records)]
  BY Sizes DEF TypeOK, EngineTypeOK
<1> DEFINE parts == [t \in Shards |-> PartFor(msgs, shards, t)]
           used == {t \in Shards : parts[t] # <<>>}
           home == Home[c]
<1>3. /\ queue' = IF Accepts(home) THEN [queue EXCEPT ![home] = queue[home] \o parts[home]] ELSE queue
      /\ dropped' = IF Accepts(home) THEN dropped ELSE dropped \cup ToSet(parts[home])
      /\ inbox' = [t \in Shards |->
                     IF t \in used \ {home} THEN Append(inbox[t], [caller |-> c,
                       msgs |-> parts[t]]) ELSE inbox[t]]
  BY DEF Posted, Dispatch
<1>4. parts[s] = part /\ (s \in used <=> part # <<>>)
  OBVIOUS
<1> HIDE DEF parts, used
<1>5. queue'[s] = IF s = home /\ Accepts(s) THEN queue[s] \o part ELSE queue[s]
  BY <1>2, <1>3, <1>4
<1>6. inbox'[s] = IF s # home
      /\ part # <<>> THEN Append(inbox[s], [caller |-> c, msgs |-> part]) ELSE inbox[s]
  BY <1>3, <1>4
<1>7. s = home /\ ~Accepts(s) => dropped' = dropped \cup ToSet(part)
  BY <1>3, <1>4
<1> QED BY <1>1, <1>5, <1>6, <1>7

(* ... to everything else,                                                  *)
LEMMA DispatchFrame ==
  ASSUME TypeOK, NEW c \in Callers, NEW msgs, NEW shards, Posted(c, msgs, shards)
  PROVE  /\ started # "down" /\ call[c].pc # "waiting" /\ dropped \subseteq dropped'
         /\ UNCHANGED <<config, started, writer, log, faults, starts>>
         /\ queue' \in [Shards -> Seq(Records)] /\ DOMAIN inbox' = Shards
         /\ sent' = sent + Len(msgs) /\ held' = [held EXCEPT ![c] = ToSet(msgs)]
<1> DEFINE parts == [t \in Shards |-> PartFor(msgs, shards, t)]
           used == {t \in Shards : parts[t] # <<>>}
           home == Home[c]
<1>1. /\ queue' = IF Accepts(home) THEN [queue EXCEPT ![home] = queue[home] \o parts[home]] ELSE queue
      /\ dropped' = IF Accepts(home) THEN dropped ELSE dropped \cup ToSet(parts[home])
      /\ inbox' = [t \in Shards |->
                     IF t \in used \ {home} THEN Append(inbox[t], [caller |-> c,
                       msgs |-> parts[t]]) ELSE inbox[t]]
  BY DEF Posted, Dispatch
<1>3. /\ started # "down" /\ call[c].pc # "waiting"
      /\ UNCHANGED <<config, started, writer, log, faults, starts>>
      /\ sent' = sent + Len(msgs) /\ held' = [held EXCEPT ![c] = ToSet(msgs)]
  BY DEF Posted, Dispatch, Note
<1>4. home \in Shards /\ parts[home] \in Seq(Records)
  BY Sizes, PartProperties DEF Posted
<1> HIDE DEF parts, used, home
<1>5. queue' \in [Shards -> Seq(Records)]
  BY <1>1, <1>4 DEF TypeOK, EngineTypeOK
<1>6. dropped \subseteq dropped' /\ DOMAIN inbox' = Shards
  BY <1>1
<1> QED BY <1>3, <1>5, <1>6

(* ... and to its caller.                                                   *)
LEMMA DispatchCall ==
  ASSUME TypeOK, NEW c \in Callers, NEW msgs, NEW shards, Posted(c, msgs, shards)
  PROVE  \E used \in SUBSET Shards :
           /\ call' = [call EXCEPT ![c] = [pc |-> "waiting", left |-> used, bad |-> FALSE]]
           /\ \A s \in Shards : s \in used <=> PartFor(msgs, shards, s) # <<>>
<1> DEFINE parts == [t \in Shards |-> PartFor(msgs, shards, t)]
           used == {t \in Shards : parts[t] # <<>>}
<1>1. call' = [call EXCEPT ![c] = [pc |-> "waiting", left |-> used, bad |-> FALSE]]
  BY DEF Posted, Dispatch
<1>2. used \in SUBSET Shards /\ \A s \in Shards : s \in used <=> PartFor(msgs, shards, s) # <<>>
  OBVIOUS
<1> HIDE DEF parts, used
<1> QED BY <1>1, <1>2

-----------------------------------------------------------------------------
(* A message between cores.                                                 *)
Mailbox == [caller : Callers, msgs : Seq(Records)]
(* The state of a call.                                                     *)
Awaiting == [pc : {"idle", "waiting", "ok", "failed"}, left : SUBSET Shards, bad : BOOLEAN]

(* The types of the variables, one by one.                                  *)
LEMMA Types ==
  ASSUME TypeOK
  PROVE  /\ inbox \in [Shards -> Seq(Mailbox)] /\ queue \in [Shards -> Seq(Records)]
            /\ log \in [Shards -> Seq(Records)]
         /\ call \in [Callers -> Awaiting] /\ faults \in 0..MaxFaults /\ dropped \in SUBSET Records
         /\ points \in PointSpace /\ ring \in Seq([hash : Hashes, shard : Shards])
            /\ policy \in Policies /\ rr \in Shards
         /\ started \in {"down", "up", "stopping"}
            /\ writer \in [Shards -> {"up", "stopping", "stopped", "gone"}]
         /\ sent \in 0..MaxRecords /\ held \in [Callers -> SUBSET Records]
         /\ spread \in [Shards -> Nat] /\ keyed \in BOOLEAN /\ starts \in 0..MaxStarts
BY DEF TypeOK, EngineTypeOK, Mailbox, Awaiting

(* An answer leaves a state of a call.                                      *)
LEMMA AnsweredType ==
  ASSUME TypeOK, NEW c \in Callers, NEW s \in Shards, NEW failed \in BOOLEAN
  PROVE  Answered(c, s, failed) \in Awaiting
<1>1. call[c].left \in SUBSET Shards /\ call[c].bad \in BOOLEAN
  BY Types DEF Awaiting
<1> DEFINE left == call[c].left \ {s}
           bad == call[c].bad \/ failed
           pc == IF left # {} THEN "waiting" ELSE IF bad THEN "failed" ELSE "ok"
<1>2. left \in SUBSET Shards /\ bad \in BOOLEAN /\ pc \in {"idle", "waiting", "ok", "failed"}
  BY <1>1
<1>3. Answered(c, s, failed) = [pc |-> pc, left |-> left, bad |-> bad]
  BY DEF Answered
<1> HIDE DEF left, bad, pc
<1> QED BY <1>2, <1>3 DEF Awaiting

(* The first message of a shard and the rest.                               *)
LEMMA InboxHead ==
  ASSUME TypeOK, NEW s \in Shards, inbox[s] # <<>>
  PROVE  /\ Head(inbox[s]) = inbox[s][1] /\ inbox[s][1] \in Mailbox /\ 1 \in DOMAIN inbox[s]
         /\ inbox[s][1].caller \in Callers /\ inbox[s][1].msgs \in Seq(Records)
         /\ Tail(inbox[s]) \in Seq(Mailbox)
         /\ DOMAIN Tail(inbox[s]) = 1..(Len(inbox[s]) - 1)
         /\ \A i \in DOMAIN Tail(inbox[s]) : i \in Nat /\ i + 1 \in DOMAIN inbox[s]
            /\ Tail(inbox[s])[i] = inbox[s][i + 1]
         /\ \A i \in DOMAIN inbox[s] : i = 1
            \/ (i - 1 \in DOMAIN Tail(inbox[s]) /\ Tail(inbox[s])[i - 1] = inbox[s][i])
<1>1. inbox[s] \in Seq(Mailbox)
  BY Types
<1> DEFINE q == inbox[s]
<1> HIDE DEF q
<1>2. q \in Seq(Mailbox) /\ q # <<>>
  BY <1>1 DEF q
<1>3. /\ Head(q) = q[1] /\ q[1] \in Mailbox /\ 1 \in DOMAIN q
      /\ Tail(q) \in Seq(Mailbox) /\ DOMAIN Tail(q) = 1..(Len(q) - 1)
      /\ \A i \in DOMAIN Tail(q) : i \in Nat /\ i + 1 \in DOMAIN q /\ Tail(q)[i] = q[i + 1]
      /\ \A i \in DOMAIN q : i = 1 \/ (i - 1 \in DOMAIN Tail(q) /\ Tail(q)[i - 1] = q[i])
  <2>1. Len(q) \in Nat \ {0} /\ DOMAIN q = 1..Len(q)
    BY <1>2
  <2>2. Head(q) = q[1] /\ q[1] \in Mailbox
    BY <1>2, <2>1
  <2>3. Tail(q) \in Seq(Mailbox) /\ Len(Tail(q)) = Len(q) - 1
        /\ \A i \in 1..Len(Tail(q)) : Tail(q)[i] = q[i + 1]
    BY <1>2, HeadTailProperties
  <2>4. DOMAIN Tail(q) = 1..(Len(q) - 1)
    BY <2>3
  <2>5. \A i \in 1..(Len(q) - 1) : i \in Nat /\ i + 1 \in DOMAIN q
    BY <2>1
  <2>6. ASSUME NEW i \in 1..Len(q), i # 1 PROVE i - 1 \in 1..(Len(q) - 1) /\ i - 1 + 1 = i
    BY <2>1, <2>6
  <2>7. \A i \in DOMAIN q : i = 1 \/ (i - 1 \in DOMAIN Tail(q) /\ Tail(q)[i - 1] = q[i])
    BY <2>1, <2>3, <2>4, <2>6
  <2>8. 1 \in DOMAIN q
    BY <2>1
  <2> QED BY <2>2, <2>3, <2>4, <2>5, <2>7, <2>8
<1> QED BY <1>3 DEF q, Mailbox

(* What running a message changes, with its first message named.            *)
LEMMA DeliverFrame ==
  ASSUME TypeOK, NEW s \in Shards, Deliver(s)
  PROVE  /\ inbox[s] # <<>> /\ inbox' = [inbox EXCEPT ![s] = Tail(inbox[s])]
         /\ queue' = IF Accepts(s) THEN [queue EXCEPT ![s] = queue[s] \o inbox[s][1].msgs] ELSE queue
         /\ dropped' = IF writer[s]
              \in {"stopping", "stopped"} THEN dropped \cup ToSet(inbox[s][1].msgs) ELSE dropped
         /\ call' = IF writer[s] = "gone"
                    THEN [call EXCEPT ![inbox[s][1].caller] = Answered(inbox[s][1].caller, s,
                      TRUE)] ELSE call
         /\ UNCHANGED <<config, rr, started, writer, log, faults>>
<1>1. inbox[s] # <<>>
  BY DEF Deliver
<1>2. Head(inbox[s]) = inbox[s][1]
  BY <1>1, InboxHead
<1> QED BY <1>1, <1>2 DEF Deliver

(* The records of a sequence as a set.                                      *)
LEMMA ToSetType ==
  ASSUME NEW q \in Seq(Records)
  PROVE  /\ ToSet(q) \in SUBSET Records
         /\ \A m : m \in ToSet(q) <=> \E k \in DOMAIN q : q[k] = m
<1>1. ToSet(q) = {q[i] : i \in DOMAIN q}
  BY DEF ToSet
<1>2. \A i \in DOMAIN q : q[i] \in Records
  OBVIOUS
<1> QED BY <1>1, <1>2

(* Every step keeps the types and the ring.                                 *)
LEMMA TypeStep ==
  ASSUME TypeOK, RingOK, Next
  PROVE  TypeOK' /\ RingOK'
<1> USE DEF config, clientVars
<1>1. ASSUME NEW conf \in Configs, NEW pts
               \in PointSpace, StartEngine(conf.routing, conf.empty, pts)
      PROVE  TypeOK' /\ RingOK'
  <2>1. conf.routing \in Strategies /\ conf.empty \in Policies
    BY Sizes
  <2>2. /\ points' = pts /\ ring' = Ring(conf.routing, pts, ShardCount) /\ policy' = conf.empty
           /\ started' = "up"
        /\ writer' = [s \in Shards |-> "up"] /\ starts' = starts + 1 /\ starts < MaxStarts
        /\ spread' = [s \in Shards |-> 0] /\ keyed' = FALSE
        /\ UNCHANGED <<rr, inbox, queue, log, call, faults, dropped, sent, held>>
    BY <1>1 DEF StartEngine, Start
  <2>3. ring' = <<>> \/ ring' = Ring("consistent_hashing", pts, ShardCount)
    BY <2>1, <2>2 DEF Strategies, Ring
  <2>4. ring' \in Seq([hash : Hashes, shard : Shards])
    <3>1. CASE ring' = <<>>
      BY <3>1
    <3>2. CASE ring' = Ring("consistent_hashing", pts, ShardCount)
      BY <3>2, RingType
    <3> QED BY <2>3, <3>1, <3>2
  <2>5. starts' \in 0..MaxStarts
    BY <2>2, Types, Sizes
  <2>6. EngineTypeOK'
    BY <2>1, <2>2, <2>4 DEF TypeOK, EngineTypeOK
  <2>7. TypeOK'
    BY <2>2, <2>5, <2>6 DEF TypeOK
  <2> QED BY <2>2, <2>3, <2>7 DEF RingOK
<1>2. ASSUME NEW c \in Callers, NEW msgs, NEW shards, Posted(c, msgs, shards)
      PROVE TypeOK' /\ RingOK'
  <2>1. /\ UNCHANGED <<config, started, writer, log, faults, starts>>
        /\ queue' \in [Shards -> Seq(Records)] /\ DOMAIN inbox' = Shards
        /\ sent' = sent + Len(msgs) /\ held' = [held EXCEPT ![c] = ToSet(msgs)]
    BY <1>2, DispatchFrame
  <2>2. msgs \in Seq(Records) /\ Len(msgs) \in Nat /\ sent + Len(msgs) <= MaxRecords
        /\ rr' \in Shards
    BY <1>2 DEF Posted
  <2>3. sent' \in 0..MaxRecords
    <3>1. sent \in Nat /\ MaxRecords \in Nat
      BY Types, Sizes
    <3> QED BY <2>1, <2>2, <3>1
  <2>4. held' \in [Callers -> SUBSET Records]
    BY <2>1, <2>2, Types, ToSetType
  <2>5. keyed' \in BOOLEAN
    BY <1>2, Types DEF Posted, Note
  <2>6. spread' \in [Shards -> Nat]
    <3> DEFINE S(s) == {i \in DOMAIN msgs : Empty(msgs[i]) /\ shards[i] = s}
    <3>1. spread' = [s \in Shards |-> spread[s] + Cardinality(S(s))]
      BY <1>2 DEF Posted, Note
    <3>2. \A s \in Shards : S(s) \in SUBSET (1..Len(msgs))
      BY <2>2
    <3> HIDE DEF S
    <3>3. \A s \in Shards : Cardinality(S(s)) \in Nat
      BY <2>2, <3>2, PartFinite
    <3>4. \A s \in Shards : spread[s] + Cardinality(S(s)) \in Nat
      BY <3>3, Types
    <3> QED BY <3>1, <3>4
  <2>7. inbox' \in [Shards -> Seq(Mailbox)]
    <3>1. ASSUME NEW s \in Shards PROVE inbox'[s] \in Seq(Mailbox)
      <4> DEFINE part == PartFor(msgs, shards, s)
      <4> HIDE DEF part
      <4>1. part \in Seq(Records)
            /\ (inbox'[s] = inbox[s] \/ inbox'[s] = Append(inbox[s], [caller |-> c, msgs |-> part]))
        <5>1. part = PartFor(msgs, shards, s)
          BY DEF part
        <5>2. /\ part \in Seq(Records)
              /\ inbox'[s] = IF s # Home[c]
                 /\ part # <<>> THEN Append(inbox[s], [caller |-> c, msgs |-> part])
                             ELSE inbox[s]
          BY <1>2, <5>1, DispatchParts
        <5> QED BY <5>2
      <4>2. inbox[s] \in Seq(Mailbox) /\ [caller |-> c, msgs |-> part] \in Mailbox
        BY <4>1, Types DEF Mailbox
      <4>3. \A q \in Seq(Mailbox), e \in Mailbox : Append(q, e) \in Seq(Mailbox)
        OBVIOUS
      <4> QED BY <4>1, <4>2, <4>3
    <3>2. inbox' = [s \in Shards |-> inbox'[s]]
      BY <1>2 DEF Posted, Dispatch
    <3> QED BY <3>1, <3>2
  <2>8. call' \in [Callers -> Awaiting]
    <3>1. PICK used \in SUBSET Shards : call'
                 = [call EXCEPT ![c] = [pc |-> "waiting", left |-> used, bad |-> FALSE]]
      BY <1>2, DispatchCall
    <3>2. [pc |-> "waiting", left |-> used, bad |-> FALSE] \in Awaiting
      BY DEF Awaiting
    <3> QED BY <3>1, <3>2, Types
  <2>9. dropped' \in SUBSET Records
    <3>1. Home[c] \in Shards
      BY Sizes
    <3> DEFINE part == PartFor(msgs, shards, Home[c])
    <3> HIDE DEF part
    <3>2. part \in Seq(Records) /\ (~Accepts(Home[c]) => dropped' = dropped \cup ToSet(part))
      BY <1>2, <3>1, DispatchParts DEF part
    <3>3. Accepts(Home[c]) => dropped' = dropped
      BY <1>2 DEF Posted, Dispatch
    <3> QED BY <3>2, <3>3, ToSetType, Types
  <2>10. EngineTypeOK'
    BY <2>1, <2>2, <2>7, <2>8, <2>9 DEF TypeOK, EngineTypeOK, Mailbox, Awaiting
  <2> QED BY <2>1, <2>3, <2>4, <2>5, <2>6, <2>10 DEF TypeOK, RingOK
<1>3. ASSUME UNCHANGED clientVars, NEW s \in Shards, Deliver(s) PROVE TypeOK' /\ RingOK'
  <2>1. inbox[s] # <<>>
    BY <1>3 DEF Deliver
  <2>2. inbox[s][1].caller \in Callers /\ inbox[s][1].msgs \in Seq(Records)
        /\ Tail(inbox[s]) \in Seq(Mailbox)
    BY <2>1, InboxHead
  <2> DEFINE c == inbox[s][1].caller
             msgs == inbox[s][1].msgs
  <2>3. /\ inbox' = [inbox EXCEPT ![s] = Tail(inbox[s])]
        /\ queue' = IF Accepts(s) THEN [queue EXCEPT ![s] = queue[s] \o msgs] ELSE queue
        /\ dropped' = IF writer[s]
             \in {"stopping", "stopped"} THEN dropped \cup ToSet(msgs) ELSE dropped
        /\ call' = IF writer[s] = "gone" THEN [call EXCEPT ![c] = Answered(c, s, TRUE)] ELSE call
        /\ UNCHANGED <<config, rr, started, writer, log, faults>>
    BY <1>3, DeliverFrame
  <2>4. c \in Callers /\ msgs \in Seq(Records)
    BY <2>2
  <2> HIDE DEF c, msgs
  <2>5. inbox' \in [Shards -> Seq(Mailbox)]
    BY <2>2, <2>3, Types
  <2>6. queue' \in [Shards -> Seq(Records)]
    <3>1. queue[s] \o msgs \in Seq(Records)
      BY <2>4, Types
    <3> QED BY <2>3, <3>1, Types
  <2>7. dropped' \in SUBSET Records
    BY <2>3, <2>4, ToSetType, Types
  <2>8. call' \in [Callers -> Awaiting]
    BY <2>3, <2>4, AnsweredType, Types
  <2>9. EngineTypeOK'
    BY <2>3, <2>5, <2>6, <2>7, <2>8 DEF TypeOK, EngineTypeOK, Mailbox, Awaiting
  <2> QED BY <1>3, <2>3, <2>9 DEF TypeOK, RingOK
<1>4. ASSUME UNCHANGED clientVars, NEW s \in Shards, NEW c \in Callers, NEW failed
               \in BOOLEAN, Answer(c, s, failed)
      PROVE  TypeOK' /\ RingOK'
  <2>1. /\ call' = [call EXCEPT ![c] = Answered(c, s, failed)]
        /\ failed => faults < MaxFaults
        /\ faults' = faults + (IF failed THEN 1 ELSE 0)
        /\ UNCHANGED <<config, rr, started, writer, inbox, queue, log, dropped>>
    BY <1>4 DEF Answer
  <2>2. call' \in [Callers -> Awaiting]
    BY <2>1, AnsweredType, Types
  <2>3. faults' \in 0..MaxFaults
    <3>0. faults \in 0..MaxFaults /\ MaxFaults \in Nat
      BY Types, Sizes
    <3>1. CASE failed
      <4>1. faults' = faults + 1 /\ faults < MaxFaults
        BY <2>1, <3>1
      <4> QED BY <3>0, <4>1
    <3>2. CASE ~failed
      <4>1. faults' = faults + 0
        BY <2>1, <3>2
      <4> QED BY <3>0, <4>1
    <3> QED BY <3>1, <3>2
  <2>4. EngineTypeOK'
    BY <2>1, <2>2, <2>3 DEF TypeOK, EngineTypeOK, Awaiting
  <2> QED BY <1>4, <2>1, <2>4 DEF TypeOK, RingOK
<1>5. ASSUME UNCHANGED clientVars, NEW s \in Shards, NEW n \in 1..Len(queue[s]), Flush(s, n)
      PROVE TypeOK' /\ RingOK'
  <2>1. /\ log' = [log EXCEPT ![s] = log[s] \o SubSeq(queue[s], 1, n)]
        /\ queue' = [queue EXCEPT ![s] = SubSeq(queue[s], n + 1, Len(queue[s]))]
        /\ UNCHANGED <<config, rr, started, writer, inbox, call, faults, dropped>>
    BY <1>5 DEF Flush
  <2>2. SubSeq(queue[s], 1, n) \in Seq(Records)
        /\ SubSeq(queue[s], n + 1, Len(queue[s])) \in Seq(Records)
    <3>1. queue[s] \in Seq(Records)
      BY Types
    <3>2. \A i \in 1..Len(queue[s]) : queue[s][i] \in Records
      BY <3>1
    <3>3. Len(queue[s]) \in Nat /\ n \in Nat
      BY <3>1
    <3>4. (\A i \in 1..n : queue[s][i] \in Records)
          /\ \A i \in (n + 1)..Len(queue[s]) : queue[s][i] \in Records
      BY <3>2, <3>3
    <3> QED BY <3>1, <3>3, <3>4, SubSeqProperties
  <2>3. log[s] \o SubSeq(queue[s], 1, n) \in Seq(Records)
    BY <2>2, Types, ConcatProperties
  <2>4. log' \in [Shards -> Seq(Records)] /\ queue' \in [Shards -> Seq(Records)]
    BY <2>1, <2>2, <2>3, Types
  <2>5. EngineTypeOK'
    BY <2>1, <2>4 DEF TypeOK, EngineTypeOK
  <2> QED BY <1>5, <2>1, <2>5 DEF TypeOK, RingOK
<1>6. ASSUME UNCHANGED clientVars, EngineCrash PROVE TypeOK' /\ RingOK'
  <2>1. /\ started' = "down" /\ writer' = [s \in Shards |-> "gone"]
           /\ inbox' = [s \in Shards |-> <<>>]
        /\ queue' = [s \in Shards |-> <<>>] /\ call' = [c \in Callers |-> NoCall] /\ rr' = 0
        /\ UNCHANGED <<config, log, faults, dropped>>
    BY <1>6 DEF EngineCrash
  <2>2. NoCall \in Awaiting
    BY DEF NoCall, Awaiting
  <2>3. 0 \in Shards
    BY Sizes DEF Shards
  <2>4. EngineTypeOK'
    BY <2>1, <2>2, <2>3 DEF TypeOK, EngineTypeOK, Awaiting
  <2> QED BY <1>6, <2>1, <2>4 DEF TypeOK, RingOK
<1>7. ASSUME Quiet PROVE TypeOK' /\ RingOK'
  BY <1>7 DEF Quiet, TypeOK, EngineTypeOK, RingOK
<1> QED BY <1>1, <1>2, <1>3, <1>4, <1>5, <1>6, <1>7, NextCases

-----------------------------------------------------------------------------
(* The positions of two sequences one after the other.                      *)
LEMMA Joined ==
  ASSUME NEW M, NEW a \in Seq(M), NEW b \in Seq(M)
  PROVE  /\ a \o b \in Seq(M) /\ Len(a) \in Nat
         /\ \A k \in DOMAIN a : k \in Nat /\ k <= Len(a) /\ k \in DOMAIN (a \o b)
            /\ (a \o b)[k] = a[k]
         /\ \A k \in DOMAIN b : k \in Nat \ {0} /\ Len(a) + k \in DOMAIN (a \o b)
            /\ (a \o b)[Len(a) + k] = b[k]
         /\ \A k \in DOMAIN (a \o b) :
              \/ k \in DOMAIN a /\ (a \o b)[k] = a[k]
              \/ \E j \in DOMAIN b : k = Len(a) + j /\ (a \o b)[k] = b[j]
<1>1. Len(a) \in Nat /\ Len(b) \in Nat /\ DOMAIN a = 1..Len(a) /\ DOMAIN b = 1..Len(b)
  OBVIOUS
<1>2. /\ a \o b \in Seq(M) /\ Len(a \o b) = Len(a) + Len(b)
         /\ DOMAIN (a \o b) = 1..(Len(a) + Len(b))
      /\ \A i \in 1..(Len(a) + Len(b)) : (a \o b)[i] = IF i <= Len(a) THEN a[i] ELSE b[i - Len(a)]
  BY ConcatProperties
<1> DEFINE ab == a \o b
           m == Len(a)
           n == Len(b)
<1> HIDE DEF ab, m, n
<1>3. /\ m \in Nat /\ n \in Nat /\ DOMAIN a = 1..m /\ DOMAIN b = 1..n /\ DOMAIN ab = 1..(m + n)
      /\ \A i \in 1..(m + n) : ab[i] = IF i <= m THEN a[i] ELSE b[i - m]
  BY <1>1, <1>2 DEF ab, m, n
<1>4. \A k \in 1..m : k \in Nat /\ k <= m /\ k \in 1..(m + n) /\ ab[k] = a[k]
  BY <1>3
<1>5. \A k \in 1..n : k \in Nat \ {0} /\ m + k \in 1..(m + n) /\ ab[m + k] = b[k]
  BY <1>3
<1>6. ASSUME NEW k \in 1..(m + n)
      PROVE (k \in 1..m /\ ab[k] = a[k]) \/ \E j \in 1..n : k = m + j /\ ab[k] = b[j]
  <2>1. CASE k <= m
    BY <1>3, <2>1
  <2>2. CASE ~ (k <= m)
    <3>1. k - m \in 1..n /\ k = m + (k - m) /\ ab[k] = b[k - m]
      BY <1>3, <2>2
    <3> QED BY <3>1
  <2> QED BY <2>1, <2>2
<1>7. ab \in Seq(M)
  BY <1>2 DEF ab
<1> QED BY <1>3, <1>4, <1>5, <1>6, <1>7 DEF ab, m, n

(* Each caller's records by number.                                         *)
Sorted(a) == \A i, j \in DOMAIN a : i < j /\ a[i].from = a[j].from => a[i].id < a[j].id

(* Adding records of one caller with larger numbers keeps a sequence        *)
(* sorted,                                                                  *)
LEMMA SortedMore ==
  ASSUME NEW a \in Seq(Records), NEW b \in Seq(Records), NEW c, Sorted(a),
         \A k \in DOMAIN b : b[k].from = c,
         \A k, l \in DOMAIN b : k < l => b[k].id < b[l].id,
         \A k \in DOMAIN a, l \in DOMAIN b : a[k].from = c => a[k].id < b[l].id
  PROVE  Sorted(a \o b)
<1> DEFINE ab == a \o b
           m == Len(a)
<1>1. /\ m \in Nat
      /\ \A k \in DOMAIN a : k \in Nat /\ k <= m
      /\ \A k \in DOMAIN b : k \in Nat \ {0}
      /\ \A k \in DOMAIN ab : \/ k \in DOMAIN a /\ ab[k] = a[k]
                              \/ \E j \in DOMAIN b : k = m + j /\ ab[k] = b[j]
  BY Joined
<1> HIDE DEF ab, m
<1>2. ASSUME NEW i \in DOMAIN ab, NEW j \in DOMAIN ab, i < j, ab[i].from = ab[j].from
      PROVE  ab[i].id < ab[j].id
  <2>1. CASE i \in DOMAIN a /\ ab[i] = a[i] /\ j \in DOMAIN a /\ ab[j] = a[j]
    BY <1>2, <2>1 DEF Sorted
  <2>2. ASSUME i \in DOMAIN a, ab[i] = a[i], NEW l \in DOMAIN b, ab[j] = b[l]
        PROVE ab[i].id < ab[j].id
    BY <1>2, <2>2
  <2>3. ASSUME NEW k \in DOMAIN b, i = m + k, ab[i] = b[k], j \in DOMAIN a PROVE FALSE
    <3>1. j <= m /\ j \in Nat /\ k \in Nat \ {0}
      BY <1>1, <2>3
    <3> QED BY <1>1, <1>2, <2>3, <3>1
  <2>4. ASSUME NEW k \in DOMAIN b, i = m + k, ab[i] = b[k], NEW l \in DOMAIN b, j = m + l, ab[j]
                 = b[l]
        PROVE  ab[i].id < ab[j].id
    <3>1. k < l
      BY <1>1, <1>2, <2>4
    <3> QED BY <2>4, <3>1
  <2> QED BY <1>1, <2>1, <2>2, <2>3, <2>4
<1>3. Sorted(ab)
  BY <1>2 DEF Sorted
<1> QED BY <1>3 DEF ab

(* ... and so does losing the end of it.                                    *)
LEMMA SortedFront ==
  ASSUME NEW a \in Seq(Records), NEW b \in Seq(Records), Sorted(a \o b)
  PROVE  Sorted(a)
<1> DEFINE ab == a \o b
<1>1. \A k \in DOMAIN a : k \in DOMAIN ab /\ ab[k] = a[k]
  BY Joined
<1>2. Sorted(ab)
  OBVIOUS
<1> HIDE DEF ab
<1> QED BY <1>1, <1>2 DEF Sorted

(* Appending is associative.                                                *)
LEMMA Regroup == \A a, b, d \in Seq(Records) : a \o (b \o d) = (a \o b) \o d
<1> TAKE a, b, d \in Seq(Records)
<1> QED BY ONLY SMTT(30), a \in Seq(Records), b \in Seq(Records), d \in Seq(Records), ConcatAssociative

(* What a shard accepted are records.                                       *)
LEMMA AcceptedType ==
  ASSUME TypeOK, NEW s \in Shards
  PROVE  Accepted(s) \in Seq(Records) /\ log[s] \in Seq(Records) /\ queue[s] \in Seq(Records)
BY Types, ConcatProperties DEF Accepted

(* A call adds its part to what its own shard accepted,                     *)
LEMMA PostedAccepts ==
  ASSUME TypeOK, NEW c \in Callers, NEW msgs, NEW shards, Posted(c, msgs, shards),
         NEW s \in Shards, NEW part, part = PartFor(msgs, shards, s)
  PROVE  (Accepted(s))' = IF s = Home[c] /\ Accepts(s) THEN Accepted(s) \o part ELSE Accepted(s)
<1>1. /\ part \in Seq(Records) /\ log' = log
      /\ queue'[s] = IF s = Home[c] /\ Accepts(s) THEN queue[s] \o part ELSE queue[s]
  <2>1. log' = log
    BY DispatchFrame
  <2>2. /\ part \in Seq(Records)
        /\ queue'[s] = IF s = Home[c] /\ Accepts(s) THEN queue[s] \o part ELSE queue[s]
        /\ inbox'[s] = IF s # Home[c]
           /\ part # <<>> THEN Append(inbox[s], [caller |-> c, msgs |-> part])
                       ELSE inbox[s]
        /\ s = Home[c] /\ ~Accepts(s) => dropped' = dropped \cup ToSet(part)
    BY DispatchParts
  <2> QED BY <2>1, <2>2
<1>2. log[s] \in Seq(Records) /\ queue[s] \in Seq(Records)
  BY AcceptedType
<1>3. log[s] \o (queue[s] \o part) = (log[s] \o queue[s]) \o part
  BY ONLY <1>1, <1>2, Regroup
<1> QED BY <1>1, <1>3 DEF Accepted

(* ... a message its records to what the receiver accepted,                 *)
LEMMA DeliverAccepts ==
  ASSUME TypeOK, NEW s \in Shards, Deliver(s), NEW t \in Shards
  PROVE  (Accepted(t))' = IF t = s
         /\ Accepts(s) THEN Accepted(t) \o inbox[s][1].msgs ELSE Accepted(t)
<1> DEFINE msgs == inbox[s][1].msgs
<1>1. /\ inbox[s] # <<>> /\ log' = log
      /\ queue' = IF Accepts(s) THEN [queue EXCEPT ![s] = queue[s] \o msgs] ELSE queue
  BY DeliverFrame
<1>2. msgs \in Seq(Records)
  BY <1>1, InboxHead
<1> HIDE DEF msgs
<1>3. log[t] \in Seq(Records) /\ queue[t] \in Seq(Records)
  BY AcceptedType
<1>4. log[t] \o (queue[t] \o msgs) = (log[t] \o queue[t]) \o msgs
  BY ONLY <1>2, <1>3, Regroup
<1>5. queue'[t] = IF t = s /\ Accepts(s) THEN queue[t] \o msgs ELSE queue[t]
  BY <1>1, Types
<1>6. (Accepted(t))' = IF t = s /\ Accepts(s) THEN Accepted(t) \o msgs ELSE Accepted(t)
  <2>1. (Accepted(t))' = log[t] \o queue'[t]
    BY <1>1 DEF Accepted
  <2>2. CASE t = s /\ Accepts(s)
    BY <1>4, <1>5, <2>1, <2>2 DEF Accepted
  <2>3. CASE ~ (t = s /\ Accepts(s))
    BY <1>5, <2>1, <2>3 DEF Accepted
  <2> QED BY <2>2, <2>3
<1> QED BY <1>6 DEF msgs

(* ... a flush nothing: it moves the front of the queue to the end of the   *)
(* log.                                                                     *)
LEMMA FlushAccepts ==
  ASSUME TypeOK, NEW s \in Shards, NEW n \in 1..Len(queue[s]), Flush(s, n), NEW t \in Shards
  PROVE  (Accepted(t))' = Accepted(t)
<1>1. /\ log' = [log EXCEPT ![s] = log[s] \o SubSeq(queue[s], 1, n)]
      /\ queue' = [queue EXCEPT ![s] = SubSeq(queue[s], n + 1, Len(queue[s]))]
  BY DEF Flush
<1>2. CASE t # s
  BY <1>1, <1>2, Types DEF Accepted
<1>3. CASE t = s
  <2> DEFINE q == queue[s]
             a == SubSeq(q, 1, n)
             b == SubSeq(q, n + 1, Len(q))
  <2>1. q \in Seq(Records) /\ log[s] \in Seq(Records) /\ Len(q) \in Nat /\ n \in 1..Len(q)
    BY AcceptedType
  <2>2. log'[s] = log[s] \o a /\ queue'[s] = b
    BY <1>1, Types
  <2> HIDE DEF q
  <2>3. a \in Seq(Records) /\ b \in Seq(Records)
    <3>1. \A i \in 1..Len(q) : q[i] \in Records
      BY <2>1
    <3>2. (\A i \in 1..n : q[i] \in Records) /\ (\A i \in (n + 1)..Len(q) : q[i] \in Records)
          /\ n \in Nat
      BY <2>1, <3>1
    <3> QED BY <2>1, <3>2, SubSeqProperties
  <2>4. a \o b = q
    <3>1. /\ Len(a) = n /\ \A i \in 1..n : a[i] = q[i]
          /\ Len(b) = Len(q) - n /\ \A i \in 1..(Len(q) - n) : b[i] = q[n + i]
      BY <2>1
    <3> HIDE DEF a, b
    <3>2. a \o b \in Seq(Records) /\ Len(a \o b) = Len(q)
          /\ \A i \in 1..Len(q) : (a \o b)[i] = IF i <= n THEN a[i] ELSE b[i - n]
      <4>1. /\ a \o b \in Seq(Records) /\ Len(a \o b) = Len(a) + Len(b)
            /\ \A i \in 1..(Len(a) + Len(b)) : (a \o b)[i] = IF i
                 <= Len(a) THEN a[i] ELSE b[i - Len(a)]
        BY ONLY <2>3, ConcatProperties
      <4>2. Len(a) = n /\ Len(a) + Len(b) = Len(q)
        BY <2>1, <3>1
      <4> QED BY ONLY <4>1, <4>2
    <3>3. \A i \in 1..Len(q) : (a \o b)[i] = q[i]
      BY <2>1, <3>1, <3>2
    <3> QED BY <2>1, <3>2, <3>3, SeqEqual
  <2> HIDE DEF a, b
  <2>5. (log[s] \o a) \o b = log[s] \o (a \o b)
    BY ONLY <2>1, <2>3, Regroup
  <2>6. (Accepted(s))' = log[s] \o q
    BY <2>2, <2>4, <2>5 DEF Accepted
  <2> QED BY <1>3, <2>6 DEF Accepted, q
<1> QED BY <1>2, <1>3

(* A crash leaves the log.                                                  *)
LEMMA CrashAccepts ==
  ASSUME TypeOK, EngineCrash, NEW t \in Shards
  PROVE  (Accepted(t))' = log[t] /\ Accepted(t) = log[t] \o queue[t]
<1>1. log' = log /\ queue' = [s \in Shards |-> <<>>]
  BY DEF EngineCrash
<1>2. log[t] \in Seq(Records) /\ log[t] \o <<>> = log[t]
  BY AcceptedType, ConcatEmptySeq
<1> QED BY <1>1, <1>2 DEF Accepted

-----------------------------------------------------------------------------
(* The positions of a sequence and one more element.                        *)
LEMMA Added ==
  ASSUME NEW M, NEW q \in Seq(M), NEW e \in M
  PROVE  /\ \A i \in DOMAIN q : i \in DOMAIN Append(q, e) /\ Append(q, e)[i] = q[i]
         /\ Len(q) + 1 \in DOMAIN Append(q, e) /\ Append(q, e)[Len(q) + 1] = e
            /\ Len(q) + 1 \notin DOMAIN q
         /\ \A i \in DOMAIN Append(q, e) : i = Len(q) + 1 \/ i \in DOMAIN q
OBVIOUS

(* After a call its records, and no others, are new on the shards they were *)
(* routed to, unless dropped at once.                                       *)
LEMMA HasPosted ==
  ASSUME TypeOK, NEW c \in Callers, NEW msgs, NEW shards, Posted(c, msgs, shards), NEW s \in Shards
  PROVE  /\ \A m : Has(s, m)' => Has(s, m) \/ \E i \in 1..Len(msgs) : shards[i] = s /\ m = msgs[i]
         /\ \A m : Has(s, m) => Has(s, m)'
         /\ \A i \in 1..Len(msgs) : shards[i] = s => Has(s, msgs[i])' \/ msgs[i] \in dropped'
<1>1. PICK part : part = PartFor(msgs, shards, s)
  OBVIOUS
<1>2. /\ part \in Seq(Records)
      /\ \A k \in DOMAIN part : \E i \in 1..Len(msgs) : shards[i] = s /\ part[k] = msgs[i]
      /\ \A i \in 1..Len(msgs) : shards[i] = s => \E k \in DOMAIN part : part[k] = msgs[i]
  <2>1. msgs \in Seq(Records) /\ shards \in [1..Len(msgs) -> Shards]
    BY DEF Posted
  <2>2. PartFor(msgs, shards, s) \in Seq(Records)
    BY <2>1, PartProperties
  <2>3. ASSUME NEW k \in DOMAIN PartFor(msgs, shards, s)
        PROVE  \E i \in 1..Len(msgs) : shards[i] = s /\ PartFor(msgs, shards, s)[k] = msgs[i]
    BY <2>1, PartMembers
  <2>4. ASSUME NEW i \in 1..Len(msgs), shards[i] = s
        PROVE  \E k \in DOMAIN PartFor(msgs, shards, s) : PartFor(msgs, shards, s)[k] = msgs[i]
    BY <2>1, <2>4, PartCovers
  <2> QED BY <1>1, <2>2, <2>3, <2>4
<1>3. /\ part \in Seq(Records)
      /\ queue'[s] = IF s = Home[c] /\ Accepts(s) THEN queue[s] \o part ELSE queue[s]
      /\ inbox'[s] = IF s # Home[c]
         /\ part # <<>> THEN Append(inbox[s], [caller |-> c, msgs |-> part])
                     ELSE inbox[s]
      /\ s = Home[c] /\ ~Accepts(s) => dropped' = dropped \cup ToSet(part)
  BY <1>1, DispatchParts
<1>4. (Accepted(s))' = IF s = Home[c] /\ Accepts(s) THEN Accepted(s) \o part ELSE Accepted(s)
  BY <1>1, PostedAccepts
<1>5. Accepted(s) \in Seq(Records) /\ inbox[s] \in Seq(Mailbox)
  BY AcceptedType, Types
<1> DEFINE a == Accepted(s)
           q == inbox[s]
<1>6. a \in Seq(Records) /\ q \in Seq(Mailbox)
  BY <1>5
<1>7. /\ \A m : Has(s, m) <=> \/ \E k \in DOMAIN a : a[k] = m
                              \/ \E i \in DOMAIN q : \E k \in DOMAIN q[i].msgs : q[i].msgs[k] = m
      /\ \A m : Has(s, m)' <=> \/ \E k \in DOMAIN (Accepted(s))' : (Accepted(s))'[k] = m
                               \/ \E i \in DOMAIN inbox'[s] : \E k
                                    \in DOMAIN inbox'[s][i].msgs : inbox'[s][i].msgs[k] = m
  BY DEF Has
<1> HIDE DEF a, q
<1>8. CASE s = Home[c] /\ Accepts(s)
  <2>1. (Accepted(s))' = a \o part /\ inbox'[s] = q
    BY <1>3, <1>4, <1>8 DEF a, q
  <2>2. /\ a \o part \in Seq(Records) /\ Len(a) \in Nat
        /\ \A k \in DOMAIN a : k \in Nat /\ k <= Len(a) /\ k \in DOMAIN (a \o part)
           /\ (a \o part)[k] = a[k]
        /\ \A k \in DOMAIN part :
              k \in Nat \ {0} /\ Len(a) + k \in DOMAIN (a \o part)
              /\ (a \o part)[Len(a) + k] = part[k]
        /\ \A k \in DOMAIN (a \o part) :
              \/ k \in DOMAIN a /\ (a \o part)[k] = a[k]
              \/ \E j \in DOMAIN part : k = Len(a) + j /\ (a \o part)[k] = part[j]
    BY ONLY <1>2, <1>6, Joined
  <2> DEFINE ab == a \o part
  <2> HIDE DEF ab
  <2>3. /\ (Accepted(s))' = ab
        /\ \A k \in DOMAIN a : k \in DOMAIN ab /\ ab[k] = a[k]
        /\ \A k \in DOMAIN part : \E l \in DOMAIN ab : ab[l] = part[k]
        /\ \A k \in DOMAIN ab : \/ k \in DOMAIN a /\ ab[k] = a[k]
                                \/ \E j \in DOMAIN part : ab[k] = part[j]
    BY <2>1, <2>2 DEF ab
  <2>4. \A m : Has(s, m)' <=> \/ \E k \in DOMAIN ab : ab[k] = m
                              \/ \E i \in DOMAIN q : \E k \in DOMAIN q[i].msgs : q[i].msgs[k] = m
    BY <1>7, <2>1, <2>3
  <2>5. ASSUME NEW m, Has(s, m)'
        PROVE Has(s, m) \/ \E i \in 1..Len(msgs) : shards[i] = s /\ m = msgs[i]
    <3>1. CASE \E k \in DOMAIN ab : ab[k] = m
      <4>1. PICK k \in DOMAIN ab : ab[k] = m
        BY <3>1
      <4>2. CASE k \in DOMAIN a /\ ab[k] = a[k]
        BY <1>7, <4>1, <4>2
      <4>3. CASE \E j \in DOMAIN part : ab[k] = part[j]
        BY <1>2, <4>1, <4>3
      <4> QED BY <2>3, <4>2, <4>3
    <3>2. CASE \E i \in DOMAIN q : \E k \in DOMAIN q[i].msgs : q[i].msgs[k] = m
      BY <1>7, <3>2
    <3> QED BY <2>4, <2>5, <3>1, <3>2
  <2>6. ASSUME NEW m, Has(s, m) PROVE Has(s, m)'
    BY <1>7, <2>3, <2>4, <2>6
  <2>7. ASSUME NEW i \in 1..Len(msgs), shards[i] = s PROVE Has(s, msgs[i])'
    BY <1>2, <2>3, <2>4, <2>7
  <2> QED BY <2>5, <2>6, <2>7
<1>9. CASE s # Home[c] /\ part # <<>>
  <2> DEFINE e == [caller |-> c, msgs |-> part]
             qe == Append(q, e)
  <2>1. (Accepted(s))' = a /\ inbox'[s] = qe
    BY <1>3, <1>4, <1>9 DEF a, q
  <2>2. e \in Mailbox /\ e.msgs = part
    BY <1>2 DEF Mailbox
  <2> HIDE DEF e
  <2>3. /\ \A i \in DOMAIN q : i \in DOMAIN qe /\ qe[i] = q[i]
        /\ Len(q) + 1 \in DOMAIN qe /\ qe[Len(q) + 1] = e
        /\ \A i \in DOMAIN qe : i = Len(q) + 1 \/ i \in DOMAIN q
    BY ONLY <1>6, <2>2, Added
  <2> HIDE DEF qe
  <2>4. \A m : Has(s, m)' <=> \/ \E k \in DOMAIN a : a[k] = m
                              \/ \E i \in DOMAIN qe : \E k \in DOMAIN qe[i].msgs : qe[i].msgs[k] = m
    BY <1>7, <2>1
  <2>5. ASSUME NEW m, Has(s, m)'
        PROVE Has(s, m) \/ \E i \in 1..Len(msgs) : shards[i] = s /\ m = msgs[i]
    <3>1. CASE \E k \in DOMAIN a : a[k] = m
      BY <1>7, <3>1
    <3>2. ASSUME NEW i \in DOMAIN qe, NEW k \in DOMAIN qe[i].msgs, qe[i].msgs[k] = m
          PROVE  Has(s, m) \/ \E j \in 1..Len(msgs) : shards[j] = s /\ m = msgs[j]
      <4>1. CASE i \in DOMAIN q
        BY <1>7, <2>3, <3>2, <4>1
      <4>2. CASE qe[i] = e
        BY <1>2, <2>2, <3>2, <4>2
      <4> QED BY <2>3, <4>1, <4>2
    <3> QED BY <2>4, <2>5, <3>1, <3>2
  <2>6. ASSUME NEW m, Has(s, m) PROVE Has(s, m)'
    BY <1>7, <2>3, <2>4, <2>6
  <2>7. ASSUME NEW i \in 1..Len(msgs), shards[i] = s PROVE Has(s, msgs[i])'
    BY <1>2, <2>2, <2>3, <2>4, <2>7
  <2> QED BY <2>5, <2>6, <2>7
<1>10. CASE (s = Home[c] /\ ~Accepts(s)) \/ (s # Home[c] /\ part = <<>>)
  <2>1. (Accepted(s))' = a /\ inbox'[s] = q
    BY <1>3, <1>4, <1>10 DEF a, q
  <2>2. \A m : Has(s, m)' <=> Has(s, m)
    BY <1>7, <2>1
  <2>3. ASSUME NEW i \in 1..Len(msgs), shards[i] = s PROVE msgs[i] \in dropped'
    <3>1. PICK k \in DOMAIN part : part[k] = msgs[i]
      BY <1>2, <2>3
    <3>2. part # <<>>
      BY <3>1
    <3> QED BY <1>2, <1>3, <1>10, <3>1, <3>2, ToSetType
  <2> QED BY <2>2, <2>3
<1> QED BY <1>8, <1>9, <1>10

(* Running a message moves records from the message to the shard, unless    *)
(* the writer takes none any more.                                          *)
LEMMA HasDelivered ==
  ASSUME TypeOK, NEW s \in Shards, Deliver(s), NEW t \in Shards, NEW m
  PROVE  /\ Has(t, m)' => Has(t, m)
         /\ Has(t, m) => \/ Has(t, m)'
                         \/ ~Accepts(s)
                            /\ \E k \in DOMAIN inbox[s][1].msgs : inbox[s][1].msgs[k] = m
<1>1. /\ inbox[s] # <<>> /\ inbox' = [inbox EXCEPT ![s] = Tail(inbox[s])]
  BY DeliverFrame
<1>2. (Accepted(t))' = IF t = s /\ Accepts(s) THEN Accepted(t) \o inbox[s][1].msgs ELSE Accepted(t)
  BY DeliverAccepts
<1>3. CASE t # s
  <2>1. (Accepted(t))' = Accepted(t) /\ inbox'[t] = inbox[t]
    BY <1>1, <1>2, <1>3, Types
  <2> QED BY <2>1 DEF Has
<1>4. CASE t = s
  <2> DEFINE a == Accepted(s)
             q == inbox[s]
             b == inbox[s][1].msgs
             tq == Tail(inbox[s])
  <2>1. /\ 1 \in DOMAIN q /\ q[1].msgs = b /\ b \in Seq(Records)
        /\ \A i \in DOMAIN tq : i + 1 \in DOMAIN q /\ tq[i] = q[i + 1]
        /\ \A i \in DOMAIN q : i = 1 \/ (i - 1 \in DOMAIN tq /\ tq[i - 1] = q[i])
    BY <1>1, InboxHead
  <2>2. a \in Seq(Records) /\ inbox'[s] = tq
    BY <1>1, AcceptedType, Types
  <2>3. /\ Has(s, m) <=> \/ \E k \in DOMAIN a : a[k] = m
                         \/ \E i \in DOMAIN q : \E k \in DOMAIN q[i].msgs : q[i].msgs[k] = m
        /\ Has(s, m)' <=> \/ \E k \in DOMAIN (Accepted(s))' : (Accepted(s))'[k] = m
                          \/ \E i \in DOMAIN tq : \E k \in DOMAIN tq[i].msgs : tq[i].msgs[k] = m
    BY <2>2 DEF Has
  <2>4. (Accepted(s))' = IF Accepts(s) THEN a \o b ELSE a
    BY <1>2, <1>4
  <2> HIDE DEF a, q, b, tq
  <2>5. (\E i \in DOMAIN q : \E k \in DOMAIN q[i].msgs : q[i].msgs[k] = m)
          <=> \/ \E k \in DOMAIN b : b[k] = m
              \/ \E i \in DOMAIN tq : \E k \in DOMAIN tq[i].msgs : tq[i].msgs[k] = m
    <3>1. ASSUME NEW i \in DOMAIN q, NEW k \in DOMAIN q[i].msgs, q[i].msgs[k] = m
          PROVE  \/ \E l \in DOMAIN b : b[l] = m
                 \/ \E j \in DOMAIN tq : \E l \in DOMAIN tq[j].msgs : tq[j].msgs[l] = m
      BY <2>1, <3>1
    <3>2. ASSUME NEW i \in DOMAIN tq, NEW k \in DOMAIN tq[i].msgs, tq[i].msgs[k] = m
          PROVE  \E j \in DOMAIN q : \E l \in DOMAIN q[j].msgs : q[j].msgs[l] = m
      BY <2>1, <3>2
    <3> QED BY <2>1, <3>1, <3>2
  <2>6. CASE Accepts(s)
    <3> DEFINE ab == a \o b
    <3>1. /\ \A k \in DOMAIN a : k \in DOMAIN ab /\ ab[k] = a[k]
          /\ \A k \in DOMAIN b : Len(a) + k \in DOMAIN ab /\ ab[Len(a) + k] = b[k]
          /\ \A k \in DOMAIN ab : \/ k \in DOMAIN a /\ ab[k] = a[k]
                                  \/ \E j \in DOMAIN b : k = Len(a) + j /\ ab[k] = b[j]
      BY ONLY <2>1, <2>2, Joined
    <3>2. (Accepted(s))' = ab
      BY <2>4, <2>6
    <3> HIDE DEF ab
    <3>3. (\E k \in DOMAIN ab : ab[k] = m) <=> (\E k \in DOMAIN a : a[k] = m)
          \/ (\E k \in DOMAIN b : b[k] = m)
      BY <3>1
    <3> QED BY <1>4, <2>3, <2>5, <3>2, <3>3
  <2>7. CASE ~Accepts(s)
    <3>1. (Accepted(s))' = a
      BY <2>4, <2>7
    <3> QED BY <1>4, <2>3, <2>5, <2>7, <3>1 DEF b
  <2> QED BY <2>6, <2>7
<1> QED BY <1>3, <1>4

(* A flush leaves every record on its shard.                                *)
LEMMA HasFlushed ==
  ASSUME TypeOK, NEW s \in Shards, NEW n \in 1..Len(queue[s]), Flush(s, n), NEW t \in Shards, NEW m
  PROVE  Has(t, m)' <=> Has(t, m)
<1>1. (Accepted(t))' = Accepted(t) /\ inbox' = inbox
  BY FlushAccepts DEF Flush
<1> QED BY <1>1 DEF Has

(* A crash adds none.                                                       *)
LEMMA HasSurvived ==
  ASSUME TypeOK, EngineCrash, NEW t \in Shards, NEW m
  PROVE  Has(t, m)' => Has(t, m)
<1>1. (Accepted(t))' = log[t] /\ Accepted(t) = log[t] \o queue[t] /\ inbox'[t] = <<>>
  BY CrashAccepts DEF EngineCrash
<1> DEFINE a == log[t]
           b == queue[t]
           ab == a \o b
<1>2. a \in Seq(Records) /\ b \in Seq(Records)
  BY AcceptedType
<1>3. (Accepted(t))' = a /\ Accepted(t) = ab
  BY <1>1
<1> HIDE DEF a, b
<1>4. \A k \in DOMAIN a : k \in Nat /\ k <= Len(a) /\ k \in DOMAIN ab /\ ab[k] = a[k]
  BY ONLY <1>2, Joined
<1> HIDE DEF ab
<1> QED BY <1>1, <1>3, <1>4 DEF Has

-----------------------------------------------------------------------------
(* The records of a part are the caller's, newer than all before and in     *)
(* order.                                                                   *)
LEMMA PartRecords ==
  ASSUME TypeOK, NEW c \in Callers, NEW msgs, NEW shards, Posted(c, msgs, shards), NEW s \in Shards,
         NEW part, part = PartFor(msgs, shards, s)
  PROVE  /\ part \in Seq(Records)
         /\ \A k \in DOMAIN part : part[k].from = c /\ part[k].id > sent
         /\ \A k, l \in DOMAIN part : k < l => part[k].id < part[l].id
<1>1. /\ msgs \in Seq(Records) /\ shards \in [1..Len(msgs) -> Shards]
      /\ \A i \in 1..Len(msgs) : msgs[i].id = sent + i /\ msgs[i].from = c
  BY DEF Posted
<1>2. sent \in Nat /\ Len(msgs) \in Nat
  BY <1>1, Types
<1>3. PartFor(msgs, shards, s) \in Seq(Records)
  BY <1>1, PartProperties
<1>4. ASSUME NEW k \in DOMAIN part PROVE part[k].from = c /\ part[k].id > sent
  <2>1. PICK i \in 1..Len(msgs) : part[k] = msgs[i]
    <3>1. k \in DOMAIN PartFor(msgs, shards, s)
      OBVIOUS
    <3>2. \E i \in 1..Len(msgs) : shards[i] = s /\ PartFor(msgs, shards, s)[k] = msgs[i]
      BY <1>1, <3>1, PartMembers
    <3> QED BY <3>2
  <2>2. sent + i > sent
    BY <1>2
  <2> QED BY <1>1, <2>1, <2>2
<1>5. ASSUME NEW k \in DOMAIN part, NEW l \in DOMAIN part, k < l PROVE part[k].id < part[l].id
  <2>1. PICK i \in 1..Len(msgs), j \in 1..Len(msgs) : i < j /\ part[k] = msgs[i]
             /\ part[l] = msgs[j]
    <3>1. k \in DOMAIN PartFor(msgs, shards, s) /\ l \in DOMAIN PartFor(msgs, shards, s)
      OBVIOUS
    <3>2. \E i, j \in 1..Len(msgs) :
            i < j /\ PartFor(msgs, shards, s)[k] = msgs[i] /\ PartFor(msgs, shards, s)[l] = msgs[j]
      BY <1>1, <1>5, <3>1, PartOrder
    <3> QED BY <3>2
  <2>2. sent + i < sent + j
    BY <1>2, <2>1
  <2> QED BY <1>1, <2>1, <2>2
<1> QED BY <1>3, <1>4, <1>5

(* A message still waits for its shard if its caller does and the shard     *)
(* accepted nothing of that caller.                                         *)
LEMMA LetterKept ==
  ASSUME NEW s \in Shards, NEW e, Letter(s, e),
         call'[e.caller].pc = "waiting", s \in call'[e.caller].left,
         \A k \in DOMAIN (Accepted(s))' :
           \/ k \in DOMAIN Accepted(s) /\ (Accepted(s))'[k] = Accepted(s)[k]
           \/ (Accepted(s))'[k].from # e.caller
  PROVE  Letter(s, e)'
BY DEF Letter

(* Mail, as a step has to establish it.                                     *)
LEMMA MailNext ==
  ASSUME \A s \in Shards : \A i \in DOMAIN inbox'[s] :
           /\ \A e : e = inbox'[s][i] => Letter(s, e)'
           /\ \A j \in DOMAIN inbox'[s] : inbox'[s][j].caller = inbox'[s][i].caller => j = i
  PROVE  Mail'
BY ZenonT(30) DEF Mail, Letter

(* Mail, for one message.                                                   *)
LEMMA MailGives ==
  ASSUME Mail, NEW s \in Shards, NEW i \in DOMAIN inbox[s]
  PROVE  /\ Letter(s, inbox[s][i])
         /\ call[inbox[s][i].caller].pc = "waiting" /\ s \in call[inbox[s][i].caller].left
         /\ \A j \in DOMAIN inbox[s] : inbox[s][j].caller = inbox[s][i].caller => j = i
BY DEF Mail, Letter

(* The states an answer leaves a call in.                                   *)
LEMMA AnsweredCases ==
  ASSUME NEW c, NEW s, NEW failed \in BOOLEAN, NEW a, a = Answered(c, s, failed)
  PROVE  /\ a.left = call[c].left \ {s}
         /\ \A t \in call[c].left : t # s => a.pc = "waiting" /\ t \in a.left
         /\ a.pc # "waiting" => a.left = {}
         /\ a.pc = "ok" => ~a.bad
         /\ failed => a.bad
         /\ ~a.bad => ~call[c].bad
<1> DEFINE left == call[c].left \ {s}
           bad == call[c].bad \/ failed
           pc == IF left # {} THEN "waiting" ELSE IF bad THEN "failed" ELSE "ok"
<1>1. a = [pc |-> pc, left |-> left, bad |-> bad]
  BY DEF Answered
<1>2. a.pc = pc /\ a.left = left /\ a.bad = bad
  BY <1>1
<1>3. a.left = call[c].left \ {s}
  BY <1>2
<1>4. \A t \in call[c].left : t # s => a.pc = "waiting" /\ t \in a.left
  BY <1>2
<1>5. /\ pc # "waiting" => left = {}
      /\ pc = "ok" => ~bad
  OBVIOUS
<1>6. (failed => bad) /\ (~bad => ~call[c].bad)
  OBVIOUS
<1> HIDE DEF left, bad, pc
<1>7. a.pc # "waiting" => a.left = {}
  BY <1>2, <1>5
<1>8. a.pc = "ok" => ~a.bad
  BY <1>2, <1>5, Zenon
<1>9. failed => a.bad
  BY <1>2, <1>6, Zenon
<1>10. ~a.bad => ~call[c].bad
  BY <1>2, <1>6, Zenon
<1> QED BY <1>3, <1>4, <1>7, <1>8, <1>9, <1>10

(* Every step keeps Calls.                                                  *)
LEMMA CallsStep ==
  ASSUME IndInv, Next
  PROVE  Calls'
<1>0. TypeOK /\ RingOK /\ Calls /\ Mail
  BY DEF IndInv
<1>k. ASSUME UNCHANGED call PROVE Calls'
  BY <1>0, <1>k DEF Calls
<1>p. ASSUME NEW c \in Callers, NEW x, call' = [call EXCEPT ![c] = x],
             x.pc # "waiting" => x.left = {}, x.pc = "ok" => ~x.bad
      PROVE  Calls'
  BY <1>0, <1>p, Types DEF Calls
<1>1. ASSUME NEW conf \in Configs, NEW pts
               \in PointSpace, StartEngine(conf.routing, conf.empty, pts) PROVE Calls'
  BY <1>1, <1>k DEF StartEngine, Start
<1>2. ASSUME NEW c \in Callers, NEW msgs, NEW shards, Posted(c, msgs, shards) PROVE Calls'
  <2>1. PICK used \in SUBSET Shards : call'
               = [call EXCEPT ![c] = [pc |-> "waiting", left |-> used, bad |-> FALSE]]
    BY <1>0, <1>2, DispatchCall
  <2> QED BY <1>p, <2>1
<1>3. ASSUME NEW s \in Shards, Deliver(s) PROVE Calls'
  <2>1. inbox[s] # <<>>
    BY <1>3 DEF Deliver
  <2>2. inbox[s][1].caller \in Callers
    BY <1>0, <2>1, InboxHead
  <2>3. call' = IF writer[s] = "gone"
                THEN [call EXCEPT ![inbox[s][1].caller] = Answered(inbox[s][1].caller, s,
                  TRUE)] ELSE call
    BY <1>0, <1>3, DeliverFrame
  <2>4. PICK c \in Callers : c = inbox[s][1].caller
    BY <2>2
  <2>5. PICK a : a = Answered(c, s, TRUE)
    OBVIOUS
  <2>6. (a.pc # "waiting" => a.left = {}) /\ (a.pc = "ok" => ~a.bad)
    BY <2>5, AnsweredCases
  <2>7. call' = [call EXCEPT ![c] = a] \/ call' = call
    BY <2>3, <2>4, <2>5
  <2> QED BY <1>k, <1>p, <2>6, <2>7
<1>4. ASSUME NEW s \in Shards, NEW c \in Callers, NEW failed \in BOOLEAN, Answer(c, s, failed)
      PROVE Calls'
  <2>1. PICK a : a = Answered(c, s, failed)
    OBVIOUS
  <2>2. (a.pc # "waiting" => a.left = {}) /\ (a.pc = "ok" => ~a.bad)
    BY <2>1, AnsweredCases
  <2>3. call' = [call EXCEPT ![c] = a]
    BY <1>4, <2>1 DEF Answer
  <2> QED BY <1>p, <2>2, <2>3
<1>5. ASSUME NEW s \in Shards, NEW n, Flush(s, n) PROVE Calls'
  BY <1>5, <1>k DEF Flush
<1>6. ASSUME EngineCrash PROVE Calls'
  BY <1>6 DEF EngineCrash, NoCall, Calls
<1>7. ASSUME Quiet PROVE Calls'
  BY <1>7, <1>k DEF Quiet
<1> QED BY <1>0, <1>1, <1>2, <1>3, <1>4, <1>5, <1>6, <1>7, NextCases

(* Numbered, for an accepted record.                                        *)
LEMMA NumberedGives ==
  ASSUME TypeOK, Numbered, NEW s \in Shards, NEW k \in DOMAIN Accepted(s)
  PROVE  Accepted(s)[k] \in Records /\ Accepted(s)[k].id <= sent
<1>1. Accepted(s)[k] \in Records
  BY AcceptedType
<1>2. Has(s, Accepted(s)[k])
  BY DEF Has
<1> QED BY <1>1, <1>2 DEF Numbered

(* Every step keeps each caller's records in order: what arrives at a shard *)
(* is newer than what the shard has of its caller, as a caller makes one    *)
(* call at a time.                                                          *)
LEMMA OrderStep ==
  ASSUME IndInv, Next
  PROVE  CallerOrder'
<1>0. TypeOK /\ RingOK /\ Mail /\ CallerOrder /\ Numbered
  BY DEF IndInv
<1>s. \A s \in Shards : Sorted(Accepted(s))
  BY <1>0 DEF CallerOrder, Sorted
<1>p. ASSUME \A s \in Shards : \A a : a = (Accepted(s))' => Sorted(a) PROVE CallerOrder'
  BY <1>p DEF CallerOrder, Sorted
<1>k. ASSUME UNCHANGED <<log, queue>> PROVE CallerOrder'
  <2>1. \A s \in Shards : (Accepted(s))' = Accepted(s)
    BY <1>k DEF Accepted
  <2> QED BY <1>s, <1>p, <2>1
<1>1. ASSUME NEW conf \in Configs, NEW pts
               \in PointSpace, StartEngine(conf.routing, conf.empty, pts) PROVE CallerOrder'
  BY <1>1, <1>k DEF StartEngine, Start
<1>2. ASSUME NEW c \in Callers, NEW msgs, NEW shards, Posted(c, msgs, shards) PROVE CallerOrder'
  <2>1. ASSUME NEW s \in Shards, NEW a, a = (Accepted(s))' PROVE Sorted(a)
    <3>1. PICK part : part = PartFor(msgs, shards, s)
      OBVIOUS
    <3>2. /\ part \in Seq(Records)
          /\ \A k \in DOMAIN part : part[k].from = c /\ part[k].id > sent
          /\ \A k, l \in DOMAIN part : k < l => part[k].id < part[l].id
      BY <1>0, <1>2, <3>1, PartRecords
    <3>3. a = IF s = Home[c] /\ Accepts(s) THEN Accepted(s) \o part ELSE Accepted(s)
      BY <1>0, <1>2, <2>1, <3>1, PostedAccepts
    <3>4. ASSUME NEW k \in DOMAIN Accepted(s), NEW l \in DOMAIN part
          PROVE Accepted(s)[k].id < part[l].id
      <4>1. Accepted(s)[k].id <= sent /\ Accepted(s)[k].id \in Int
        BY <1>0, NumberedGives, Sizes DEF RecordSet
      <4>2. part[l].id > sent /\ part[l] \in Records
        BY <3>2
      <4>3. part[l].id \in Int /\ sent \in Int
        BY <1>0, <4>2, Types, Sizes DEF RecordSet
      <4> QED BY <4>1, <4>2, <4>3
    <3>5. Sorted(Accepted(s) \o part)
      BY <1>0, <1>s, <3>2, <3>4, AcceptedType, SortedMore
    <3> QED BY <1>s, <3>3, <3>5
  <2> QED BY <1>p, <2>1
<1>3. ASSUME NEW s \in Shards, Deliver(s) PROVE CallerOrder'
  <2>1. inbox[s] # <<>>
    BY <1>3 DEF Deliver
  <2>2. PICK e : e = inbox[s][1]
    OBVIOUS
  <2>3. 1 \in DOMAIN inbox[s] /\ e.msgs \in Seq(Records)
    BY <1>0, <2>1, <2>2, InboxHead
  <2>4. Letter(s, e)
    BY <1>0, <2>2, <2>3, MailGives
  <2>5. Sorted(Accepted(s) \o e.msgs)
    <3>1. PICK b \in Seq(Records) : b = e.msgs
      BY <2>3
    <3>2. PICK c : c = e.caller
      OBVIOUS
    <3>3. /\ \A k \in DOMAIN b : b[k].from = c
          /\ \A k, l \in DOMAIN b : k < l => b[k].id < b[l].id
          /\ \A k \in DOMAIN Accepted(s), l \in DOMAIN b : Accepted(s)[k].from = c
               => Accepted(s)[k].id < b[l].id
      BY <2>4, <3>1, <3>2 DEF Letter
    <3>4. Accepted(s) \in Seq(Records) /\ Sorted(Accepted(s))
      BY <1>0, <1>s, AcceptedType
    <3>5. Sorted(Accepted(s) \o b)
      BY <3>3, <3>4, SortedMore
    <3> QED BY <3>1, <3>5
  <2>6. \A t \in Shards : (Accepted(t))' = IF t = s
        /\ Accepts(s) THEN Accepted(t) \o e.msgs ELSE Accepted(t)
    BY <1>0, <1>3, <2>2, DeliverAccepts
  <2> QED BY <1>s, <1>p, <2>5, <2>6
<1>4. ASSUME NEW s \in Shards, NEW c \in Callers, NEW failed \in BOOLEAN, Answer(c, s, failed)
      PROVE CallerOrder'
  BY <1>4, <1>k DEF Answer
<1>5. ASSUME NEW s \in Shards, NEW n \in 1..Len(queue[s]), Flush(s, n) PROVE CallerOrder'
  <2>1. \A t \in Shards : (Accepted(t))' = Accepted(t)
    BY <1>0, <1>5, FlushAccepts
  <2> QED BY <1>s, <1>p, <2>1
<1>6. ASSUME EngineCrash PROVE CallerOrder'
  <2>1. ASSUME NEW s \in Shards PROVE (Accepted(s))' = log[s] /\ Sorted(log[s])
    <3>1. (Accepted(s))' = log[s] /\ Accepted(s) = log[s] \o queue[s]
      BY <1>0, <1>6, CrashAccepts
    <3>2. log[s] \in Seq(Records) /\ queue[s] \in Seq(Records)
      BY <1>0, AcceptedType
    <3>3. Sorted(log[s] \o queue[s])
      BY <1>s, <3>1
    <3> QED BY <3>1, <3>2, <3>3, SortedFront
  <2> QED BY <1>p, <2>1
<1>7. ASSUME Quiet PROVE CallerOrder'
  BY <1>7, <1>k DEF Quiet
<1> QED BY <1>0, <1>1, <1>2, <1>3, <1>4, <1>5, <1>6, <1>7, NextCases

(* Every step keeps Mail.                                                   *)
LEMMA MailStep ==
  ASSUME IndInv, Next
  PROVE  Mail'
<1>0. TypeOK /\ RingOK /\ Mail /\ CallerOrder /\ Numbered
  BY DEF IndInv
<1>k. ASSUME UNCHANGED <<log, queue, inbox, call>> PROVE Mail'
  <2>1. ASSUME NEW t \in Shards, NEW i \in DOMAIN inbox[t], NEW e, e = inbox[t][i]
        PROVE Letter(t, e)'
    <3>1. Letter(t, e) /\ call[e.caller].pc = "waiting" /\ t \in call[e.caller].left
      BY <1>0, <2>1, MailGives
    <3>2. (Accepted(t))' = Accepted(t) /\ call' = call
      BY <1>k DEF Accepted
    <3> QED BY <3>1, <3>2, LetterKept
  <2> QED BY <1>0, <1>k, <2>1, MailGives, MailNext
<1>1. ASSUME NEW conf \in Configs, NEW pts
               \in PointSpace, StartEngine(conf.routing, conf.empty, pts) PROVE Mail'
  BY <1>1, <1>k DEF StartEngine, Start
<1>2. ASSUME NEW c \in Callers, NEW msgs, NEW shards, Posted(c, msgs, shards) PROVE Mail'
  <2>0. call[c].pc # "waiting" /\ c \in DOMAIN call
    BY <1>0, <1>2, DispatchFrame, Types
  <2>1. PICK used \in SUBSET Shards :
           /\ call' = [call EXCEPT ![c] = [pc |-> "waiting", left |-> used, bad |-> FALSE]]
           /\ \A s \in Shards : s \in used <=> PartFor(msgs, shards, s) # <<>>
    BY <1>0, <1>2, DispatchCall
  <2>2. ASSUME NEW s \in Shards
        PROVE  \A i \in DOMAIN inbox'[s] :
                 /\ \A e : e = inbox'[s][i] => Letter(s, e)'
                 /\ \A j \in DOMAIN inbox'[s] : inbox'[s][j].caller = inbox'[s][i].caller => j = i
    <3>1. PICK part : part = PartFor(msgs, shards, s)
      OBVIOUS
    <3>2. /\ part \in Seq(Records)
          /\ \A k \in DOMAIN part : part[k].from = c /\ part[k].id > sent
          /\ \A k, l \in DOMAIN part : k < l => part[k].id < part[l].id
      BY <1>0, <1>2, <3>1, PartRecords
    <3>3. /\ part \in Seq(Records)
          /\ queue'[s] = IF s = Home[c] /\ Accepts(s) THEN queue[s] \o part ELSE queue[s]
          /\ inbox'[s] = IF s # Home[c]
             /\ part # <<>> THEN Append(inbox[s], [caller |-> c, msgs |-> part])
                         ELSE inbox[s]
          /\ s = Home[c] /\ ~Accepts(s) => dropped' = dropped \cup ToSet(part)
      BY <1>0, <1>2, <3>1, DispatchParts
    <3>4. (Accepted(s))' = IF s = Home[c] /\ Accepts(s) THEN Accepted(s) \o part ELSE Accepted(s)
      BY <1>0, <1>2, <3>1, PostedAccepts
    <3> DEFINE a == Accepted(s)
               q == inbox[s]
    <3>5. a \in Seq(Records) /\ q \in Seq(Mailbox)
      BY <1>0, AcceptedType, Types
    <3>6. ASSUME NEW i \in DOMAIN q
          PROVE  /\ Letter(s, q[i]) /\ q[i].caller # c
                 /\ call[q[i].caller].pc = "waiting" /\ s \in call[q[i].caller].left
                 /\ \A j \in DOMAIN q : q[j].caller = q[i].caller => j = i
      BY <1>0, <2>0, MailGives
    <3>7. ASSUME NEW k \in DOMAIN (Accepted(s))'
          PROVE  \/ k \in DOMAIN a /\ (Accepted(s))'[k] = a[k]
                 \/ (Accepted(s))'[k].from = c
      <4>1. CASE (Accepted(s))' = a
        BY <4>1
      <4>2. CASE (Accepted(s))' = a \o part
        <5> HIDE DEF a
        <5>1. \A l \in DOMAIN (a \o part) :
                 \/ l \in DOMAIN a /\ (a \o part)[l] = a[l]
                 \/ \E j \in DOMAIN part : l = Len(a) + j /\ (a \o part)[l] = part[j]
          BY ONLY <3>2, <3>5, Joined
        <5>2. PICK ab : ab = a \o part
          OBVIOUS
        <5>3. k \in DOMAIN ab /\ (Accepted(s))' = ab
          BY <4>2, <5>2
        <5>4. (k \in DOMAIN a /\ ab[k] = a[k]) \/ \E j \in DOMAIN part : ab[k] = part[j]
          BY <5>1, <5>2, <5>3
        <5> QED BY <3>2, <5>3, <5>4
      <4> QED BY <3>4, <4>1, <4>2
    <3>8. ASSUME NEW i \in DOMAIN q, NEW e, e = q[i] PROVE Letter(s, e)'
      <4>1. Letter(s, e) /\ e.caller # c /\ call[e.caller].pc = "waiting"
            /\ s \in call[e.caller].left
        BY <3>6, <3>8
      <4>2. call'[e.caller] = call[e.caller]
        BY <2>1, <4>1
      <4>3. \A k \in DOMAIN (Accepted(s))' :
              \/ k \in DOMAIN Accepted(s) /\ (Accepted(s))'[k] = Accepted(s)[k]
              \/ (Accepted(s))'[k].from # e.caller
        BY <3>7, <4>1
      <4> QED BY <4>1, <4>2, <4>3, LetterKept
    <3> HIDE DEF a, q
    <3>9. CASE inbox'[s] = q
      BY <3>6, <3>8, <3>9
    <3>10. CASE s # Home[c] /\ part # <<>>
      <4> DEFINE n == [caller |-> c, msgs |-> part]
                 qn == Append(q, n)
      <4>1. inbox'[s] = qn
        BY <3>3, <3>10 DEF q
      <4>2. n \in Mailbox /\ n.msgs = part /\ n.caller = c
        BY <3>2 DEF Mailbox
      <4> HIDE DEF n
      <4>3. /\ \A i \in DOMAIN q : i \in DOMAIN qn /\ qn[i] = q[i]
            /\ Len(q) + 1 \in DOMAIN qn /\ qn[Len(q) + 1] = n /\ Len(q) + 1 \notin DOMAIN q
            /\ \A i \in DOMAIN qn : i = Len(q) + 1 \/ i \in DOMAIN q
        BY ONLY <3>5, <4>2, Added
      <4>4. PICK last : last = Len(q) + 1
        OBVIOUS
      <4> HIDE DEF qn
      <4>5. /\ \A i \in DOMAIN q : i \in DOMAIN qn /\ qn[i] = q[i]
            /\ last \in DOMAIN qn /\ qn[last] = n /\ last \notin DOMAIN q
            /\ \A i \in DOMAIN qn : i = last \/ i \in DOMAIN q
        BY <4>3, <4>4
      <4>6. Letter(s, n)'
        <5>1. call'[n.caller].pc = "waiting" /\ s \in call'[n.caller].left
          BY <2>0, <2>1, <3>1, <3>10, <4>2
        <5>2. (Accepted(s))' = a
          BY <3>4, <3>10 DEF a
        <5>3. ASSUME NEW k \in DOMAIN a, NEW l \in DOMAIN part PROVE a[k].id < part[l].id
          <6>1. a[k].id <= sent /\ a[k].id \in Int
            BY <1>0, NumberedGives, Sizes DEF RecordSet, a
          <6>2. part[l].id > sent /\ part[l] \in Records
            BY <3>2
          <6>3. part[l].id \in Int /\ sent \in Int
            BY <1>0, <6>2, Types, Sizes DEF RecordSet
          <6> QED BY <6>1, <6>2, <6>3
        <5> QED BY <3>2, <4>2, <5>1, <5>2, <5>3 DEF Letter
      <4>7. ASSUME NEW i \in DOMAIN qn, NEW e, e = qn[i] PROVE Letter(s, e)'
        <5>1. CASE i = last
          BY <4>5, <4>6, <4>7, <5>1
        <5>2. CASE i \in DOMAIN q
          BY <3>8, <4>5, <4>7, <5>2
        <5> QED BY <4>5, <5>1, <5>2
      <4>8. ASSUME NEW i \in DOMAIN qn, NEW j \in DOMAIN qn, qn[j].caller = qn[i].caller PROVE j = i
        BY <3>6, <4>2, <4>5, <4>8
      <4> QED BY <4>1, <4>7, <4>8
    <3> QED BY <3>3, <3>9, <3>10 DEF q
  <2> QED BY <2>2, MailNext
<1>3. ASSUME NEW s \in Shards, Deliver(s) PROVE Mail'
  <2>1. /\ inbox[s] # <<>> /\ inbox' = [inbox EXCEPT ![s] = Tail(inbox[s])]
        /\ call' = IF writer[s] = "gone"
                   THEN [call EXCEPT ![inbox[s][1].caller] = Answered(inbox[s][1].caller, s,
                     TRUE)] ELSE call
    BY <1>0, <1>3, DeliverFrame
  <2>2. PICK n : n = inbox[s][1]
    OBVIOUS
  <2>3. 1 \in DOMAIN inbox[s] /\ n.caller \in Callers /\ n.msgs \in Seq(Records)
    BY <1>0, <2>1, <2>2, InboxHead
  <2>4. PICK x : x = Answered(n.caller, s, TRUE)
    OBVIOUS
  <2>5. Letter(s, n)
    BY <1>0, <2>2, <2>3, MailGives
  <2>6. call' = call \/ call' = [call EXCEPT ![n.caller] = x]
    BY <2>1, <2>2, <2>4
  <2>7. \A t \in call[n.caller].left : t # s => x.pc = "waiting" /\ t \in x.left
    <3>1. TRUE \in BOOLEAN
      OBVIOUS
    <3>2. PICK failed \in BOOLEAN : failed = TRUE
      BY <3>1
    <3>3. PICK c \in Callers : c = n.caller
      BY <2>3
    <3>4. x = Answered(c, s, failed)
      BY <2>4, <3>2, <3>3
    <3>5. \A t \in call[c].left : t # s => x.pc = "waiting" /\ t \in x.left
      BY <3>4, AnsweredCases
    <3> QED BY <3>3, <3>5
  <2>8. ASSUME NEW t \in Shards, NEW e, Letter(t, e), t # s \/ e.caller # n.caller
        PROVE Letter(t, e)'
    <3>1. call[e.caller].pc = "waiting" /\ t \in call[e.caller].left
      BY <2>8 DEF Letter
    <3>2. call'[e.caller].pc = "waiting" /\ t \in call'[e.caller].left
      <4>1. CASE e.caller = n.caller
        BY <1>0, <2>3, <2>6, <2>7, <2>8, <3>1, <4>1, Types
      <4>2. CASE e.caller # n.caller
        <5>1. CASE call' = call
          BY <3>1, <5>1
        <5>2. CASE call' = [call EXCEPT ![n.caller] = x]
          BY <3>1, <4>2, <5>2
        <5> QED BY <2>6, <5>1, <5>2
      <4> QED BY <4>1, <4>2
    <3>3. ASSUME NEW k \in DOMAIN (Accepted(t))'
          PROVE  \/ k \in DOMAIN Accepted(t) /\ (Accepted(t))'[k] = Accepted(t)[k]
                 \/ (Accepted(t))'[k].from # e.caller
      <4> DEFINE a == Accepted(t)
                 b == n.msgs
      <4>1. a \in Seq(Records) /\ b \in Seq(Records)
        BY <1>0, <2>3, AcceptedType
      <4>2. (Accepted(t))' = IF t = s /\ Accepts(s) THEN a \o b ELSE a
        BY <1>0, <1>3, <2>2, DeliverAccepts
      <4>3. \A j \in DOMAIN b : b[j].from = n.caller
        BY <2>5 DEF Letter
      <4>4. CASE t = s /\ (Accepted(t))' = a \o b
        <5> HIDE DEF a, b
        <5>1. \A l \in DOMAIN (a \o b) :
                 \/ l \in DOMAIN a /\ (a \o b)[l] = a[l]
                 \/ \E j \in DOMAIN b : l = Len(a) + j /\ (a \o b)[l] = b[j]
          BY ONLY <4>1, Joined
        <5>2. PICK ab : ab = a \o b
          OBVIOUS
        <5>3. k \in DOMAIN ab /\ (Accepted(t))' = ab
          BY <4>4, <5>2
        <5>4. (k \in DOMAIN a /\ ab[k] = a[k]) \/ \E j \in DOMAIN b : ab[k] = b[j]
          BY <5>1, <5>2, <5>3
        <5>5. e.caller # n.caller
          BY <2>8, <4>4
        <5>6. (k \in DOMAIN a /\ (Accepted(t))'[k] = a[k]) \/ (Accepted(t))'[k].from # e.caller
          BY <4>3, <5>3, <5>4, <5>5
        <5> QED BY <5>6 DEF a
      <4>5. CASE (Accepted(t))' = a
        BY <4>5
      <4> QED BY <4>2, <4>4, <4>5
    <3> QED BY <2>8, <3>2, <3>3, LetterKept
  <2>9. ASSUME NEW t \in Shards
        PROVE  \A i \in DOMAIN inbox'[t] :
                 /\ \A e : e = inbox'[t][i] => Letter(t, e)'
                 /\ \A j \in DOMAIN inbox'[t] : inbox'[t][j].caller = inbox'[t][i].caller => j = i
    <3>1. CASE t # s
      <4>1. inbox'[t] = inbox[t]
        BY <1>0, <2>1, <3>1, Types
      <4> QED BY <1>0, <2>8, <3>1, <4>1, MailGives
    <3>2. CASE t = s
      <4> DEFINE q == inbox[s]
                 tq == Tail(inbox[s])
      <4>1. inbox'[s] = tq
        BY <1>0, <2>1, Types
      <4>2. /\ q[1] = n /\ 1 \in DOMAIN q
            /\ \A i \in DOMAIN tq : i \in Nat /\ i + 1 \in DOMAIN q /\ tq[i] = q[i + 1]
        <5>1. DOMAIN tq = 1..(Len(q) - 1)
          BY <1>0, <2>1, InboxHead
        <5> QED BY <1>0, <2>1, <2>2, InboxHead
      <4>3. \A i \in DOMAIN q : /\ Letter(s, q[i])
                                /\ \A j \in DOMAIN q : q[j].caller = q[i].caller => j = i
        BY <1>0, MailGives
      <4>4. \A i \in DOMAIN tq : i \in Nat /\ i + 1 # 1
        <5>1. DOMAIN tq = 1..(Len(q) - 1)
          BY <1>0, <2>1, InboxHead
        <5> HIDE DEF tq
        <5> QED BY <5>1
      <4> HIDE DEF q, tq
      <4>5. ASSUME NEW i \in DOMAIN tq, NEW e, e = tq[i] PROVE Letter(s, e)'
        <5>1. PICK k \in DOMAIN q : k = i + 1 /\ k # 1 /\ e = q[k]
          BY <4>2, <4>4, <4>5
        <5>2. Letter(s, e) /\ e.caller # n.caller
          BY <4>2, <4>3, <5>1
        <5> QED BY <2>8, <5>2
      <4>6. ASSUME NEW i \in DOMAIN tq, NEW j \in DOMAIN tq, tq[j].caller = tq[i].caller PROVE j = i
        <5>1. i + 1 \in DOMAIN q /\ j + 1 \in DOMAIN q /\ q[j + 1].caller = q[i + 1].caller
          BY <4>2, <4>6
        <5>2. j + 1 = i + 1
          BY <4>3, <5>1
        <5> QED BY <4>4, <5>2
      <4> QED BY <3>2, <4>1, <4>5, <4>6
    <3> QED BY <3>1, <3>2
  <2> QED BY <2>9, MailNext
<1>4. ASSUME NEW s \in Shards, NEW c \in Callers, NEW failed \in BOOLEAN, Answer(c, s, failed)
      PROVE Mail'
  <2>1. PICK x : x = Answered(c, s, failed)
    OBVIOUS
  <2>2. /\ UNCHANGED <<log, queue, inbox>> /\ call' = [call EXCEPT ![c] = x]
        /\ \A i \in DOMAIN inbox[s] : inbox[s][i].caller # c
    BY <1>4, <2>1 DEF Answer
  <2>3. \A t \in call[c].left : t # s => x.pc = "waiting" /\ t \in x.left
    BY <2>1, AnsweredCases
  <2>4. ASSUME NEW t \in Shards, NEW i \in DOMAIN inbox[t], NEW e, e = inbox[t][i]
        PROVE Letter(t, e)'
    <3>1. Letter(t, e) /\ call[e.caller].pc = "waiting" /\ t \in call[e.caller].left
      BY <1>0, <2>4, MailGives
    <3>2. call'[e.caller].pc = "waiting" /\ t \in call'[e.caller].left
      <4>1. CASE e.caller = c
        <5>1. t # s
          BY <2>2, <2>4, <4>1
        <5> QED BY <1>0, <2>2, <2>3, <3>1, <4>1, <5>1, Types
      <4>2. CASE e.caller # c
        BY <2>2, <3>1, <4>2
      <4> QED BY <4>1, <4>2
    <3>3. (Accepted(t))' = Accepted(t)
      BY <2>2 DEF Accepted
    <3> QED BY <3>1, <3>2, <3>3, LetterKept
  <2> QED BY <1>0, <2>2, <2>4, MailGives, MailNext
<1>5. ASSUME NEW s \in Shards, NEW n \in 1..Len(queue[s]), Flush(s, n) PROVE Mail'
  <2>1. UNCHANGED <<inbox, call>>
    BY <1>5 DEF Flush
  <2>2. \A t \in Shards : (Accepted(t))' = Accepted(t)
    BY <1>0, <1>5, FlushAccepts
  <2>3. ASSUME NEW t \in Shards, NEW i \in DOMAIN inbox[t], NEW e, e = inbox[t][i]
        PROVE Letter(t, e)'
    <3>1. Letter(t, e) /\ call[e.caller].pc = "waiting" /\ t \in call[e.caller].left
      BY <1>0, <2>3, MailGives
    <3> QED BY <2>1, <2>2, <3>1, LetterKept
  <2> QED BY <1>0, <2>1, <2>3, MailGives, MailNext
<1>6. ASSUME EngineCrash PROVE Mail'
  <2>1. inbox' = [s \in Shards |-> <<>>]
    BY <1>6 DEF EngineCrash
  <2>2. \A s \in Shards : DOMAIN inbox'[s] = {}
    BY <2>1
  <2> QED BY <2>2, MailNext
<1>7. ASSUME Quiet PROVE Mail'
  BY <1>7, <1>k DEF Quiet
<1> QED BY <1>0, <1>1, <1>2, <1>3, <1>4, <1>5, <1>6, <1>7, NextCases

-----------------------------------------------------------------------------
(* Has looks at log, queue and inbox only.                                  *)
LEMMA HasSame ==
  ASSUME UNCHANGED <<log, queue, inbox>>, NEW t \in Shards, NEW m
  PROVE  Has(t, m)' <=> Has(t, m)
BY DEF Has, Accepted

(* The steps that send nothing new.                                         *)
Silent ==
  \/ \E conf \in Configs, pts \in PointSpace : StartEngine(conf.routing, conf.empty, pts)
  \/ UNCHANGED clientVars /\ \E s \in Shards : Deliver(s)
  \/ UNCHANGED clientVars
     /\ \E s \in Shards, c \in Callers, failed \in BOOLEAN : Answer(c, s, failed)
  \/ UNCHANGED clientVars /\ \E s \in Shards : \E n \in 1..Len(queue[s]) : Flush(s, n)
  \/ UNCHANGED clientVars /\ EngineCrash
  \/ Quiet

(* They put no record anywhere.                                             *)
LEMMA SilentFrame ==
  ASSUME TypeOK, Silent
  PROVE  /\ UNCHANGED <<sent, held>>
         /\ \A t \in Shards : \A m : Has(t, m)' => Has(t, m)
<1>1. ASSUME NEW conf \in Configs, NEW pts
               \in PointSpace, StartEngine(conf.routing, conf.empty, pts)
      PROVE  UNCHANGED <<sent, held>> /\ \A t \in Shards : \A m : Has(t, m)' => Has(t, m)
  <2>1. UNCHANGED <<log, queue, inbox, sent, held>>
    BY <1>1 DEF StartEngine, Start
  <2> QED BY <2>1, HasSame
<1>2. ASSUME NEW s \in Shards, Deliver(s) PROVE \A t \in Shards : \A m : Has(t, m)' => Has(t, m)
  BY <1>2, HasDelivered
<1>3. ASSUME NEW s \in Shards, NEW c \in Callers, NEW failed \in BOOLEAN, Answer(c, s, failed)
      PROVE  \A t \in Shards : \A m : Has(t, m)' => Has(t, m)
  <2>1. UNCHANGED <<log, queue, inbox>>
    BY <1>3 DEF Answer
  <2> QED BY <2>1, HasSame
<1>4. ASSUME NEW s \in Shards, NEW n \in 1..Len(queue[s]), Flush(s, n)
      PROVE  \A t \in Shards : \A m : Has(t, m)' => Has(t, m)
  BY <1>4, HasFlushed
<1>5. ASSUME EngineCrash PROVE \A t \in Shards : \A m : Has(t, m)' => Has(t, m)
  BY <1>5, HasSurvived
<1>6. ASSUME Quiet PROVE UNCHANGED <<sent, held>> /\ \A t \in Shards : \A m : Has(t,
                                     m)' => Has(t, m)
  <2>1. UNCHANGED <<log, queue, inbox, sent, held>>
    BY <1>6 DEF Quiet, clientVars
  <2> QED BY <2>1, HasSame
<1> QED BY <1>1, <1>2, <1>3, <1>4, <1>5, <1>6 DEF Silent, clientVars

(* Every other step is a call.                                              *)
LEMMA NextSplits ==
  ASSUME TypeOK, RingOK, Next
  PROVE  Silent \/ \E c \in Callers : \E msgs, shards : Posted(c, msgs, shards)
BY NextCases DEF Silent

(* The records of a call and what becomes of held.                          *)
LEMMA PostedRecords ==
  ASSUME TypeOK, NEW c \in Callers, NEW msgs, NEW shards, Posted(c, msgs, shards)
  PROVE  /\ msgs \in Seq(Records) /\ Len(msgs) \in Nat /\ sent \in Nat /\ sent' = sent + Len(msgs)
         /\ \A i \in 1..Len(msgs) : /\ msgs[i] \in Records /\ msgs[i].id = sent + i
            /\ msgs[i].from = c
                                    /\ shards[i] \in Shards
         /\ \A m : m \in held'[c] => \E i \in 1..Len(msgs) : m = msgs[i]
         /\ \A d \in Callers : d # c => held'[d] = held[d]
<1>1. /\ msgs \in Seq(Records) /\ shards \in [1..Len(msgs) -> Shards]
      /\ \A i \in 1..Len(msgs) : msgs[i].id = sent + i /\ msgs[i].from = c
  BY DEF Posted
<1>2. sent \in Nat
  BY Types
<1>3. sent' = sent + Len(msgs) /\ held' = [held EXCEPT ![c] = ToSet(msgs)]
  BY DispatchFrame
<1>4. \A i \in 1..Len(msgs) : msgs[i] \in Records /\ shards[i] \in Shards
  BY <1>1
<1>5. ASSUME NEW m, m \in held'[c] PROVE \E i \in 1..Len(msgs) : m = msgs[i]
  <2>1. m \in ToSet(msgs)
    BY <1>3, <1>5, Types
  <2>2. DOMAIN msgs = 1..Len(msgs)
    BY <1>1
  <2> QED BY <1>1, <2>1, <2>2, ToSetType
<1>6. \A d \in Callers : d # c => held'[d] = held[d]
  BY <1>3, Types
<1> QED BY <1>1, <1>2, <1>3, <1>4, <1>5, <1>6

(* Every step keeps Numbered,                                               *)
LEMMA NumberedStep ==
  ASSUME IndInv, Next
  PROVE  Numbered'
<1>0. TypeOK /\ RingOK /\ Numbered
  BY DEF IndInv
<1>1. CASE Silent
  BY <1>0, <1>1, SilentFrame DEF Numbered
<1>2. ASSUME NEW c \in Callers, NEW msgs, NEW shards, Posted(c, msgs, shards) PROVE Numbered'
  <2>1. /\ msgs \in Seq(Records) /\ Len(msgs) \in Nat /\ sent \in Nat /\ sent' = sent + Len(msgs)
        /\ \A i \in 1..Len(msgs) : /\ msgs[i] \in Records /\ msgs[i].id = sent + i
           /\ msgs[i].from = c
                                   /\ shards[i] \in Shards
        /\ \A m : m \in held'[c] => \E i \in 1..Len(msgs) : m = msgs[i]
        /\ \A d \in Callers : d # c => held'[d] = held[d]
    BY <1>0, <1>2, PostedRecords
  <2>2. ASSUME NEW s \in Shards, NEW m \in Records, Has(s, m)' PROVE m.id <= sent'
    <3>1. Has(s, m) \/ \E i \in 1..Len(msgs) : shards[i] = s /\ m = msgs[i]
      BY <1>0, <1>2, <2>2, HasPosted
    <3>2. CASE Has(s, m)
      <4>1. m.id <= sent /\ m.id \in Int
        BY <1>0, <3>2, Sizes DEF Numbered, RecordSet
      <4> QED BY <2>1, <4>1
    <3>3. ASSUME NEW i \in 1..Len(msgs), m = msgs[i] PROVE m.id <= sent'
      <4>1. m.id = sent + i /\ sent + i <= sent + Len(msgs)
        BY <2>1, <3>3
      <4> QED BY <2>1, <4>1
    <3> QED BY <3>1, <3>2, <3>3
  <2>3. ASSUME NEW d \in Callers, NEW m \in held'[d] PROVE m.from = d
    <3>1. CASE d = c
      BY <2>1, <2>3, <3>1
    <3>2. CASE d # c
      BY <1>0, <2>1, <2>3, <3>2 DEF Numbered
    <3> QED BY <3>1, <3>2
  <2> QED BY <2>2, <2>3 DEF Numbered
<1> QED BY <1>0, <1>1, <1>2, NextSplits

(* ... Disjoint, as a call's records are new and each goes to one shard,    *)
LEMMA DisjointStep ==
  ASSUME IndInv, Next
  PROVE  Disjoint'
<1>0. TypeOK /\ RingOK /\ Numbered /\ Disjoint
  BY DEF IndInv
<1>1. CASE Silent
  BY <1>0, <1>1, SilentFrame DEF Disjoint
<1>2. ASSUME NEW c \in Callers, NEW msgs, NEW shards, Posted(c, msgs, shards) PROVE Disjoint'
  <2>1. /\ Len(msgs) \in Nat /\ sent \in Nat
        /\ \A i \in 1..Len(msgs) : msgs[i].id = sent + i
    BY <1>0, <1>2, PostedRecords
  <2>2. \A s \in Shards : \A m \in Records : Has(s, m) => m.id <= sent
    BY <1>0 DEF Numbered
  <2>3. \A i \in 1..Len(msgs) : ~ (sent + i <= sent)
    BY <2>1
  <2>4. \A s \in Shards : \A m \in Records :
          Has(s, m)' => Has(s, m) \/ \E i \in 1..Len(msgs) : shards[i] = s /\ m = msgs[i]
    BY <1>0, <1>2, HasPosted
  <2>5. ASSUME NEW s \in Shards, NEW t \in Shards, NEW m \in Records, Has(s, m)', Has(t, m)'
        PROVE s = t
    <3>1. CASE Has(s, m) /\ Has(t, m)
      BY <1>0, <3>1 DEF Disjoint
    <3>2. ASSUME NEW i \in 1..Len(msgs), m = msgs[i] PROVE ~Has(s, m) /\ ~Has(t, m)
      BY <2>1, <2>2, <2>3, <3>2
    <3>3. ASSUME NEW i \in 1..Len(msgs), m = msgs[i], shards[i] = s,
                 NEW j \in 1..Len(msgs), m = msgs[j], shards[j] = t
          PROVE  s = t
      <4>1. sent + i = sent + j
        BY <2>1, <3>3
      <4>2. i = j
        BY <2>1, <4>1
      <4> QED BY <3>3, <4>2
    <3> QED BY <2>4, <2>5, <3>1, <3>2, <3>3
  <2> QED BY <2>5 DEF Disjoint
<1> QED BY <1>0, <1>1, <1>2, NextSplits

(* ... Placed: a message that a gone writer refuses makes its call fail,    *)
LEMMA PlacedStep ==
  ASSUME IndInv, Next
  PROVE  Placed'
<1>0. TypeOK /\ RingOK /\ Calls /\ Mail /\ Numbered /\ Placed
  BY DEF IndInv
<1>k. ASSUME UNCHANGED <<call, held, dropped>>, \A s \in Shards : \A m : Has(s,
                         m) => Has(s, m)' PROVE Placed'
  BY <1>0, <1>k DEF Placed
<1>1. ASSUME NEW conf \in Configs, NEW pts
               \in PointSpace, StartEngine(conf.routing, conf.empty, pts) PROVE Placed'
  <2>1. UNCHANGED <<log, queue, inbox, call, held, dropped>>
    BY <1>1 DEF StartEngine, Start
  <2> QED BY <1>k, <2>1, HasSame
<1>2. ASSUME NEW c \in Callers, NEW msgs, NEW shards, Posted(c, msgs, shards) PROVE Placed'
  <2>1. /\ Len(msgs) \in Nat
        /\ \A i \in 1..Len(msgs) : shards[i] \in Shards
        /\ \A m : m \in held'[c] => \E i \in 1..Len(msgs) : m = msgs[i]
        /\ \A d \in Callers : d # c => held'[d] = held[d]
    BY <1>0, <1>2, PostedRecords
  <2>2. /\ \A s \in Shards : \A m : Has(s, m) => Has(s, m)'
        /\ \A s \in Shards : \A i \in 1..Len(msgs) : shards[i] = s => Has(s, msgs[i])'
           \/ msgs[i] \in dropped'
    BY <1>0, <1>2, HasPosted
  <2>3. dropped \subseteq dropped'
    BY <1>0, <1>2, DispatchFrame
  <2>4. PICK used \in SUBSET Shards : call'
               = [call EXCEPT ![c] = [pc |-> "waiting", left |-> used, bad |-> FALSE]]
    BY <1>0, <1>2, DispatchCall
  <2>5. ASSUME NEW d \in Callers, call'[d].pc \in {"waiting", "ok"}, ~call'[d].bad, NEW m
                 \in held'[d]
        PROVE  m \in dropped' \/ \E s \in Shards : Has(s, m)'
    <3>1. CASE d = c
      <4>1. PICK i \in 1..Len(msgs) : m = msgs[i]
        BY <2>1, <2>5, <3>1
      <4> QED BY <2>1, <2>2, <4>1
    <3>2. CASE d # c
      <4>1. call'[d] = call[d] /\ held'[d] = held[d]
        BY <2>1, <2>4, <3>2
      <4>2. m \in dropped \/ \E s \in Shards : Has(s, m)
        BY <1>0, <2>5, <4>1 DEF Placed
      <4> QED BY <2>2, <2>3, <4>2
    <3> QED BY <3>1, <3>2
  <2> QED BY <2>5 DEF Placed
<1>3. ASSUME UNCHANGED clientVars, NEW s \in Shards, Deliver(s) PROVE Placed'
  <2>1. /\ inbox[s] # <<>>
        /\ dropped' = IF writer[s]
             \in {"stopping", "stopped"} THEN dropped \cup ToSet(inbox[s][1].msgs) ELSE dropped
        /\ call' = IF writer[s] = "gone"
                   THEN [call EXCEPT ![inbox[s][1].caller] = Answered(inbox[s][1].caller, s,
                     TRUE)] ELSE call
    BY <1>0, <1>3, DeliverFrame
  <2>2. PICK n : n = inbox[s][1]
    OBVIOUS
  <2>3. 1 \in DOMAIN inbox[s] /\ n.caller \in Callers /\ n.msgs \in Seq(Records)
    BY <1>0, <2>1, <2>2, InboxHead
  <2>4. Letter(s, n)
    BY <1>0, <2>2, <2>3, MailGives
  <2>5. PICK c \in Callers : c = n.caller
    BY <2>3
  <2>6. PICK failed \in BOOLEAN : failed = TRUE
    OBVIOUS
  <2>7. PICK x : x = Answered(c, s, failed)
    OBVIOUS
  <2>8. x.bad
    BY <2>6, <2>7, AnsweredCases
  <2>9. /\ writer[s] = "gone" => call' = [call EXCEPT ![c] = x]
        /\ writer[s] # "gone" => call' = call
    BY <2>1, <2>2, <2>5, <2>6, <2>7
  <2>10. writer[s] \in {"up", "stopping", "stopped", "gone"} /\ held' = held
    BY <1>0, <1>3, Types DEF clientVars
  <2>11. ASSUME NEW d \in Callers, call'[d].pc \in {"waiting", "ok"}, ~call'[d].bad, NEW m
                  \in held[d]
         PROVE  m \in dropped' \/ \E t \in Shards : Has(t, m)'
    <3>1. call'[d] = call[d] /\ (d = c => writer[s] # "gone")
      <4>1. CASE writer[s] = "gone"
        <5>1. call' = [call EXCEPT ![c] = x] /\ call'[c] = x
          BY <1>0, <2>9, <4>1, Types
        <5>2. d # c
          BY <2>8, <2>11, <5>1
        <5> QED BY <5>1, <5>2
      <4>2. CASE writer[s] # "gone"
        BY <2>9, <4>2
      <4> QED BY <4>1, <4>2
    <3>2. m \in dropped \/ \E t \in Shards : Has(t, m)
      BY <1>0, <2>11, <3>1 DEF Placed
    <3>3. CASE m \in dropped
      BY <2>1, <3>3
    <3>4. ASSUME NEW t \in Shards, Has(t, m), ~Has(t, m)' PROVE m \in dropped'
      <4>1. ~Accepts(s) /\ \E k \in DOMAIN inbox[s][1].msgs : inbox[s][1].msgs[k] = m
        BY <1>0, <1>3, <3>4, HasDelivered
      <4>2. PICK k \in DOMAIN n.msgs : n.msgs[k] = m
        BY <2>2, <4>1
      <4>3. m.from = c
        BY <2>4, <2>5, <4>2 DEF Letter
      <4>4. m.from = d
        BY <1>0, <2>11 DEF Numbered
      <4>5. writer[s] \in {"stopping", "stopped"}
        BY <2>10, <3>1, <4>1, <4>3, <4>4 DEF Accepts
      <4>6. m \in ToSet(n.msgs)
        BY <2>3, <4>2, ToSetType
      <4> QED BY <2>1, <2>2, <4>5, <4>6
    <3> QED BY <3>2, <3>3, <3>4
  <2> QED BY <2>10, <2>11 DEF Placed
<1>4. ASSUME UNCHANGED clientVars, NEW s \in Shards, NEW c \in Callers, NEW failed
               \in BOOLEAN, Answer(c, s, failed)
      PROVE  Placed'
  <2>1. PICK x : x = Answered(c, s, failed)
    OBVIOUS
  <2>2. /\ s \in call[c].left /\ call' = [call EXCEPT ![c] = x]
        /\ UNCHANGED <<log, queue, inbox, dropped>> /\ held' = held
    BY <1>4, <2>1 DEF Answer, clientVars
  <2>3. ~x.bad => ~call[c].bad
    BY <2>1, AnsweredCases
  <2>4. call[c].pc = "waiting"
    BY <1>0, <2>2 DEF Calls
  <2>5. \A t \in Shards : \A m : Has(t, m)' <=> Has(t, m)
    BY <2>2, HasSame
  <2>6. ASSUME NEW d \in Callers, call'[d].pc \in {"waiting", "ok"}, ~call'[d].bad, NEW m
                 \in held[d]
        PROVE  m \in dropped \/ \E t \in Shards : Has(t, m)
    <3>1. CASE d = c
      <4>1. call'[d] = x
        BY <1>0, <2>2, <3>1, Types
      <4> QED BY <1>0, <2>3, <2>4, <2>6, <3>1, <4>1 DEF Placed
    <3>2. CASE d # c
      <4>1. call'[d] = call[d]
        BY <2>2, <3>2
      <4> QED BY <1>0, <2>6, <4>1 DEF Placed
    <3> QED BY <3>1, <3>2
  <2> QED BY <2>2, <2>5, <2>6 DEF Placed
<1>5. ASSUME UNCHANGED clientVars, NEW s \in Shards, NEW n \in 1..Len(queue[s]), Flush(s, n)
      PROVE Placed'
  <2>1. UNCHANGED <<call, held, dropped>>
    BY <1>5 DEF Flush, clientVars
  <2>2. \A t \in Shards : \A m : Has(t, m)' <=> Has(t, m)
    BY <1>0, <1>5, HasFlushed
  <2> QED BY <1>k, <2>1, <2>2
<1>6. ASSUME EngineCrash PROVE Placed'
  <2>1. \A c \in Callers : call'[c].pc = "idle"
    BY <1>6 DEF EngineCrash, NoCall
  <2> QED BY <2>1 DEF Placed
<1>7. ASSUME Quiet PROVE Placed'
  <2>1. UNCHANGED <<log, queue, inbox, call, held, dropped>>
    BY <1>7 DEF Quiet, clientVars
  <2> QED BY <1>k, <2>1, HasSame
<1> QED BY <1>0, <1>1, <1>2, <1>3, <1>4, <1>5, <1>6, <1>7, NextCases

(* ... and Routed.                                                          *)
LEMMA RoutedStep ==
  ASSUME IndInv, Next
  PROVE  Routed'
<1>0. TypeOK /\ RingOK /\ Routed /\ starts \in Nat
  BY Types DEF IndInv
<1>k. ASSUME UNCHANGED <<ring, starts>>, started = "down" => started' = "down",
             \A t \in Shards : \A m : Has(t, m)' => Has(t, m)
      PROVE  Routed'
  BY <1>0, <1>k DEF Routed
<1>1. ASSUME NEW conf \in Configs, NEW pts
               \in PointSpace, StartEngine(conf.routing, conf.empty, pts) PROVE Routed'
  <2>1. starts' = starts + 1 /\ UNCHANGED <<log, queue, inbox>>
    BY <1>1 DEF StartEngine, Start
  <2>2. \A t \in Shards : \A m : Has(t, m)' <=> Has(t, m)
    BY <2>1, HasSame
  <2>3. starts' # 0 /\ (starts' <= 1 => starts = 0)
    BY <1>0, <2>1
  <2> QED BY <1>0, <2>2, <2>3 DEF Routed
<1>2. ASSUME NEW c \in Callers, NEW msgs, NEW shards, Posted(c, msgs, shards) PROVE Routed'
  <2>1. started # "down" /\ UNCHANGED <<ring, starts>>
    BY <1>0, <1>2, DispatchFrame DEF config
  <2>2. starts # 0
    BY <1>0, <2>1 DEF Routed
  <2>3. \A i \in 1..Len(msgs) : ~Empty(msgs[i]) => shards[i] = RouteHash(ring, KeyHash[msgs[i].key])
    BY <1>2 DEF Posted
  <2>4. ASSUME starts <= 1, NEW s \in Shards, NEW m \in Records, Has(s, m)', ~Empty(m)
        PROVE  s = RouteHash(ring, KeyHash[m.key])
    <3>1. Has(s, m) \/ \E i \in 1..Len(msgs) : shards[i] = s /\ m = msgs[i]
      BY <1>0, <1>2, <2>4, HasPosted
    <3>2. CASE Has(s, m)
      BY <1>0, <2>4, <3>2 DEF Routed
    <3>3. CASE \E i \in 1..Len(msgs) : shards[i] = s /\ m = msgs[i]
      BY <2>3, <2>4, <3>3
    <3> QED BY <3>1, <3>2, <3>3
  <2>5. starts' = starts /\ ring' = ring
    BY <2>1
  <2>6. (\A m : Empty(m)' <=> Empty(m)) /\ \A h : RouteHash(ring, h)' = RouteHash(ring, h)
    BY <2>5 DEF Empty, RouteHash
  <2> QED BY <2>2, <2>4, <2>5, <2>6 DEF Routed
<1>3. ASSUME UNCHANGED clientVars, NEW s \in Shards, Deliver(s) PROVE Routed'
  <2>1. UNCHANGED <<ring, starts, started>>
    BY <1>0, <1>3, DeliverFrame DEF config, clientVars
  <2>2. \A t \in Shards : \A m : Has(t, m)' => Has(t, m)
    BY <1>0, <1>3, HasDelivered
  <2> QED BY <1>k, <2>1, <2>2
<1>4. ASSUME UNCHANGED clientVars, NEW s \in Shards, NEW c \in Callers, NEW failed
               \in BOOLEAN, Answer(c, s, failed)
      PROVE  Routed'
  <2>1. UNCHANGED <<ring, starts, started, log, queue, inbox>>
    BY <1>4 DEF Answer, config, clientVars
  <2> QED BY <1>k, <2>1, HasSame
<1>5. ASSUME UNCHANGED clientVars, NEW s \in Shards, NEW n \in 1..Len(queue[s]), Flush(s, n)
      PROVE Routed'
  <2>1. UNCHANGED <<ring, starts, started>>
    BY <1>5 DEF Flush, config, clientVars
  <2>2. \A t \in Shards : \A m : Has(t, m)' <=> Has(t, m)
    BY <1>0, <1>5, HasFlushed
  <2> QED BY <1>k, <2>1, <2>2
<1>6. ASSUME UNCHANGED clientVars, EngineCrash PROVE Routed'
  <2>1. UNCHANGED <<ring, starts>> /\ started' = "down"
    BY <1>6 DEF EngineCrash, config, clientVars
  <2>2. \A t \in Shards : \A m : Has(t, m)' => Has(t, m)
    BY <1>0, <1>6, HasSurvived
  <2> QED BY <1>k, <2>1, <2>2
<1>7. ASSUME Quiet PROVE Routed'
  <2>1. UNCHANGED <<ring, starts, log, queue,
                    inbox>> /\ (started = "down" => started' = "down")
    BY <1>7 DEF Quiet, config, clientVars
  <2> QED BY <1>k, <2>1, HasSame
<1> QED BY <1>0, <1>1, <1>2, <1>3, <1>4, <1>5, <1>6, <1>7, NextCases

-----------------------------------------------------------------------------
(* Even shares differ by one at most.                                       *)
LEMMA EvenDiffers ==
  ASSUME NEW f, NEW r \in Shards, Even(f, r)
  PROVE  \A s, t \in Shards : f[s] - f[t] <= 1
<1>1. PICK q \in Nat, b \in Shards : \A s \in Shards : f[s]
             = q + (IF InRange(b, r, s) THEN 1 ELSE 0)
  BY DEF Even
<1>2. \A s \in Shards : f[s] = q \/ f[s] = q + 1
  BY <1>1
<1> QED BY <1>2

(* One more record for the shard whose turn it is keeps the shares even.    *)
LEMMA EvenTurns ==
  ASSUME NEW f, NEW g, NEW r \in Shards, NEW r2 \in Shards, Even(f, r),
         r2 = IF r = ShardCount - 1 THEN 0 ELSE r + 1,
         \A s \in Shards : g[s] = f[s] + (IF s = r THEN 1 ELSE 0)
  PROVE  Even(g, r2)
<1>1. PICK q \in Nat, b \in Shards : \A s \in Shards : f[s]
             = q + (IF InRange(b, r, s) THEN 1 ELSE 0)
  BY DEF Even
<1>2. ShardCount \in Nat \ {0} /\ Shards = 0..(ShardCount - 1)
  BY Sizes DEF Shards
<1>3. CASE b = r2
  <2>1. \A s \in Shards : ~InRange(r2, r2, s)
    BY <1>2 DEF InRange
  <2>2. \A s \in Shards : s = r \/ InRange(b, r, s)
    BY <1>2, <1>3 DEF InRange
  <2>3. ~InRange(b, r, r)
    BY <1>2 DEF InRange
  <2>4. \A s \in Shards : g[s] = q + 1
    BY <1>1, <2>2, <2>3
  <2>5. \A s \in Shards : g[s] = (q + 1) + (IF InRange(r2, r2, s) THEN 1 ELSE 0)
    BY <2>1, <2>4
  <2>6. q + 1 \in Nat
    OBVIOUS
  <2> QED BY <2>5, <2>6 DEF Even
<1>4. CASE b # r2
  <2>1. \A s \in Shards : InRange(b, r2, s) <=> s = r \/ InRange(b, r, s)
    BY <1>2, <1>4 DEF InRange
  <2>3. ~InRange(b, r, r)
    BY <1>2 DEF InRange
  <2>4. \A s \in Shards : g[s] = q + (IF InRange(b, r2, s) THEN 1 ELSE 0)
    BY <1>1, <2>1, <2>3
  <2> QED BY <2>4 DEF Even
<1> QED BY <1>3, <1>4

(* How many of the first k records of a call go to shard s.                 *)
Share(shards, k, s) == Cardinality({i \in 1..k : shards[i] = s})

(* One more record counts for its shard.                                    *)
LEMMA ShareGrows ==
  ASSUME NEW shards, NEW s, NEW k \in Nat
  PROVE  /\ Share(shards, 0, s) = 0 /\ Share(shards, k, s) \in Nat
         /\ Share(shards, k + 1, s) = Share(shards, k, s) + (IF shards[k + 1] = s THEN 1 ELSE 0)
<1> DEFINE F(n) == {i \in 1..n : shards[i] = s}
<1>1. IsFiniteSet(1..k) /\ F(k) \subseteq 1..k
  BY FS_Interval
<1>2. IsFiniteSet(F(k)) /\ Cardinality(F(k)) \in Nat
  BY <1>1, FS_Subset, FS_CardinalityType
<1>3. F(0) = {}
  OBVIOUS
<1>4. Cardinality(F(0)) = 0
  BY <1>3, FS_EmptySet
<1>5. CASE shards[k + 1] = s
  <2>1. F(k + 1) = F(k) \cup {k + 1} /\ k + 1 \notin F(k)
    BY <1>5
  <2>2. Cardinality(F(k + 1)) = Cardinality(F(k)) + 1
    BY <1>2, <2>1, FS_AddElement
  <2> QED BY <1>2, <1>4, <1>5, <2>2 DEF Share
<1>6. CASE shards[k + 1] # s
  <2>1. F(k + 1) = F(k)
    BY <1>6
  <2>2. Cardinality(F(k + 1)) = Cardinality(F(k)) + 0
    BY <1>2, <2>1
  <2> QED BY <1>2, <1>4, <1>6, <2>2 DEF Share
<1> QED BY <1>5, <1>6

(* A batch in turn keeps the shares even, record by record.                 *)
LEMMA BatchTurns ==
  ASSUME NEW f, f \in [Shards -> Nat], NEW r \in Shards, Even(f, r), NEW n \in Nat, NEW shards,
         \A i \in 1..n : shards[i] = (r + (i - 1)) % ShardCount, NEW g,
         \A s \in Shards : g[s] = f[s] + Share(shards, n, s)
  PROVE  Even(g, (r + n) % ShardCount)
<1> DEFINE F(k) == [s \in Shards |-> f[s] + Share(shards, k, s)]
           P == {k \in Nat : k <= n => Even(F(k), (r + k) % ShardCount)}
<1>0. ShardCount \in Nat \ {0} /\ Shards = 0..(ShardCount - 1) /\ r \in Nat
  BY Sizes DEF Shards
<1>1. 0 \in P
  <2>1. \A s \in Shards : F(0)[s] = f[s]
    BY ShareGrows
  <2>2. (r + 0) % ShardCount = r
    <3>1. r + 0 = r /\ r \in Int /\ r \in 0..(ShardCount - 1)
      BY <1>0
    <3>2. r % ShardCount = r
      BY <1>0, <3>1, Remainder
    <3> QED BY <3>1, <3>2
  <2> HIDE DEF F
  <2>3. Even(F(0), r)
    BY <2>1 DEF Even
  <2> QED BY <2>2, <2>3
<1>2. ASSUME NEW k \in Nat, k \in P PROVE k + 1 \in P
  <2> SUFFICES ASSUME k + 1 <= n PROVE Even(F(k + 1), (r + (k + 1)) % ShardCount)
    OBVIOUS
  <2>1. PICK a \in Nat : a = r + k
    BY <1>0
  <2>2. PICK t \in Shards, t2 \in Shards : t = a % ShardCount /\ t2 = (a + 1) % ShardCount
    <3>1. a \in Int /\ a + 1 \in Int
      BY <2>1
    <3>2. a % ShardCount \in Shards /\ (a + 1) % ShardCount \in Shards
      BY <1>0, <3>1, Remainder
    <3> QED BY <3>2
  <2>3. t2 = IF t = ShardCount - 1 THEN 0 ELSE t + 1
    BY <1>0, <2>2, RemainderNext
  <2>4. k + 1 \in 1..n /\ (k + 1) - 1 = k
    OBVIOUS
  <2>5. shards[k + 1] = t
    BY <2>1, <2>2, <2>4
  <2>6. \A s \in Shards : F(k + 1)[s] = F(k)[s] + (IF s = t THEN 1 ELSE 0)
    <3>1. \A s \in Shards : F(k + 1)[s] = f[s] + Share(shards, k + 1, s)
          /\ F(k)[s] = f[s] + Share(shards, k, s)
      OBVIOUS
    <3>2. \A s \in Shards : /\ Share(shards, k, s) \in Nat
                            /\ Share(shards, k + 1, s)
                                 = Share(shards, k, s) + (IF t = s THEN 1 ELSE 0)
      BY <2>5, ShareGrows
    <3> HIDE DEF F
    <3> QED BY <3>1, <3>2
  <2>7. k <= n /\ Even(F(k), t)
    BY <1>2, <2>1, <2>2
  <2>8. r + (k + 1) = a + 1
    BY <1>0, <2>1
  <2>9. PICK fk, fn : fk = F(k) /\ fn = F(k + 1)
    OBVIOUS
  <2> HIDE DEF F, P
  <2>10. Even(fn, t2)
    BY <2>3, <2>6, <2>7, <2>9, EvenTurns
  <2> QED BY <2>2, <2>8, <2>9, <2>10
<1>3. n \in P
  <2> HIDE DEF P
  <2>1. Nat \subseteq P
    BY <1>1, <1>2, Inductive
  <2> QED BY <2>1
<1>4. Even(F(n), (r + n) % ShardCount)
  BY <1>3
<1>5. \A s \in Shards : g[s] = F(n)[s]
  OBVIOUS
<1> HIDE DEF F
<1> QED BY <1>4, <1>5 DEF Even

(* Every step keeps Turn.                                                   *)
LEMMA TurnStep ==
  ASSUME IndInv, Next
  PROVE  Turn'
<1>0. TypeOK /\ RingOK /\ Turn
  BY DEF IndInv
<1>k. ASSUME UNCHANGED <<policy, keyed, spread>>,
                         started' # "down" => started # "down" /\ rr' = rr PROVE Turn'
  BY <1>0, <1>k DEF Turn, Even
<1>1. ASSUME NEW conf \in Configs, NEW pts
               \in PointSpace, StartEngine(conf.routing, conf.empty, pts) PROVE Turn'
  <2>1. spread' = [s \in Shards |-> 0] /\ rr' = rr
    BY <1>1 DEF StartEngine, Start
  <2>2. rr \in Shards /\ Shards \subseteq Int
    BY <1>0, Types, Sizes DEF Shards
  <2>3. \A s \in Shards : ~InRange(rr, rr, s)
    BY <2>2 DEF InRange
  <2>4. \A s \in Shards : spread'[s] = 0 + (IF InRange(rr, rr, s) THEN 1 ELSE 0)
    BY <2>1, <2>3
  <2>5. Even(spread', rr')
    BY <2>1, <2>2, <2>4 DEF Even
  <2>6. \A s, t \in Shards : spread'[s] - spread'[t] <= 1
    BY <2>1
  <2>7. Even(spread, rr)'
    BY <2>5 DEF Even, InRange
  <2> QED BY <2>6, <2>7 DEF Turn
<1>2. ASSUME NEW c \in Callers, NEW msgs, NEW shards, Posted(c, msgs, shards) PROVE Turn'
  <2> SUFFICES ASSUME policy' = "round_robin", ~keyed'
               PROVE  /\ \A s, t \in Shards : spread'[s] - spread'[t] <= 1
                      /\ Even(spread', rr')
    BY DEF Turn, Even, InRange
  <2>1. /\ keyed' = (keyed \/ \E i \in DOMAIN msgs : ~Empty(msgs[i]))
        /\ spread' = [s \in Shards |->
                        spread[s] + Cardinality({i \in DOMAIN msgs : Empty(msgs[i]) /\ shards[i] = s})]
    BY <1>2 DEF Posted, Note
  <2>2. started # "down" /\ policy' = policy
    BY <1>0, <1>2, DispatchFrame DEF config
  <2>3. msgs \in Seq(Records) /\ DOMAIN msgs = 1..Len(msgs) /\ Len(msgs) \in Nat
    BY <1>2 DEF Posted
  <2>4. \A i \in 1..Len(msgs) : Empty(msgs[i])
    BY <2>1, <2>3
  <2>5. (\A i \in 1..Len(msgs) : shards[i] = (rr + (i - 1)) % ShardCount)
        /\ rr' = (rr + Len(msgs)) % ShardCount
    BY <1>2, <2>2, <2>4 DEF Posted
  <2>6. rr' \in Shards /\ rr \in Shards /\ spread \in [Shards -> Nat]
    BY <1>0, <1>2, Types DEF Posted
  <2>7. Even(spread, rr)
    BY <1>0, <2>1, <2>2 DEF Turn
  <2>8. ASSUME NEW s \in Shards PROVE spread'[s] = spread[s] + Share(shards, Len(msgs), s)
    <3>1. {i \in DOMAIN msgs : Empty(msgs[i]) /\ shards[i] = s}
            = {i \in 1..Len(msgs) : shards[i] = s}
      BY <2>3, <2>4
    <3> QED BY <2>1, <3>1 DEF Share
  <2>9. PICK n \in Nat : n = Len(msgs)
    BY <2>3
  <2>10. PICK g, r2 : g = spread' /\ r2 = rr'
    OBVIOUS
  <2>11. Even(g, (rr + n) % ShardCount)
    BY <2>5, <2>6, <2>7, <2>8, <2>9, <2>10, BatchTurns
  <2>12. Even(g, r2) /\ r2 \in Shards
    BY <2>5, <2>6, <2>9, <2>10, <2>11
  <2>13. \A s, t \in Shards : g[s] - g[t] <= 1
    BY <2>12, EvenDiffers
  <2> QED BY <2>10, <2>12, <2>13
<1>3. ASSUME UNCHANGED clientVars, NEW s \in Shards, Deliver(s) PROVE Turn'
  <2>1. UNCHANGED <<policy, keyed, spread, started, rr>>
    BY <1>0, <1>3, DeliverFrame DEF config, clientVars
  <2> QED BY <1>k, <2>1
<1>4. ASSUME UNCHANGED clientVars, NEW s \in Shards, NEW c \in Callers, NEW failed
               \in BOOLEAN, Answer(c, s, failed)
      PROVE  Turn'
  <2>1. UNCHANGED <<policy, keyed, spread, started, rr>>
    BY <1>4 DEF Answer, config, clientVars
  <2> QED BY <1>k, <2>1
<1>5. ASSUME UNCHANGED clientVars, NEW s \in Shards, NEW n \in 1..Len(queue[s]), Flush(s, n)
      PROVE Turn'
  <2>1. UNCHANGED <<policy, keyed, spread, started, rr>>
    BY <1>5 DEF Flush, config, clientVars
  <2> QED BY <1>k, <2>1
<1>6. ASSUME UNCHANGED clientVars, EngineCrash PROVE Turn'
  <2>1. UNCHANGED <<policy, keyed, spread>> /\ started' = "down"
    BY <1>6 DEF EngineCrash, config, clientVars
  <2> QED BY <1>k, <2>1
<1>7. ASSUME Quiet PROVE Turn'
  <2>1. UNCHANGED <<policy, keyed, spread, rr>> /\ (started = "down" => started' = "down")
    BY <1>7 DEF Quiet, config, clientVars
  <2> QED BY <1>k, <2>1
<1> QED BY <1>0, <1>1, <1>2, <1>3, <1>4, <1>5, <1>6, <1>7, NextCases

-----------------------------------------------------------------------------
(* The engine starts with nothing sent.                                     *)
LEMMA Initially ==
  ASSUME Init
  PROVE  IndInv
<1>1. /\ points = [p \in (0..ShardCount) \X Vnodes |-> 0] /\ ring = <<>> /\ policy = "local"
         /\ rr = 0
      /\ started = "down" /\ writer = [s \in Shards |-> "gone"] /\ inbox = [s \in Shards |-> <<>>]
      /\ queue = [s \in Shards |-> <<>>] /\ log = [s \in Shards |-> <<>>]
         /\ call = [c \in Callers |-> NoCall]
      /\ faults = 0 /\ dropped = {} /\ sent = 0 /\ held = [c \in Callers |-> {}]
      /\ spread = [s \in Shards |-> 0] /\ keyed = FALSE /\ starts = 0
  BY DEF Init, EngineInit
<1>2. 0 \in Shards /\ 0 \in Hashes
  BY Sizes DEF Shards, Hashes
<1>3. RingOK
  <2>1. points \in PointSpace
    BY <1>1, <1>2 DEF PointSpace
  <2> QED BY <1>1, <2>1 DEF RingOK
<1>4. EngineTypeOK
  <2>1. "local" \in Policies
    BY DEF Policies
  <2>2. NoCall \in [pc : {"idle", "waiting", "ok", "failed"}, left : SUBSET Shards, bad : BOOLEAN]
    BY DEF NoCall
  <2>3. /\ inbox \in [Shards -> Seq([caller : Callers, msgs : Seq(Records)])]
        /\ queue \in [Shards -> Seq(Records)] /\ log \in [Shards -> Seq(Records)]
        /\ ring \in Seq([hash : Hashes, shard : Shards])
    BY <1>1
  <2>4. faults \in 0..MaxFaults /\ dropped \in SUBSET Records
    BY <1>1, Sizes
  <2>5. writer \in [Shards -> {"up", "stopping", "stopped", "gone"}]
    BY <1>1
  <2> QED BY <1>1, <1>2, <1>3, <2>1, <2>2, <2>3, <2>4, <2>5 DEF EngineTypeOK, RingOK
<1>5. TypeOK
  <2>1. sent \in 0..MaxRecords /\ starts \in 0..MaxStarts
    BY <1>1, Sizes
  <2>2. held \in [Callers -> SUBSET Records] /\ spread \in [Shards -> Nat] /\ keyed \in BOOLEAN
    BY <1>1
  <2> QED BY <1>4, <2>1, <2>2 DEF TypeOK
<1>6. \A s \in Shards : Accepted(s) = <<>> /\ inbox[s] = <<>>
  <2>1. <<>> \o <<>> = <<>>
    <3>1. <<>> \in Seq({})
      OBVIOUS
    <3> QED BY <3>1, ConcatEmptySeq
  <2> QED BY <1>1, <2>1 DEF Accepted
<1>7. \A s \in Shards : \A m : ~Has(s, m)
  BY <1>6 DEF Has
<1>8. Calls
  BY <1>1 DEF Calls, NoCall
<1>9. Mail /\ CallerOrder
  BY <1>6 DEF Mail, CallerOrder
<1>10. Numbered /\ Disjoint /\ Placed
  BY <1>1, <1>7 DEF Numbered, Disjoint, Placed
<1>11. Routed
  BY <1>1, <1>7 DEF Routed
<1>12. Turn
  BY <1>1 DEF Turn
<1> QED BY <1>3, <1>5, <1>8, <1>9, <1>10, <1>11, <1>12 DEF IndInv

(* Nothing happens.                                                         *)
LEMMA Stutter ==
  ASSUME IndInv, UNCHANGED vars
  PROVE  IndInv'
<1> USE DEF vars, engineVars, clientVars, config
<1>1. TypeOK' /\ RingOK'
  BY DEF IndInv, TypeOK, EngineTypeOK, RingOK
<1>2. Calls'
  BY DEF IndInv, Calls
<1>a. ASSUME NEW s \in Shards PROVE (Accepted(s))' = Accepted(s)
  BY DEF Accepted
<1>b. CallerOrder'
  BY <1>a DEF IndInv, CallerOrder
<1>3. Mail'
  <2>1. ASSUME NEW s \in Shards, NEW e, Letter(s, e) PROVE Letter(s, e)'
    BY <1>a, <2>1 DEF Letter
  <2> QED BY <2>1 DEF IndInv, Mail
<1>4. \A s \in Shards : \A m : Has(s, m)' <=> Has(s, m)
  BY HasSame
<1>5. Numbered' /\ Disjoint' /\ Placed'
  BY <1>4 DEF IndInv, Numbered, Disjoint, Placed
<1>6. Routed'
  BY <1>4 DEF IndInv, Routed, Empty, RouteHash
<1>7. Turn'
  BY DEF IndInv, Turn, Even
<1> QED BY <1>1, <1>2, <1>b, <1>3, <1>5, <1>6, <1>7 DEF IndInv

(* Every state of the engine satisfies the inductive invariant.             *)
THEOREM Invariance == Spec => []IndInv
<1>1. Init => IndInv
  BY Initially
<1>2. IndInv /\ [Next]_vars => IndInv'
  <2> SUFFICES ASSUME IndInv, [Next]_vars PROVE IndInv'
    OBVIOUS
  <2>1. CASE Next
    <3>1. TypeOK /\ RingOK
      BY DEF IndInv
    <3>2. TypeOK' /\ RingOK'
      BY <2>1, <3>1, TypeStep
    <3> QED BY <2>1, <3>2, CallsStep, MailStep, OrderStep, NumberedStep, DisjointStep, PlacedStep,
               RoutedStep, TurnStep DEF IndInv
  <2>2. CASE UNCHANGED vars
    BY <2>2, Stutter
  <2> QED BY <2>1, <2>2
<1> QED BY <1>1, <1>2, PTL DEF Spec

(* The variables keep their types; the counter and every route stay within  *)
(* the shards.                                                              *)
THEOREM TypeCorrect == Spec => []TypeOK
<1>1. IndInv => TypeOK
  BY DEF IndInv
<1> QED BY <1>1, Invariance, PTL

(* A shard has each caller's records in the order they were sent, whichever *)
(* cores the calls travelled between (log_engine.cc:161-197).               *)
THEOREM CallersInOrder == Spec => []CallerOrder
<1>1. IndInv => CallerOrder
  BY DEF IndInv
<1> QED BY <1>1, Invariance, PTL

(* The ring looks up the nearest virtual node going up and round, and one   *)
(* more shard takes keys over without moving any between the old ones       *)
(* (routing.cc:39-85).                                                      *)
THEOREM LookupIsNearest == Spec => []RingLookup
<1>1. IndInv => RingLookup
  <2> SUFFICES ASSUME RingOK, ring # <<>> PROVE NearestServes(ring) /\ OnlyToNewShard(points)
    BY DEF IndInv, RingLookup
  <2>1. points \in PointSpace /\ ring = Ring("consistent_hashing", points, ShardCount)
    BY DEF RingOK
  <2>2. ShardCount \in 1..(ShardCount + 1)
    BY Sizes
  <2> QED BY <2>1, <2>2, RingServesNearest, RingGrows
<1> QED BY <1>1, Invariance, PTL

(* Records with one key are on the shard of the key, by append and by every *)
(* path of append_batch; empty keys go round in turn and evenly             *)
(* (log_engine.cc:50-72, 101, 141-159, 221).                                *)
THEOREM RoutedByKeyOrTurn == Spec => []WellRouted
<1>1. IndInv => WellRouted
  <2> SUFFICES ASSUME TypeOK, Routed, Turn PROVE WellRouted
    BY DEF IndInv
  <2>1. ASSUME starts = 1, NEW s \in Shards, NEW i \in DOMAIN Accepted(s), ~Empty(Accepted(s)[i])
        PROVE  s = RouteToShard(Accepted(s)[i].key, s, rr)
    <3>1. PICK m : m = Accepted(s)[i]
      OBVIOUS
    <3>2. m \in Records /\ Has(s, m)
      BY <3>1, AcceptedType DEF Has
    <3>3. s = RouteHash(ring, KeyHash[m.key])
      BY <2>1, <3>1, <3>2 DEF Routed
    <3> QED BY <2>1, <3>1, <3>3 DEF RouteToShard, Empty
  <2> QED BY <2>1 DEF WellRouted, Turn
<1> QED BY <1>1, Invariance, PTL

(* No record is on two shards or twice on one, and when append_batch        *)
(* returned without an error every record of the call is on a shard, or was *)
(* dropped by one that was stopping (log_engine.cc:183-197).                *)
THEOREM PlacedOnce == Spec => []OkMeansPlaced
<1>1. IndInv => OkMeansPlaced
  <2> SUFFICES ASSUME IndInv, NEW c \in Callers, NEW m \in held[c]
               PROVE  /\ \A p, q \in Places(m) : p = q
                      /\ call[c].pc = "ok" => m \in dropped \/ Places(m) # {}
    BY DEF OkMeansPlaced
  <2>0. TypeOK /\ Calls /\ Mail /\ CallerOrder /\ Numbered /\ Disjoint /\ Placed
    BY DEF IndInv
  <2>1. m \in Records /\ m.from = c /\ m.id \in Int
    BY <2>0, Types, Sizes DEF Numbered, RecordSet
  <2>2. \A p \in Places(m) : \E s \in Shards : \E i \in DOMAIN Accepted(s) : p = <<s, i>>
        /\ Accepted(s)[i] = m
    BY DEF Places
  <2>3. \A s \in Shards : \A i \in DOMAIN Accepted(s) : Accepted(s)[i] = m => <<s, i>> \in Places(m)
    BY DEF Places
  <2>4. ASSUME NEW p \in Places(m), NEW q \in Places(m) PROVE p = q
    <3>a. PICK s \in Shards : \E i \in DOMAIN Accepted(s) : p = <<s, i>> /\ Accepted(s)[i] = m
      BY <2>2
    <3>1. PICK i \in DOMAIN Accepted(s) : p = <<s, i>> /\ Accepted(s)[i] = m
      BY <3>a
    <3>b. PICK t \in Shards : \E j \in DOMAIN Accepted(t) : q = <<t, j>> /\ Accepted(t)[j] = m
      BY <2>2
    <3>2. PICK j \in DOMAIN Accepted(t) : q = <<t, j>> /\ Accepted(t)[j] = m
      BY <3>b
    <3>3. s = t
      BY <2>0, <2>1, <3>1, <3>2 DEF Has, Disjoint
    <3>4. i \in Int /\ j \in Int
      BY <2>0, AcceptedType
    <3>5. ~ (i < j) /\ ~ (j < i)
      BY <2>0, <2>1, <3>1, <3>2, <3>3 DEF CallerOrder
    <3> QED BY <3>1, <3>2, <3>3, <3>4, <3>5
  <2>5. ASSUME call[c].pc = "ok", m \notin dropped PROVE Places(m) # {}
    <3>1. PICK s \in Shards : Has(s, m)
      BY <2>0, <2>5 DEF Placed, Calls
    <3>2. ASSUME NEW i \in DOMAIN inbox[s], NEW k \in DOMAIN inbox[s][i].msgs, inbox[s][i].msgs[k]
                   = m PROVE FALSE
      <4>1. call[inbox[s][i].caller].pc = "waiting" /\ m.from = inbox[s][i].caller
        BY <2>0, <3>2 DEF Mail, Letter
      <4> QED BY <2>1, <2>5, <4>1
    <3> QED BY <2>3, <3>1, <3>2 DEF Has
  <2> QED BY <2>4, <2>5
<1> QED BY <1>1, Invariance, PTL

-----------------------------------------------------------------------------
(* Records at the end of the queue are an Accept of ShardLog, no records    *)
(* are no step.                                                             *)
LEMMA AcceptsOrIdles ==
  ASSUME NEW s \in Shards, log'[s] = log[s], queue[s] \in Seq(Records), NEW q \in Seq(Records),
         queue'[s] = queue[s] \o q
  PROVE  [Shard(s)!Next]_<<log[s], queue[s]>>
<1>1. CASE q = <<>>
  <2>1. queue'[s] = queue[s]
    BY <1>1, ConcatEmptySeq
  <2> QED BY <2>1
<1>2. CASE q # <<>>
  <2>1. Len(q) > 0 /\ Len(queue[s]) \in Nat /\ Len(q) \in Nat
    BY <1>2
  <2>2. /\ queue'[s] \in Seq(Records) /\ Len(queue'[s]) = Len(queue[s]) + Len(q)
        /\ \A i \in 1..(Len(queue[s]) + Len(q)) :
             queue'[s][i] = IF i <= Len(queue[s]) THEN queue[s][i] ELSE q[i - Len(queue[s])]
    BY ConcatProperties
  <2>3. SubSeq(queue'[s], 1, Len(queue[s])) = queue[s]
    <3> DEFINE a == SubSeq(queue'[s], 1, Len(queue[s]))
    <3>1. a = [i \in 1..Len(queue[s]) |-> queue'[s][i]]
      BY <2>1, <2>2
    <3>2. \A i \in 1..Len(queue[s]) : queue'[s][i] = queue[s][i]
      BY <2>1, <2>2
    <3>3. queue[s] = [i \in 1..Len(queue[s]) |-> queue[s][i]]
      OBVIOUS
    <3> QED BY <3>1, <3>2, <3>3
  <2>4. Len(queue'[s]) > Len(queue[s])
    BY <2>1, <2>2
  <2> QED BY <2>3, <2>4 DEF Shard!Next, Shard!Accept
<1> QED BY <1>1, <1>2

(* Every step of the engine is a step of ShardLog on each shard.            *)
LEMMA ShardSteps ==
  ASSUME IndInv, [Next]_vars, NEW s \in Shards
  PROVE  [Shard(s)!Next]_<<log[s], queue[s]>>
<1>0. TypeOK /\ RingOK /\ queue[s] \in Seq(Records) /\ log[s] \in Seq(Records)
  BY Types DEF IndInv
<1>k. ASSUME UNCHANGED <<log, queue>> PROVE [Shard(s)!Next]_<<log[s], queue[s]>>
  BY <1>k
<1>1. ASSUME NEW conf \in Configs, NEW pts
               \in PointSpace, StartEngine(conf.routing, conf.empty, pts)
      PROVE  [Shard(s)!Next]_<<log[s], queue[s]>>
  BY <1>k, <1>1 DEF StartEngine, Start
<1>2. ASSUME NEW c \in Callers, NEW msgs, NEW shards, Posted(c, msgs, shards)
      PROVE  [Shard(s)!Next]_<<log[s], queue[s]>>
  <2>1. log' = log
    BY <1>0, <1>2, DispatchFrame
  <2>2. PICK part : part = PartFor(msgs, shards, s)
    OBVIOUS
  <2>3. part \in Seq(Records) /\ queue'[s] = IF s = Home[c]
        /\ Accepts(s) THEN queue[s] \o part ELSE queue[s]
    <3>1. /\ part \in Seq(Records)
          /\ queue'[s] = IF s = Home[c] /\ Accepts(s) THEN queue[s] \o part ELSE queue[s]
          /\ inbox'[s] = IF s # Home[c]
             /\ part # <<>> THEN Append(inbox[s], [caller |-> c, msgs |-> part])
                         ELSE inbox[s]
          /\ s = Home[c] /\ ~Accepts(s) => dropped' = dropped \cup ToSet(part)
      BY <1>0, <1>2, <2>2, DispatchParts
    <3> QED BY <3>1
  <2>4. CASE s = Home[c] /\ Accepts(s)
    BY <1>0, <2>1, <2>3, <2>4, AcceptsOrIdles
  <2>5. CASE ~ (s = Home[c] /\ Accepts(s))
    BY <2>1, <2>3, <2>5
  <2> QED BY <2>4, <2>5
<1>3. ASSUME NEW t \in Shards, Deliver(t) PROVE [Shard(s)!Next]_<<log[s], queue[s]>>
  <2>1. /\ inbox[t] # <<>> /\ log' = log
        /\ queue' = IF Accepts(t) THEN [queue EXCEPT ![t] = queue[t] \o inbox[t][1].msgs] ELSE queue
    BY <1>0, <1>3, DeliverFrame
  <2>2. PICK q \in Seq(Records) : q = inbox[t][1].msgs
    BY <1>0, <2>1, InboxHead
  <2>3. CASE s = t /\ Accepts(t)
    <3>1. queue'[s] = queue[s] \o q
      BY <1>0, <2>1, <2>2, <2>3, Types
    <3> QED BY <1>0, <2>1, <3>1, AcceptsOrIdles
  <2>4. CASE ~ (s = t /\ Accepts(t))
    <3>1. queue'[s] = queue[s]
      BY <1>0, <2>1, <2>4, Types
    <3> QED BY <2>1, <3>1
  <2> QED BY <2>3, <2>4
<1>4. ASSUME NEW t \in Shards, NEW c \in Callers, NEW failed \in BOOLEAN, Answer(c, t, failed)
      PROVE  [Shard(s)!Next]_<<log[s], queue[s]>>
  BY <1>k, <1>4 DEF Answer
<1>5. ASSUME NEW t \in Shards, NEW n \in 1..Len(queue[t]), Flush(t, n)
      PROVE  [Shard(s)!Next]_<<log[s], queue[s]>>
  <2>1. /\ log' = [log EXCEPT ![t] = log[t] \o SubSeq(queue[t], 1, n)]
        /\ queue' = [queue EXCEPT ![t] = SubSeq(queue[t], n + 1, Len(queue[t]))]
    BY <1>5 DEF Flush
  <2>2. CASE s = t
    <3>1. log'[s] = log[s] \o SubSeq(queue[s], 1, n)
          /\ queue'[s] = SubSeq(queue[s], n + 1, Len(queue[s]))
      BY <1>0, <2>1, <2>2, Types
    <3> QED BY <1>5, <2>2, <3>1 DEF Shard!Next, Shard!Persist
  <2>3. CASE s # t
    BY <2>1, <2>3
  <2> QED BY <2>2, <2>3
<1>6. ASSUME EngineCrash PROVE [Shard(s)!Next]_<<log[s], queue[s]>>
  <2>1. log' = log /\ queue'[s] = <<>>
    BY <1>6 DEF EngineCrash
  <2>2. SubSeq(queue[s], 1, 0) = <<>> /\ log[s] \o <<>> = log[s]
    BY <1>0, ConcatEmptySeq
  <2>3. 0 \in 0..Len(queue[s])
    BY <1>0
  <2>4. log'[s] = log[s] \o SubSeq(queue[s], 1, 0)
    BY <2>1, <2>2
  <2> QED BY <2>1, <2>3, <2>4 DEF Shard!Next, Shard!Crash
<1>7. ASSUME Quiet PROVE [Shard(s)!Next]_<<log[s], queue[s]>>
  BY <1>k, <1>7 DEF Quiet
<1>8. ASSUME UNCHANGED vars PROVE [Shard(s)!Next]_<<log[s], queue[s]>>
  BY <1>k, <1>8 DEF vars, engineVars
<1> QED BY <1>0, <1>1, <1>2, <1>3, <1>4, <1>5, <1>6, <1>7, <1>8, NextCases

(* Each shard, as the engine takes it, refines ShardLog: the module that    *)
(* the append path of one shard (AsyncWriter) is checked against.           *)
THEOREM EveryShardIsAShardLog == Spec => ShardsAreShardLogs
<1>1. Init => \A s \in Shards : Shard(s)!Init
  BY DEF Init, EngineInit, Shard!Init
<1>2. IndInv /\ [Next]_vars
        => [\A s \in Shards : [Shard(s)!Next]_<<log[s], queue[s]>>]_<<log, queue>>
  BY ShardSteps
<1> QED BY <1>1, <1>2, Invariance, PTL DEF Spec, ShardsAreShardLogs
=============================================================================
