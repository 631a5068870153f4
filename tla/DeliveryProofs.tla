--------------------------- MODULE DeliveryProofs ---------------------------
(****************************************************************************)
(* Proofs about the delivery of a shard's records: for any number of        *)
(* workers, records, rotations, faults and restarts, the stored offset      *)
(* passes over no record that the sink did not acknowledge unless a scan    *)
(* missed it, it never goes back, and what is sent again is the last batch. *)
(* IndInv is the inductive invariant; it follows a batch from the scan that *)
(* reads it to the offset that passes it.                                   *)
(****************************************************************************)
EXTENDS Delivery, FiniteSetTheorems, TLAPS

-----------------------------------------------------------------------------
(* What the assumption about the options says of each of them, and that the *)
(* sequence numbers are finitely many naturals.                             *)
LEMMA Options ==
  /\ MaxRecords \in Nat
  /\ SinkBatchSize \in Nat \ {0}
  /\ MaxArchived \in Nat \ {0}
  /\ Record \subseteq Nat
  /\ \A r \in Record : r < MaxRecords
  /\ IsFiniteSet(Record)
<1>1. MaxRecords \in Nat /\ SinkBatchSize \in Nat \ {0} /\ MaxArchived \in Nat \ {0}
  BY OptionsAssumption
<1>2. Record \subseteq Nat /\ \A r \in Record : r < MaxRecords
  BY <1>1 DEF Record
<1>3. MaxRecords - 1 \in Int
  BY <1>1
<1>4. IsFiniteSet(Record)
  BY <1>3, FS_Interval DEF Record
<1> QED
  BY <1>1, <1>2, <1>4

(* The order of the naturals as a relation, for the library's theorems on   *)
(* well-founded relations.                                                  *)
Less == {p \in Nat \X Nat : p[1] < p[2]}

(* A set of naturals that is not empty has a least element.                 *)
LEMMA LeastNatural ==
  ASSUME NEW S \in SUBSET Nat, S # {}
  PROVE  \E x \in S : \A y \in S : x <= y
<1>1. OpToRel(<, Nat) = Less
  BY DEF OpToRel, Less
<1>2. IsWellFoundedOn(Less, Nat)
  BY <1>1, NatLessThanWellFounded
<1>3. PICK x \in S : \A y \in S : ~(<<y, x>> \in Less)
  BY <1>2, WFMin
<1>4. \A y \in S : y < x => <<y, x>> \in Less
  BY DEF Less
<1>5. \A y \in S : ~(y < x)
  BY <1>3, <1>4
<1>6. \A y \in S : x <= y
  BY <1>5
<1> QED
  BY <1>6

(* Smallest, by which a scan picks the oldest listed archive, is the least  *)
(* of the set (list_segments sorts them, log_layout.cc).                    *)
LEMMA SmallestProperties ==
  ASSUME NEW S \in SUBSET Nat, S # {}
  PROVE  Smallest(S) \in S /\ \A x \in S : Smallest(S) <= x
BY LeastNatural DEF Smallest

(* Largest is the greatest element of a set of sequence numbers.            *)
LEMMA LargestProperties ==
  ASSUME NEW S \in SUBSET Record, S # {}
  PROVE  Largest(S) \in S /\ \A x \in S : x <= Largest(S)
<1> DEFINE Bounds == {u \in Nat : \A x \in S : x <= u}
<1>1. S \subseteq Nat /\ MaxRecords \in Nat
  BY OptionsAssumption DEF Record
<1>2. MaxRecords \in Bounds
  BY <1>1 DEF Record
<1> HIDE DEF Bounds
<1>3. PICK u \in Bounds : \A v \in Bounds : u <= v
  <2>1. Bounds \in SUBSET Nat
    BY DEF Bounds
  <2> QED
    BY <2>1, <1>2, LeastNatural
<1> USE DEF Bounds
<1>4. u \in S
  <2>1. SUFFICES ASSUME u \notin S PROVE FALSE
    OBVIOUS
  <2>2. PICK x \in S : TRUE
    OBVIOUS
  <2>3. u - 1 \in Nat
    BY <1>1, <2>1, <2>2
  <2>4. \A y \in S : y <= u - 1
    BY <1>1, <2>1
  <2> QED
    BY <2>3, <2>4, <1>3
<1>5. \E x \in S : \A y \in S : y <= x
  BY <1>3, <1>4
<1> QED
  BY <1>5 DEF Largest

(* next_sequence of a batch is one more than its last record                *)
(* (build_delivery_batch_from_records).                                     *)
LEMMA NextOfProperties ==
  ASSUME NEW b \in SUBSET Record, b # {}
  PROVE  /\ NextOf(b) \in 1..MaxRecords
         /\ \E r \in b : NextOf(b) = r + 1
         /\ \A r \in b : r < NextOf(b)
<1>1. Largest(b) \in b /\ \A r \in b : r <= Largest(b)
  BY LargestProperties
<1>2. b \subseteq Nat /\ \A r \in b : r < MaxRecords
  BY Options
<1>3. Largest(b) \in Nat /\ Largest(b) < MaxRecords /\ MaxRecords \in Nat
  BY <1>1, <1>2, Options
<1>4. \A r \in b : r < Largest(b) + 1
  BY <1>1, <1>2, <1>3
<1> QED
  BY <1>1, <1>3, <1>4 DEF NextOf

(* Sets of records are finite, so that a scan can count what it has.        *)
LEMMA FiniteRecords ==
  ASSUME NEW S \in SUBSET Record
  PROVE  IsFiniteSet(S) /\ Cardinality(S) \in Nat
BY Options, FS_Subset, FS_CardinalityType

(* The records of S that a scan meets before r.                             *)
Below(S, r) == {q \in S : q < r}

(* The records with fewer than k others before them are the first k of a    *)
(* segment, or all of it: the limit of read_records_from_segments_async     *)
(* takes a prefix, and cuts it only when it is full.                        *)
LEMMA FirstRecords ==
  ASSUME NEW S \in SUBSET Record, NEW k \in Nat \ {0}, NEW F,
         \A r : r \in F <=> r \in S /\ Cardinality(Below(S, r)) < k
  PROVE  /\ \A r \in F, q \in S \ F : r < q
         /\ Cardinality(F) <= k
         /\ F # S => Cardinality(F) = k
<1>1. S \subseteq Nat /\ F \in SUBSET Record /\ F \subseteq S
  BY Options
<1>2. \A r : Below(S, r) \in SUBSET Record
  BY DEF Below
<1>3. \A r : Cardinality(Below(S, r)) \in Nat /\ IsFiniteSet(Below(S, r))
  BY <1>2, FiniteRecords
<1>4. Cardinality(F) \in Nat
  BY <1>1, FiniteRecords
<1>5. ASSUME NEW r \in F, NEW q \in S \ F PROVE r < q
  <2>0. r \in Nat /\ q \in Nat /\ r # q
    BY <1>1
  <2>1. SUFFICES ASSUME q < r PROVE FALSE
    BY <2>0
  <2>2. Below(S, q) \subseteq Below(S, r)
    <3>1. ASSUME NEW z \in S, z < q PROVE z < r
      BY <3>1, <2>0, <2>1, <1>1
    <3> QED
      BY <3>1 DEF Below
  <2>3. Cardinality(Below(S, q)) <= Cardinality(Below(S, r))
    BY <2>2, <1>3, FS_Subset
  <2>4. Cardinality(Below(S, r)) < k /\ ~(Cardinality(Below(S, q)) < k)
    OBVIOUS
  <2> QED
    BY <2>3, <2>4, <1>3
<1>6. Cardinality(F) <= k
  <2>1. CASE F = {}
    BY <2>1, FS_EmptySet
  <2>2. CASE F # {}
    <3>1. PICK x \in F : \A r \in F : r <= x
      BY <2>2, <1>1, LargestProperties
    <3>2. \A r : r \in F <=> r \in Below(S, x) \/ r = x
      <4>1. ASSUME NEW r \in F PROVE r \in Below(S, x) \/ r = x
        BY <3>1, <1>1 DEF Below
      <4>2. ASSUME NEW r \in Below(S, x) PROVE r \in F
        <5>1. r \in S /\ r < x /\ r \in Nat /\ x \in Nat
          BY <1>1, <3>1 DEF Below
        <5>2. r \notin F => x < r
          BY <5>1, <1>5, <3>1
        <5> QED
          BY <5>1, <5>2
      <4> QED
        BY <4>1, <4>2, <3>1
    <3>3. F = Below(S, x) \cup {x}
      BY <3>2
    <3>4. x \notin Below(S, x)
      BY <1>1, <3>1 DEF Below
    <3>5. Cardinality(F) = Cardinality(Below(S, x)) + 1
      BY <3>3, <3>4, <1>3, FS_AddElement
    <3>6. Cardinality(Below(S, x)) < k
      BY <3>1
    <3> QED
      BY <3>5, <3>6, <1>3
  <2> QED
    BY <2>1, <2>2
<1>7. ASSUME F # S PROVE Cardinality(F) >= k
  <2>1. S \ F # {} /\ S \ F \in SUBSET Nat
    BY <1>7, <1>1
  <2>2. PICK q \in S \ F : \A r \in S \ F : q <= r
    BY <2>1, LeastNatural
  <2>3. \A r : r \in Below(S, q) <=> r \in F
    <3>1. ASSUME NEW r \in F PROVE r \in Below(S, q)
      BY <1>1, <1>5, <2>2 DEF Below
    <3>2. ASSUME NEW r \in Below(S, q) PROVE r \in F
      <4>1. r \in S /\ r < q /\ r \in Nat /\ q \in Nat
        BY <1>1, <2>2 DEF Below
      <4>2. r \notin F => q <= r
        BY <4>1, <2>2
      <4> QED
        BY <4>1, <4>2
    <3> QED
      BY <3>1, <3>2
  <2>4. Below(S, q) = F
    BY <2>3
  <2>5. ~(Cardinality(Below(S, q)) < k)
    BY <2>2
  <2> QED
    BY <2>4, <2>5, <1>4
<1> QED
  BY <1>4, <1>5, <1>6, <1>7

(* What one segment adds to a scan: its new records from the first on, at   *)
(* most up to the batch size, and all of them if the batch is not full.     *)
LEMMA MatchingProperties ==
  ASSUME records \in SUBSET Record, NEW segment \in SUBSET Record,
         Cardinality(records) < SinkBatchSize,
         records \cap segment = {}
  PROVE  /\ Matching(segment) \subseteq New(segment)
         /\ New(segment) \subseteq segment
         /\ \A r \in Matching(segment), q \in New(segment) \ Matching(segment) : r < q
         /\ Cardinality(records \cup Matching(segment)) <= SinkBatchSize
         /\ Cardinality(records \cup Matching(segment)) # SinkBatchSize
            => Matching(segment) = New(segment)
<1> DEFINE N == New(segment)
           M == Matching(segment)
           c == Cardinality(records)
<1>1. N \in SUBSET Record /\ N \subseteq segment
  BY DEF New
<1>2. c \in Nat /\ SinkBatchSize \in Nat /\ c < SinkBatchSize /\ IsFiniteSet(records)
  BY FiniteRecords, Options
<1>3. \A r : r \in M <=> r \in N /\ c + Cardinality(Below(N, r)) < SinkBatchSize
  BY DEF Matching, Below
<1> HIDE DEF N, M, c
<1>4. \A r : Cardinality(Below(N, r)) \in Nat
  <2>1. \A r : Below(N, r) \in SUBSET Record
    BY <1>1 DEF Below
  <2> QED
    BY <2>1, FiniteRecords
<1>5. \A r : r \in M <=> r \in N /\ Cardinality(Below(N, r)) < SinkBatchSize - c
  BY <1>2, <1>3, <1>4
<1>6. SinkBatchSize - c \in Nat \ {0}
  BY <1>2
<1>7. /\ \A r \in M, q \in N \ M : r < q
      /\ Cardinality(M) <= SinkBatchSize - c
      /\ M # N => Cardinality(M) = SinkBatchSize - c
  BY <1>1, <1>5, <1>6, FirstRecords
<1>8. M \subseteq N /\ IsFiniteSet(M) /\ Cardinality(M) \in Nat
  BY <1>1, <1>5, FiniteRecords
<1>9. Cardinality(records \cup M) = c + Cardinality(M)
  <2>1. records \cap M = {}
    BY <1>1, <1>8
  <2>2. Cardinality(records \cap M) = 0
    BY <2>1, FS_EmptySet
  <2>3. Cardinality(records \cup M) = c + Cardinality(M) - Cardinality(records \cap M)
    BY <1>2, <1>8, FS_Union DEF c
  <2> QED
    BY <2>2, <2>3, <1>2, <1>8
<1>10. /\ Cardinality(records \cup M) <= SinkBatchSize
       /\ Cardinality(records \cup M) # SinkBatchSize => M = N
  BY <1>2, <1>7, <1>8, <1>9
<1> QED
  BY <1>1, <1>7, <1>8, <1>10 DEF N, M, c

-----------------------------------------------------------------------------
(* Records the scanner owes nothing: acknowledged by the sink, or missed.   *)
Handled == acked \cup missed

(* The scanner has loaded its files and not left its loop.                  *)
InLoop == scanner \in {"loop", "read", "sleep", "store", "submit", "await",
                       "offset", "remove", "failed"}

(* The writer's order: sequence numbers grow from segment to segment and    *)
(* stay below the next one.                                                 *)
LogOrder ==
  /\ \A i \in DOMAIN archives : \A r \in archives[i] : r < written
  /\ \A r \in active : r < written
  /\ \A i, j \in DOMAIN archives : i < j => \A r \in archives[i], q \in archives[j] : r < q
  /\ \A i \in DOMAIN archives : \A r \in archives[i], q \in active : r < q

(* Passing over everything below n skips no record that is owed.            *)
Passed(n) == n <= written /\ \A r \in OnDisk : r < n => r \in Handled

(* b is a batch that may be sent now: it starts at or after the stored      *)
(* offset or it ends there, and passing its end skips nothing but its own   *)
(* records and records that are handled.                                    *)
Batch(b) ==
  b # {} =>
    /\ (\A r \in b : r >= offset_file) \/ NextOf(b) = offset_file
    /\ \A r \in b : r < written
    /\ \A r \in OnDisk : r < NextOf(b) => r \in b \cup Handled

(* What the two files say at every instant, and so after any crash.         *)
FilesOK == Passed(offset_file) /\ Batch(pending_file)

(* What the scanner's variables say while it is in its loop; the file holds *)
(* its batch or nothing.                                                    *)
LoopOK ==
  InLoop =>
    /\ Passed(next_sequence)
    /\ offset_file <= next_sequence
    /\ Batch(pending)
    /\ pending_file \in {{}, pending}

(* Where there is a batch, and where it has been acknowledged.              *)
Stages ==
  /\ scanner \in {"store", "submit", "await", "offset", "remove"} => pending # {}
  /\ scanner \in {"offset", "remove"} => pending \subseteq acked

(* A scan under way: what it has lies below what it has not read, and a     *)
(* record that it passed over was missed, is in a segment still to come, or *)
(* lies behind all of them.                                                 *)
ScanOK ==
  scanner = "read" =>
    /\ pending = {}
    /\ segments.archived \subseteq DOMAIN archives
    /\ \A r \in records : next_sequence <= r /\ r < written
    /\ Cardinality(records) <= SinkBatchSize
    /\ segments # Nothing => Cardinality(records) < SinkBatchSize
    /\ \A i \in segments.archived : \A r \in archives[i], q \in records : q < r
    /\ segments.active => \A r \in active, q \in records : q < r
    /\ \A r \in OnDisk \ (records \cup Handled) : r >= next_sequence =>
         /\ \A q \in records : q < r
         /\ \/ r \in active
            \/ \E i \in segments.archived : r \in archives[i]
            \/ /\ ~segments.active
               /\ \A i \in segments.archived : \A q \in archives[i] : q < r

(* One batch at most is between the scanner and the sink.                   *)
OneBatch ==
  /\ Len(queue) <= 1
  /\ queue # <<>> => scanner = "await" /\ \A w \in Workers : worker[w] # "deliver"
  /\ \A w \in Workers : worker[w] = "deliver" =>
       scanner = "await" /\ \A v \in Workers : worker[v] = "deliver" => v = w

(* The inductive invariant.                                                 *)
IndInv == TypeOK /\ LogOrder /\ FilesOK /\ LoopOK /\ Stages /\ ScanOK /\ OneBatch

-----------------------------------------------------------------------------
(* A record on disk is in the active segment or in an archive.              *)
LEMMA OnDiskMembers ==
  /\ \A r : r \in OnDisk <=> r \in active \/ \E i \in DOMAIN archives : r \in archives[i]
  /\ \A r : r \in OnDisk' <=> r \in active' \/ \E i \in DOMAIN archives' : r \in (archives[i])'
BY DEF OnDisk

(* The segments hold sequence numbers.                                      *)
LEMMA DiskTypes ==
  ASSUME TypeOK
  PROVE  /\ active \subseteq Nat
         /\ DOMAIN archives \subseteq Nat
         /\ \A i \in DOMAIN archives : archives[i] \in SUBSET Record
         /\ \A i \in DOMAIN archives : \A r \in archives[i] : r \in Nat
<1>1. /\ archives \in Seq(SUBSET Record) /\ active \in SUBSET Record
      /\ Record \subseteq Nat /\ DOMAIN archives = 1..Len(archives) /\ Len(archives) \in Nat
  BY Options DEF TypeOK
<1>2. ASSUME NEW i \in DOMAIN archives PROVE archives[i] \in SUBSET Record
  BY <1>1
<1>3. ASSUME NEW i \in DOMAIN archives, NEW r \in archives[i] PROVE r \in Nat
  BY <1>1, <1>2
<1> QED
  BY <1>1, <1>2, <1>3

(* A record the writer appends lies above every offset and every batch.     *)
LEMMA AppendStep == IndInv /\ Append1 => IndInv'
<1> SUFFICES ASSUME IndInv, Append1 PROVE IndInv'
  OBVIOUS
<1>1. written \in Record /\ written + 1 \in 0..MaxRecords
  BY Options DEF IndInv, TypeOK, Append1, Record
<1>2. TypeOK'
  BY <1>1 DEF IndInv, TypeOK, Append1, fileVars, scanVars, dispatchVars
<1>3. LogOrder'
  <2>1. archives' = archives /\ active' = active \cup {written} /\ written' = written + 1
    BY DEF Append1
  <2>2. written \in Nat /\ active \subseteq Nat
    BY DiskTypes DEF IndInv, TypeOK
  <2>3. \A i \in DOMAIN archives : \A r \in archives[i] : r \in Nat
    BY DiskTypes DEF IndInv
  <2> QED
  BY <2>1, <2>2, <2>3 DEF IndInv, LogOrder
<1>4. OnDisk' = OnDisk \cup {written}
  BY DEF OnDisk, Append1
<1>5. UNCHANGED <<archives, offset_file, pending_file, scanner, next_sequence, pending,
                  segments, records, queue, worker, acked, missed>>
  BY DEF Append1, fileVars, scanVars, dispatchVars
<1>6. written' = written + 1
  BY DEF Append1
<1>7. ASSUME NEW n \in Nat, Passed(n) PROVE n <= written' /\ \A r \in OnDisk' : r < n => r \in Handled'
  BY <1>1, <1>4, <1>5, <1>6, <1>7, Options DEF Passed, Handled, IndInv, TypeOK
<1>8. ASSUME NEW b \in SUBSET Record, Batch(b), b # {}
      PROVE  /\ \A r \in b : r < written'
             /\ \A r \in OnDisk' : r < NextOf(b) => r \in b \cup Handled'
  <2>1. NextOf(b) \in Nat /\ NextOf(b) <= written
    BY <1>8, NextOfProperties, Options DEF Batch, IndInv, TypeOK
  <2> QED
    BY <1>1, <1>4, <1>5, <1>6, <1>8, <2>1, Options DEF Batch, Handled, IndInv, TypeOK
<1>9. FilesOK' /\ LoopOK'
  BY <1>5, <1>7, <1>8, Options DEF IndInv, TypeOK, FilesOK, LoopOK, InLoop, Passed, Batch
<1>10. Stages' /\ OneBatch'
  BY <1>5 DEF IndInv, Stages, OneBatch
<1>11. ScanOK'
  BY <1>1, <1>4, <1>5, <1>6, Options DEF IndInv, TypeOK, ScanOK, Handled, Append1, Nothing
<1> QED
  BY <1>2, <1>3, <1>9, <1>10, <1>11 DEF IndInv

(* rotate_active_file loses only records that cleanup removes from the      *)
(* disk; those of a listed active segment become missed.                    *)
LEMMA RotateStep == IndInv /\ Rotate => IndInv'
<1> SUFFICES ASSUME IndInv, Rotate PROVE IndInv'
  OBVIOUS
<1> DEFINE n == Len(archives) + 1
<1>1. /\ archives \in Seq(SUBSET Record) /\ active \in SUBSET Record
      /\ n \in Nat /\ n >= 1 /\ DOMAIN archives = 1..(n - 1)
      /\ \A i \in 1..(n - 1) : archives[i] \in SUBSET Record
  BY DEF IndInv, TypeOK
<1>2. /\ DOMAIN archives' = 1..n
      /\ \A i \in 1..n : archives'[i] = IF i <= n - MaxArchived THEN {} ELSE IF i = n THEN active ELSE archives[i]
      /\ archives' \in Seq(SUBSET Record)
  <2>1. archives' = [i \in 1..n |-> IF i <= n - MaxArchived THEN {} ELSE IF i = n THEN active ELSE archives[i]]
    BY <1>1, Options DEF Rotate
  <2> QED
    BY <2>1, <1>1
<1>3. /\ \A i \in DOMAIN archives' : i # n => i \in DOMAIN archives /\ archives'[i] \subseteq archives[i]
      /\ archives'[n] \subseteq active /\ DOMAIN archives \subseteq DOMAIN archives' /\ n \notin DOMAIN archives
      /\ \A i \in DOMAIN archives : i < n
      /\ DOMAIN archives' \subseteq Nat
  BY <1>1, <1>2
<1> HIDE DEF n
<1>4. /\ active' = {} /\ present' = FALSE
      /\ UNCHANGED <<written, offset_file, pending_file, scanner, next_sequence, pending,
                     segments, records, queue, worker, stopping, acked, faults, sessions>>
      /\ missed' = IF segments.active THEN missed \cup New(active) ELSE missed
  BY DEF Rotate, fileVars, scanVars, dispatchVars
<1>5. TypeOK'
  BY <1>2, <1>4 DEF IndInv, TypeOK, New
<1>6. LogOrder'
  BY <1>3, <1>4 DEF IndInv, LogOrder
<1>7. OnDisk' \subseteq OnDisk /\ Handled \subseteq Handled'
  <2>1. \A r \in OnDisk' : r \in OnDisk
    BY <1>3, <1>4, OnDiskMembers
  <2> QED
    BY <2>1, <1>4 DEF Handled
<1>8. FilesOK' /\ LoopOK'
  BY <1>4, <1>7 DEF IndInv, FilesOK, LoopOK, InLoop, Passed, Batch
<1>9. Stages' /\ OneBatch'
  BY <1>4 DEF IndInv, Stages, OneBatch
<1>10. ScanOK'
  <2> SUFFICES ASSUME scanner = "read" PROVE ScanOK'
    BY <1>4 DEF ScanOK
  <2>1. /\ pending = {} /\ segments.archived \subseteq DOMAIN archives
        /\ \A i \in segments.archived : \A r \in archives[i], q \in records : q < r
    BY DEF IndInv, ScanOK
  <2>2. \A i \in segments.archived : archives'[i] \subseteq archives[i]
    BY <2>1, <1>3
  <2>3. ASSUME NEW r \in OnDisk' \ (records' \cup Handled'), r >= next_sequence
        PROVE  /\ \A q \in records : q < r
               /\ \/ \E i \in segments.archived : r \in archives'[i]
                  \/ /\ ~segments.active
                     /\ \A i \in segments.archived : \A q \in archives'[i] : q < r
    <3>1. r \in OnDisk \ (records \cup Handled)
      BY <1>4, <1>7, <2>3
    <3>2. /\ \A q \in records : q < r
          /\ \/ r \in active
             \/ \E i \in segments.archived : r \in archives[i]
             \/ /\ ~segments.active
                /\ \A i \in segments.archived : \A q \in archives[i] : q < r
      BY <3>1, <2>3 DEF IndInv, ScanOK
    <3>3. CASE r \in active
      <4>1. ~segments.active
        BY <1>4, <2>3, <3>3 DEF Handled, New
      <4>2. \A i \in segments.archived : \A q \in archives[i] : q < r
        BY <2>1, <3>3 DEF IndInv, LogOrder
      <4> QED
        BY <3>2, <4>1, <4>2, <2>2
    <3>4. CASE \E i \in segments.archived : r \in archives[i]
      <4>1. PICK i \in segments.archived : r \in archives[i]
        BY <3>4
      <4>2. PICK j \in DOMAIN archives' : r \in archives'[j]
        BY <2>3, <1>4, OnDiskMembers
      <4>3. r \in Nat /\ DOMAIN archives \subseteq Nat
        BY <2>1, <4>1, DiskTypes DEF IndInv
      <4>4. j = i
        BY <1>3, <2>1, <4>1, <4>2, <4>3 DEF IndInv, LogOrder
      <4> QED
        BY <3>2, <4>1, <4>2, <4>4
    <3>5. CASE ~segments.active /\ \A i \in segments.archived : \A q \in archives[i] : q < r
      BY <3>5, <3>2, <2>2
    <3> QED
      BY <3>2, <3>3, <3>4, <3>5
  <2>4. /\ segments.archived \subseteq DOMAIN archives'
        /\ \A i \in segments.archived : \A r \in archives'[i], q \in records : q < r
    BY <2>1, <2>2, <1>3
  <2>5. /\ \A r \in records : next_sequence <= r /\ r < written
        /\ Cardinality(records) <= SinkBatchSize
        /\ segments # Nothing => Cardinality(records) < SinkBatchSize
    BY DEF IndInv, ScanOK
  <2> QED
    BY <1>4, <2>1, <2>3, <2>4, <2>5 DEF ScanOK, Nothing
<1> QED
  BY <1>5, <1>6, <1>8, <1>9, <1>10 DEF IndInv

(* The segment a scan reads next lies above what it has and below what it   *)
(* has listed behind it.                                                    *)
LEMMA ReadingProperties ==
  ASSUME IndInv, scanner = "read", segments # Nothing
  PROVE  /\ Reading \in SUBSET Record /\ Reading \subseteq OnDisk
         /\ \A q \in records, r \in Reading : q < r
         /\ Unread \in [archived : SUBSET Nat, active : BOOLEAN]
         /\ Unread.archived \subseteq DOMAIN archives
         /\ \A i \in Unread.archived : \A r \in archives[i], q \in records \cup Reading : q < r
         /\ Unread.active => \A r \in active, q \in records \cup Reading : q < r
         /\ \A r \in OnDisk \ (records \cup Handled) : r >= next_sequence /\ r \notin Reading =>
              /\ \A q \in records \cup Reading : q < r
              /\ \/ r \in active /\ segments.archived # {}
                 \/ \E i \in Unread.archived : r \in archives[i]
                 \/ /\ ~Unread.active
                    /\ \A i \in Unread.archived : \A q \in archives[i] : q < r
<1>1. /\ segments \in [archived : SUBSET Nat, active : BOOLEAN]
      /\ archives \in Seq(SUBSET Record) /\ active \in SUBSET Record
      /\ \A i \in DOMAIN archives : archives[i] \in SUBSET Record
  BY DEF IndInv, TypeOK
<1>2. /\ segments.archived \subseteq DOMAIN archives
      /\ \A i \in segments.archived : \A r \in archives[i], q \in records : q < r
      /\ segments.active => \A r \in active, q \in records : q < r
      /\ \A r \in OnDisk \ (records \cup Handled) : r >= next_sequence =>
           /\ \A q \in records : q < r
           /\ \/ r \in active
              \/ \E i \in segments.archived : r \in archives[i]
              \/ /\ ~segments.active
                 /\ \A i \in segments.archived : \A q \in archives[i] : q < r
  BY DEF IndInv, ScanOK
<1>3. CASE segments.archived # {}
  <2> DEFINE k == Smallest(segments.archived)
  <2>1. k \in segments.archived /\ \A i \in segments.archived : k <= i
    BY <1>1, <1>3, SmallestProperties
  <2>2. Reading = archives[k] /\ k \in DOMAIN archives /\ k \in Nat
    BY <1>1, <1>2, <1>3, <2>1 DEF Reading
  <2>3. Unread = [segments EXCEPT !.archived = segments.archived \ {k}]
    BY <1>3 DEF Unread
  <2> HIDE DEF k
  <2>4. /\ Unread \in [archived : SUBSET Nat, active : BOOLEAN]
        /\ Unread.archived = segments.archived \ {k} /\ Unread.active = segments.active
    BY <2>3, <1>1
  <2>5. Reading \in SUBSET Record /\ \A r \in Reading : r \in OnDisk
    BY <2>2, <1>1, OnDiskMembers
  <2>6. \A q \in records, r \in Reading : q < r
    BY <2>1, <2>2, <1>2
  <2>7. \A i \in Unread.archived : i \in DOMAIN archives /\ k < i
    BY <2>1, <2>2, <2>4, <1>1, <1>2
  <2>8. \A i \in Unread.archived : \A r \in archives[i], q \in records \cup Reading : q < r
    BY <2>2, <2>4, <2>7, <1>2 DEF IndInv, LogOrder
  <2>9. Unread.active => \A r \in active, q \in records \cup Reading : q < r
    BY <2>2, <2>4, <1>2 DEF IndInv, LogOrder
  <2>10. ASSUME NEW r \in OnDisk \ (records \cup Handled), r >= next_sequence, r \notin Reading
         PROVE  /\ \A q \in records \cup Reading : q < r
                /\ \/ r \in active
                   \/ \E i \in Unread.archived : r \in archives[i]
                   \/ /\ ~Unread.active
                      /\ \A i \in Unread.archived : \A q \in archives[i] : q < r
    <3>1. /\ \A q \in records : q < r
          /\ \/ r \in active
             \/ \E i \in segments.archived : r \in archives[i]
             \/ /\ ~segments.active
                /\ \A i \in segments.archived : \A q \in archives[i] : q < r
      BY <2>10, <1>2
    <3>2. CASE r \in active
      BY <3>1, <3>2, <2>2 DEF IndInv, LogOrder
    <3>3. CASE \E i \in segments.archived : r \in archives[i]
      <4>1. PICK i \in segments.archived : r \in archives[i]
        BY <3>3
      <4>2. i \in Unread.archived
        BY <4>1, <2>2, <2>4, <2>10
      <4> QED
        BY <3>1, <4>1, <4>2, <2>8
    <3>4. CASE ~segments.active /\ \A i \in segments.archived : \A q \in archives[i] : q < r
      BY <3>1, <3>4, <2>1, <2>2, <2>4
    <3> QED
      BY <3>1, <3>2, <3>3, <3>4
  <2> QED
    BY <2>4, <2>5, <2>6, <2>7, <2>8, <2>9, <2>10, <1>3
<1>4. CASE segments.archived = {}
  <2>1. segments.active
    BY <1>1, <1>4 DEF Nothing
  <2>2. Reading = active /\ Unread = Nothing
    BY <1>4 DEF Reading, Unread
  <2>3. Reading \in SUBSET Record /\ \A r \in Reading : r \in OnDisk
    BY <2>2, <1>1, OnDiskMembers
  <2>4. Unread.archived = {} /\ ~Unread.active /\ Unread \in [archived : SUBSET Nat, active : BOOLEAN]
    BY <2>2 DEF Nothing
  <2> QED
    BY <1>2, <1>4, <2>1, <2>2, <2>3, <2>4
<1> QED
  BY <1>3, <1>4

(* Reading a segment keeps the scan a prefix of what is on disk, apart from *)
(* records that are handled.                                                *)
LEMMA ReadStep == IndInv /\ ReadSegment => IndInv'
<1> SUFFICES ASSUME IndInv, ReadSegment PROVE IndInv'
  OBVIOUS
<1> DEFINE M == Matching(Reading)
<1>1. /\ scanner = "read" /\ segments # Nothing
      /\ records' = records \cup M
      /\ segments' = IF Cardinality(records \cup M) = SinkBatchSize THEN Nothing ELSE Unread
      /\ UNCHANGED <<archives, active, present, written, offset_file, pending_file,
                     scanner, next_sequence, pending, queue, worker, stopping, acked,
                     missed, faults, sessions>>
  BY DEF ReadSegment, logVars, fileVars, dispatchVars
<1>2. /\ records \in SUBSET Record /\ Cardinality(records) < SinkBatchSize
      /\ pending = {} /\ \A r \in records : next_sequence <= r /\ r < written
  BY <1>1 DEF IndInv, TypeOK, ScanOK
<1>3. /\ Reading \in SUBSET Record /\ Reading \subseteq OnDisk /\ records \cap Reading = {}
  <2>1. /\ Reading \in SUBSET Record /\ Reading \subseteq OnDisk
        /\ \A q \in records, r \in Reading : q < r
    BY <1>1, ReadingProperties
  <2>2. \A r \in Reading : ~(r < r)
    BY <2>1, Options
  <2> QED
    BY <2>1, <2>2
<1>4. /\ M \subseteq New(Reading) /\ New(Reading) \subseteq Reading
      /\ \A r \in M, q \in New(Reading) \ M : r < q
      /\ Cardinality(records \cup M) <= SinkBatchSize
      /\ Cardinality(records \cup M) # SinkBatchSize => M = New(Reading)
  BY <1>2, <1>3, MatchingProperties
<1> HIDE DEF M
<1>5. TypeOK'
  <2>1. segments' \in [archived : SUBSET Nat, active : BOOLEAN]
    BY <1>1, ReadingProperties DEF Nothing
  <2>2. records' \in SUBSET Record
    BY <1>1, <1>2, <1>3, <1>4
  <2> QED
    BY <1>1, <2>1, <2>2 DEF IndInv, TypeOK
<1>6. OnDisk' = OnDisk /\ Handled' = Handled
  BY <1>1 DEF OnDisk, Handled
<1>7. LogOrder' /\ FilesOK' /\ LoopOK' /\ Stages' /\ OneBatch'
  BY <1>1, <1>6 DEF IndInv, LogOrder, FilesOK, LoopOK, InLoop, Passed, Batch, Stages,
     OneBatch
<1>8. \A r \in M : next_sequence <= r /\ r < written
  <2>1. \A r \in M : r >= next_sequence /\ r \in OnDisk
    BY <1>3, <1>4 DEF New
  <2>2. \A r \in OnDisk : r < written
    BY OnDiskMembers DEF IndInv, LogOrder
  <2>3. M \subseteq Nat /\ next_sequence \in Nat
    <3>1. M \subseteq Record /\ next_sequence \in Nat
      BY <1>3, <1>4 DEF IndInv, TypeOK
    <3> QED
      BY <3>1, Options
  <2> QED
    BY <2>1, <2>2, <2>3
<1>9. ASSUME NEW r \in OnDisk \ (records' \cup Handled), r >= next_sequence
      PROVE  /\ \A q \in records' : q < r
             /\ \/ r \in active
                \/ \E i \in segments'.archived : r \in archives[i]
                \/ /\ ~segments'.active
                   /\ \A i \in segments'.archived : \A q \in archives[i] : q < r
  <2>1. CASE r \in Reading
    <3>1. r \in New(Reading) \ M
      BY <1>1, <1>9, <2>1 DEF New
    <3>2. segments' = Nothing
      BY <1>1, <1>4, <3>1
    <3>3. \A q \in records' : q < r
      BY <1>1, <1>4, <2>1, <3>1, ReadingProperties
    <3> QED
      BY <3>2, <3>3 DEF Nothing
  <2>2. CASE r \notin Reading
    <3>1. /\ \A q \in records \cup Reading : q < r
          /\ \/ r \in active
             \/ \E i \in Unread.archived : r \in archives[i]
             \/ /\ ~Unread.active
                /\ \A i \in Unread.archived : \A q \in archives[i] : q < r
      BY <1>1, <1>9, <2>2, ReadingProperties
    <3>2. \A q \in records' : q < r
      BY <1>1, <1>4, <3>1
    <3> QED
      BY <1>1, <3>1, <3>2 DEF Nothing
  <2> QED
    BY <2>1, <2>2
<1>10. /\ segments'.archived \subseteq DOMAIN archives
       /\ \A i \in segments'.archived : \A r \in archives[i], q \in records' : q < r
       /\ segments'.active => \A r \in active, q \in records' : q < r
  <2>1. CASE segments' = Nothing
    BY <2>1 DEF Nothing
  <2>2. CASE segments' = Unread
    BY <1>1, <1>4, <2>2, ReadingProperties
  <2> QED
    BY <1>1, <2>1, <2>2
<1>11. segments' # Nothing => Cardinality(records') < SinkBatchSize
  <2>1. Cardinality(records \cup M) \in Nat /\ SinkBatchSize \in Nat
    BY <1>2, <1>3, <1>4, FiniteRecords, Options
  <2> QED
    BY <1>1, <1>4, <2>1
<1>12. ScanOK'
  BY <1>1, <1>2, <1>4, <1>6, <1>8, <1>9, <1>10, <1>11 DEF ScanOK, Nothing
<1> QED
  BY <1>5, <1>7, <1>12 DEF IndInv

(* A read that fails part of the way leaves the rest of the segment missed. *)
LEMMA ReadFailsStep == IndInv /\ ReadSegmentFails => IndInv'
<1> SUFFICES ASSUME IndInv, ReadSegmentFails PROVE IndInv'
  OBVIOUS
<1>1. /\ scanner = "read" /\ segments # Nothing /\ segments' = Unread
      /\ missed' = missed \cup (New(Reading) \ records') /\ faults' = faults + 1
      /\ UNCHANGED <<archives, active, present, written, offset_file, pending_file,
                     scanner, next_sequence, pending, queue, worker, stopping, acked,
                     sessions>>
  BY DEF ReadSegmentFails, logVars, fileVars, dispatchVars, Fault
<1>2. PICK cut \in Matching(Reading) : records' = records \cup {r \in Matching(Reading) : r < cut}
  BY DEF ReadSegmentFails
<1> DEFINE C == {r \in Matching(Reading) : r < cut}
<1>3. /\ records \in SUBSET Record /\ Cardinality(records) < SinkBatchSize
      /\ pending = {} /\ \A r \in records : next_sequence <= r /\ r < written
  BY <1>1 DEF IndInv, TypeOK, ScanOK
<1>4. /\ Reading \in SUBSET Record /\ Reading \subseteq OnDisk /\ records \cap Reading = {}
  <2>1. /\ Reading \in SUBSET Record /\ Reading \subseteq OnDisk
        /\ \A q \in records, r \in Reading : q < r
    BY <1>1, ReadingProperties
  <2>2. \A r \in Reading : ~(r < r)
    BY <2>1, Options
  <2> QED
    BY <2>1, <2>2
<1>5. /\ Matching(Reading) \subseteq New(Reading) /\ New(Reading) \subseteq Reading
      /\ Cardinality(records \cup Matching(Reading)) <= SinkBatchSize
  BY <1>3, <1>4, MatchingProperties
<1>6. /\ C \subseteq New(Reading) /\ cut \in Matching(Reading) /\ cut \notin C /\ cut \notin records
      /\ C \subseteq Matching(Reading)
  <2>1. cut \in Nat /\ cut \in Reading
    <3>1. cut \in Record /\ cut \in Reading
      BY <1>4, <1>5
    <3> QED
      BY <3>1, Options
  <2> QED
    BY <1>4, <1>5, <2>1
<1>7. records' = records \cup C
  BY <1>2
<1> HIDE DEF C
<1>8. records' \in SUBSET Record /\ Cardinality(records') < SinkBatchSize
  <2>1. records \cup Matching(Reading) \in SUBSET Record /\ records' \in SUBSET Record
    BY <1>3, <1>4, <1>5, <1>6, <1>7
  <2>2. /\ IsFiniteSet(records \cup Matching(Reading)) /\ Cardinality(records \cup Matching(Reading)) \in Nat
        /\ IsFiniteSet(records') /\ Cardinality(records') \in Nat
    BY <2>1, FiniteRecords
  <2>3. records' \subseteq records \cup Matching(Reading) /\ records' # records \cup Matching(Reading)
    BY <1>6, <1>7
  <2>4. Cardinality(records') <= Cardinality(records \cup Matching(Reading)) /\ Cardinality(records') # Cardinality(records \cup Matching(Reading))
    BY <2>2, <2>3, FS_Subset
  <2> QED
    BY <1>5, <2>1, <2>2, <2>4, Options
<1>9. TypeOK'
  <2>1. segments' \in [archived : SUBSET Nat, active : BOOLEAN]
    BY <1>1, ReadingProperties
  <2>2. missed' \in SUBSET Record
    BY <1>1, <1>4, <1>5 DEF IndInv, TypeOK
  <2> QED
    BY <1>1, <1>8, <2>1, <2>2 DEF IndInv, TypeOK
<1>10. OnDisk' = OnDisk /\ Handled \subseteq Handled'
  BY <1>1 DEF OnDisk, Handled
<1>11. LogOrder' /\ FilesOK' /\ LoopOK' /\ Stages' /\ OneBatch'
  BY <1>1, <1>10 DEF IndInv, LogOrder, FilesOK, LoopOK, InLoop, Passed, Batch, Stages,
     OneBatch
<1>12. \A r \in C : next_sequence <= r /\ r < written
  <2>1. \A r \in C : r >= next_sequence /\ r \in OnDisk
    BY <1>4, <1>5, <1>6 DEF New
  <2>2. \A r \in OnDisk : r < written
    BY OnDiskMembers DEF IndInv, LogOrder
  <2>3. C \subseteq Nat /\ next_sequence \in Nat
    <3>1. C \subseteq Record /\ next_sequence \in Nat
      BY <1>4, <1>5, <1>6 DEF IndInv, TypeOK
    <3> QED
      BY <3>1, Options
  <2> QED
    BY <2>1, <2>2, <2>3
<1>13. ASSUME NEW r \in OnDisk \ (records' \cup Handled'), r >= next_sequence
       PROVE  /\ \A q \in records' : q < r
              /\ \/ r \in active
                 \/ \E i \in segments'.archived : r \in archives[i]
                 \/ /\ ~segments'.active
                    /\ \A i \in segments'.archived : \A q \in archives[i] : q < r
  <2>1. r \notin Reading
    BY <1>1, <1>13 DEF Handled, New
  <2>2. r \in OnDisk \ (records \cup Handled)
    BY <1>7, <1>10, <1>13
  <2>3. /\ \A q \in records \cup Reading : q < r
        /\ \/ r \in active
           \/ \E i \in Unread.archived : r \in archives[i]
           \/ /\ ~Unread.active
              /\ \A i \in Unread.archived : \A q \in archives[i] : q < r
    BY <1>1, <1>13, <2>1, <2>2, ReadingProperties
  <2> QED
    BY <1>1, <1>5, <1>6, <1>7, <2>3
<1>14. /\ segments'.archived \subseteq DOMAIN archives
       /\ \A i \in segments'.archived : \A r \in archives[i], q \in records' : q < r
       /\ segments'.active => \A r \in active, q \in records' : q < r
  BY <1>1, <1>5, <1>6, <1>7, ReadingProperties
<1>15. Cardinality(records') <= SinkBatchSize
  BY <1>8, FiniteRecords, Options
<1>16. ScanOK'
  BY <1>1, <1>3, <1>7, <1>8, <1>10, <1>12, <1>13, <1>14, <1>15 DEF ScanOK, Nothing
<1> QED
  BY <1>9, <1>11, <1>16 DEF IndInv

(* When the sink has acknowledged the batch, its end can be stored: it is   *)
(* not before the stored offset, and it skips nothing.                      *)
LEMMA OffsetFacts ==
  ASSUME IndInv, scanner = "offset"
  PROVE  /\ pending \in SUBSET Record /\ pending # {}
         /\ NextOf(pending) \in 1..MaxRecords
         /\ offset_file <= NextOf(pending)
         /\ Passed(NextOf(pending))
<1>1. /\ pending \in SUBSET Record /\ pending # {} /\ pending \subseteq acked
      /\ Batch(pending) /\ offset_file \in Nat /\ written \in Nat
  BY DEF IndInv, TypeOK, Stages, LoopOK, InLoop
<1>2. /\ NextOf(pending) \in 1..MaxRecords
      /\ \E r \in pending : NextOf(pending) = r + 1
  BY <1>1, NextOfProperties
<1>3. PICK r \in pending : NextOf(pending) = r + 1
  BY <1>2
<1>4. r \in Nat /\ NextOf(pending) \in Nat
  BY <1>1, <1>2, Options
<1>5. NextOf(pending) <= written
  BY <1>1, <1>3, <1>4 DEF Batch
<1>6. offset_file <= NextOf(pending)
  BY <1>1, <1>3, <1>4 DEF Batch
<1>7. Passed(NextOf(pending))
  BY <1>1, <1>5 DEF Passed, Batch, Handled
<1> QED
  BY <1>1, <1>2, <1>6, <1>7

(* store_delivery_offset_async may pass the batch, whether or not the store *)
(* succeeds.                                                                *)
LEMMA StoreOffsetStep == IndInv /\ (StoreOffset \/ StoreOffsetFails) => IndInv'
<1> SUFFICES ASSUME IndInv, StoreOffset \/ StoreOffsetFails PROVE IndInv'
  OBVIOUS
<1> DEFINE n == NextOf(pending)
<1>1. /\ scanner = "offset" /\ scanner' \in {"remove", "failed"}
      /\ next_sequence' = n
      /\ offset_file' \in {offset_file, n}
      /\ faults' \in {faults, faults + 1}
      /\ UNCHANGED <<archives, active, present, written, pending_file, pending, segments,
                     records, queue, worker, stopping, acked, missed, sessions>>
  BY DEF StoreOffset, StoreOffsetFails, logVars, dispatchVars, Fault
<1>2. /\ pending # {} /\ n \in 1..MaxRecords /\ offset_file <= n /\ Passed(n)
  BY <1>1, OffsetFacts
<1>3. pending \subseteq acked /\ pending_file \in {{}, pending}
      /\ Batch(pending) /\ Batch(pending_file) /\ Passed(offset_file)
  BY <1>1 DEF IndInv, Stages, LoopOK, InLoop, FilesOK
<1> HIDE DEF n
<1>4. TypeOK'
  <2>1. next_sequence' \in 0..MaxRecords /\ offset_file' \in 0..MaxRecords
    BY <1>1, <1>2, Options DEF IndInv, TypeOK
  <2>2. faults' \in Nat
    BY <1>1 DEF IndInv, TypeOK
  <2> QED
    BY <1>1, <2>1, <2>2 DEF IndInv, TypeOK
<1>5. OnDisk' = OnDisk /\ Handled' = Handled
  BY <1>1 DEF OnDisk, Handled
<1>6. LogOrder' /\ Stages' /\ OneBatch' /\ ScanOK'
  BY <1>1, <1>2, <1>3 DEF IndInv, LogOrder, Stages, OneBatch, ScanOK
<1>7. Passed(offset_file)' /\ Passed(next_sequence)'
  BY <1>1, <1>2, <1>3, <1>5 DEF Passed
<1>8. Batch(pending)'
  BY <1>1, <1>3, <1>5 DEF Batch, n
<1>9. Batch(pending_file)'
  BY <1>1, <1>3, <1>5 DEF Batch, n
<1>10. offset_file' <= next_sequence'
  BY <1>1, <1>2 DEF IndInv, TypeOK
<1>11. FilesOK' /\ LoopOK'
  BY <1>1, <1>3, <1>7, <1>8, <1>9, <1>10 DEF FilesOK, LoopOK
<1> QED
  BY <1>4, <1>6, <1>11 DEF IndInv

(* The turn of the loop: list every segment, or go on with the batch there  *)
(* is.                                                                      *)
LEMMA LoopStep == IndInv /\ Loop => IndInv'
<1> SUFFICES ASSUME IndInv, Loop PROVE IndInv'
  OBVIOUS
<1>1. /\ scanner = "loop" /\ records' = {}
      /\ scanner' = IF stopping THEN "exit" ELSE IF pending # {} THEN "submit" ELSE "read"
      /\ segments' = IF ~stopping /\ pending = {}
                     THEN [archived |-> {i \in DOMAIN archives : archives[i] # {}}, active |-> present]
                     ELSE Nothing
      /\ UNCHANGED <<archives, active, present, written, offset_file, pending_file,
                     next_sequence, pending, queue, worker, stopping, acked, missed,
                     faults, sessions>>
  BY DEF Loop, logVars, fileVars, dispatchVars
<1>2. segments' \in [archived : SUBSET Nat, active : BOOLEAN]
  <2>1. {i \in DOMAIN archives : archives[i] # {}} \in SUBSET Nat /\ present \in BOOLEAN
    BY DiskTypes DEF IndInv, TypeOK
  <2> QED
    BY <1>1, <2>1 DEF Nothing
<1>3. TypeOK'
  BY <1>1, <1>2 DEF IndInv, TypeOK
<1>4. OnDisk' = OnDisk /\ Handled' = Handled
  BY <1>1 DEF OnDisk, Handled
<1>5. LogOrder' /\ FilesOK' /\ LoopOK' /\ Stages' /\ OneBatch'
  BY <1>1, <1>4 DEF IndInv, LogOrder, FilesOK, LoopOK, InLoop, Passed, Batch, Stages,
     OneBatch
<1>6. ScanOK'
  <2> SUFFICES ASSUME scanner' = "read" PROVE ScanOK'
    BY DEF ScanOK
  <2>1. /\ pending = {} /\ segments'.archived = {i \in DOMAIN archives : archives[i] # {}}
        /\ segments' \in [archived : SUBSET Nat, active : BOOLEAN]
    BY <1>1, <1>2
  <2>2. \A r \in OnDisk : r \in active \/ \E i \in segments'.archived : r \in archives[i]
    BY <2>1, OnDiskMembers
  <2>3. Cardinality(records') = 0
    BY <1>1, FS_EmptySet
  <2> QED
    BY <1>1, <1>4, <2>1, <2>2, <2>3, Options DEF ScanOK, Nothing
<1> QED
  BY <1>3, <1>5, <1>6 DEF IndInv

(* The records of a complete scan are a batch.                              *)
LEMMA ScanDoneStep == IndInv /\ ScanDone => IndInv'
<1> SUFFICES ASSUME IndInv, ScanDone PROVE IndInv'
  OBVIOUS
<1>1. /\ scanner = "read" /\ segments = Nothing
      /\ scanner' = IF records = {} THEN "sleep" ELSE "store"
      /\ pending' = records /\ records' = {}
      /\ UNCHANGED <<archives, active, present, written, offset_file, pending_file,
                     next_sequence, segments, queue, worker, stopping, acked, missed,
                     faults, sessions>>
  BY DEF ScanDone, logVars, fileVars, dispatchVars
<1>2. TypeOK'
  BY <1>1 DEF IndInv, TypeOK
<1>3. OnDisk' = OnDisk /\ Handled' = Handled
  BY <1>1 DEF OnDisk, Handled
<1>4. LogOrder' /\ FilesOK' /\ Stages' /\ OneBatch' /\ ScanOK'
  BY <1>1, <1>3 DEF IndInv, LogOrder, FilesOK, Passed, Batch, Stages, OneBatch, ScanOK
<1>5. Passed(next_sequence) /\ offset_file <= next_sequence /\ pending_file = {}
  BY <1>1 DEF IndInv, LoopOK, InLoop, ScanOK
<1>6. ASSUME records # {} PROVE Batch(records)
  <2>1. /\ records \in SUBSET Record /\ offset_file \in Nat /\ next_sequence \in Nat
    BY DEF IndInv, TypeOK
  <2>2. records \subseteq Nat
    BY <2>1, Options
  <2>3. \A r \in records : next_sequence <= r /\ r < written
    BY <1>1 DEF IndInv, ScanOK
  <2>4. \A r \in records : r >= offset_file
    BY <1>5, <2>1, <2>2, <2>3
  <2>5. PICK m \in records : NextOf(records) = m + 1
    BY <1>6, <2>1, NextOfProperties
  <2>6. ASSUME NEW r \in OnDisk, r < NextOf(records), r \notin records \cup Handled PROVE FALSE
    <3>1. r \in Nat
      BY OnDiskMembers, DiskTypes DEF IndInv
    <3>2. r >= next_sequence
      BY <1>5, <2>1, <2>6, <3>1 DEF Passed
    <3>3. m < r
      BY <1>1, <2>5, <2>6, <3>2 DEF IndInv, ScanOK
    <3> QED
      BY <2>2, <2>5, <2>6, <3>1, <3>3
  <2> QED
    BY <2>3, <2>4, <2>6 DEF Batch
<1>7. Batch(pending)'
  BY <1>1, <1>3, <1>6 DEF Batch
<1>8. LoopOK'
  BY <1>1, <1>3, <1>5, <1>7 DEF LoopOK, Passed
<1> QED
  BY <1>2, <1>4, <1>8 DEF IndInv

(* While the log and the offset stay, what may be passed and what may be    *)
(* sent stay too.                                                           *)
LEMMA SameLog ==
  ASSUME IndInv, UNCHANGED <<archives, active, written, offset_file>>,
         acked \subseteq acked', missed' = missed
  PROVE  /\ LogOrder' /\ OnDisk' = OnDisk /\ Handled \subseteq Handled'
         /\ \A n : Passed(n) => n <= written' /\ \A r \in OnDisk' : r < n => r \in Handled'
         /\ \A b : Batch(b) => (b # {} =>
              /\ (\A r \in b : r >= offset_file') \/ NextOf(b) = offset_file'
              /\ \A r \in b : r < written'
              /\ \A r \in OnDisk' : r < NextOf(b) => r \in b \cup Handled')
<1>1. OnDisk' = OnDisk /\ Handled \subseteq Handled'
  BY DEF OnDisk, Handled
<1> QED
  BY <1>1 DEF IndInv, LogOrder, Passed, Batch

(* The pending file changes between the scanner's batch and nothing, before *)
(* the rename, after it or not at all.                                      *)
LEMMA StoreAndRemoveStep ==
  IndInv /\ (StorePending \/ StorePendingFails \/ RemovePending \/ RemovePendingFails) => IndInv'
<1> SUFFICES ASSUME IndInv, StorePending \/ StorePendingFails \/ RemovePending \/ RemovePendingFails
             PROVE  IndInv'
  OBVIOUS
<1>1. /\ \/ scanner = "store" /\ scanner' \in {"submit", "failed"} /\ pending' = pending
         \/ scanner = "remove" /\ scanner' = "loop" /\ pending' = {} /\ pending_file' = {}
         \/ scanner = "remove" /\ scanner' = "failed" /\ pending' = pending
      /\ pending_file' \in {{}, pending_file, pending}
      /\ faults' \in {faults, faults + 1}
      /\ UNCHANGED <<archives, active, present, written, offset_file, next_sequence,
                     segments, records, queue, worker, stopping, acked, missed, sessions>>
  BY DEF StorePending, StorePendingFails, RemovePending, RemovePendingFails, logVars,
     scanVars, dispatchVars, Fault
<1>2. TypeOK'
  BY <1>1 DEF IndInv, TypeOK
<1>3. LogOrder'
  BY <1>1 DEF IndInv, LogOrder
<1>4. FilesOK' /\ LoopOK'
  BY <1>1, SameLog DEF IndInv, FilesOK, LoopOK, InLoop, Passed, Batch
<1>5. Stages' /\ OneBatch' /\ ScanOK'
  BY <1>1 DEF IndInv, Stages, OneBatch, ScanOK
<1> QED
  BY <1>2, <1>3, <1>4, <1>5 DEF IndInv

(* A start takes up the stored offset and the stored batch.                 *)
LEMMA LoadStep == IndInv /\ (Load \/ LoadFails) => IndInv'
<1> SUFFICES ASSUME IndInv, Load \/ LoadFails PROVE IndInv'
  OBVIOUS
<1>1. /\ scanner = "load"
      /\ \/ scanner' = "loop" /\ next_sequence' = offset_file /\ pending' = pending_file
         \/ scanner' = "exit" /\ UNCHANGED <<next_sequence, pending>>
      /\ faults' \in {faults, faults + 1}
      /\ UNCHANGED <<archives, active, present, written, offset_file, pending_file,
                     segments, records, queue, worker, stopping, acked, missed, sessions>>
  BY DEF Load, LoadFails, logVars, fileVars, scanVars, dispatchVars, Fault
<1>2. TypeOK'
  BY <1>1 DEF IndInv, TypeOK
<1>3. FilesOK' /\ LoopOK' /\ LogOrder'
  <2>1. offset_file <= offset_file
    BY DEF IndInv, TypeOK
  <2> QED
    BY <1>1, <2>1, SameLog DEF IndInv, FilesOK, LoopOK, InLoop, Passed, Batch
<1>4. Stages' /\ OneBatch' /\ ScanOK'
  BY <1>1 DEF IndInv, Stages, OneBatch, ScanOK
<1> QED
  BY <1>2, <1>3, <1>4 DEF IndInv

(* DeliveryDispatcher::submit finds no other batch in the dispatcher.       *)
LEMMA SubmitStep == IndInv /\ Submit => IndInv'
<1> SUFFICES ASSUME IndInv, Submit PROVE IndInv'
  OBVIOUS
<1>1. /\ scanner = "submit"
      /\ UNCHANGED <<archives, active, present, written, offset_file, pending_file,
                     next_sequence, pending, segments, records, stopping, acked, missed,
                     faults, sessions>>
      /\ \/ scanner' = "failed" /\ UNCHANGED <<queue, worker>>
         \/ scanner' = "await" /\ queue' = Append(queue, pending) /\ worker' = Broadcast(worker)
  BY DEF Submit, logVars, fileVars, scanVars, dispatchVars
<1>2. /\ pending \in SUBSET Record /\ queue \in Seq(SUBSET Record) /\ queue = <<>>
      /\ \A w \in Workers : worker[w] # "deliver"
      /\ worker \in [Workers -> {"check", "wait", "deliver", "done"}]
  BY <1>1 DEF IndInv, TypeOK, OneBatch
<1>3. /\ queue' \in Seq(SUBSET Record) /\ Len(queue') <= 1
      /\ worker' \in [Workers -> {"check", "wait", "deliver", "done"}]
      /\ \A w \in Workers : worker'[w] # "deliver"
      /\ queue' # <<>> => scanner' = "await"
  <2>1. Append(queue, pending) \in Seq(SUBSET Record) /\ Len(Append(queue, pending)) = 1
    BY <1>2
  <2>2. Broadcast(worker) \in [Workers -> {"check", "wait", "deliver", "done"}]
    BY <1>2 DEF Broadcast
  <2>3. \A w \in Workers : Broadcast(worker)[w] # "deliver"
    BY <1>2 DEF Broadcast
  <2>4. Len(queue) = 0
    BY <1>2
  <2>5. CASE scanner' = "failed" /\ UNCHANGED <<queue, worker>>
    BY <1>2, <2>4, <2>5
  <2>6. CASE scanner' = "await" /\ queue' = Append(queue, pending) /\ worker' = Broadcast(worker)
    BY <2>1, <2>2, <2>3, <2>6
  <2> QED
    BY <1>1, <2>5, <2>6
<1>4. TypeOK'
  BY <1>1, <1>3 DEF IndInv, TypeOK
<1>5. FilesOK' /\ LoopOK' /\ LogOrder'
  BY <1>1, SameLog DEF IndInv, FilesOK, LoopOK, InLoop, Passed, Batch
<1>6. Stages' /\ OneBatch' /\ ScanOK'
  BY <1>1, <1>3 DEF IndInv, Stages, OneBatch, ScanOK
<1> QED
  BY <1>4, <1>5, <1>6 DEF IndInv

(* The ends of a turn: the caught error, the sleep, and the way out.        *)
LEMMA TurnStep ==
  IndInv /\ (ScanFails \/ Failed \/ WakeUp \/ StopDispatcher \/ Joined) => IndInv'
<1> SUFFICES ASSUME IndInv, ScanFails \/ Failed \/ WakeUp \/ StopDispatcher \/ Joined PROVE IndInv'
  OBVIOUS
<1>1. /\ \/ scanner = "read" /\ scanner' = "failed"
         \/ scanner = "failed" /\ scanner' \in {"exit", "sleep"}
         \/ scanner = "sleep" /\ scanner' = "loop"
         \/ scanner = "exit" /\ scanner' = "join"
         \/ scanner = "join" /\ scanner' = "done"
      /\ segments' \in {segments, Nothing} /\ records' \in {records, {}}
      /\ faults' \in {faults, faults + 1}
      /\ worker' \in {worker, Broadcast(worker)}
      /\ UNCHANGED <<archives, active, present, written, offset_file, pending_file,
                     next_sequence, pending, queue, stopping, acked, missed, sessions>>
  BY DEF ScanFails, Failed, WakeUp, StopDispatcher, Joined, logVars, fileVars, scanVars,
     dispatchVars, Fault
<1>2. /\ worker' \in [Workers -> {"check", "wait", "deliver", "done"}]
      /\ \A w \in Workers : worker'[w] = "deliver" => worker[w] = "deliver"
  BY <1>1 DEF Broadcast, IndInv, TypeOK
<1>3. TypeOK'
  <2>1. Nothing \in [archived : SUBSET Nat, active : BOOLEAN]
    BY DEF Nothing
  <2>2. segments' \in [archived : SUBSET Nat, active : BOOLEAN]
    BY <1>1, <2>1 DEF IndInv, TypeOK
  <2> QED
    BY <1>1, <1>2, <2>2 DEF IndInv, TypeOK
<1>4. FilesOK' /\ LoopOK' /\ LogOrder'
  BY <1>1, SameLog DEF IndInv, FilesOK, LoopOK, InLoop, Passed, Batch
<1>5. Stages' /\ OneBatch' /\ ScanOK'
  BY <1>1, <1>2 DEF IndInv, Stages, OneBatch, ScanOK
<1> QED
  BY <1>3, <1>4, <1>5 DEF IndInv

(* Starting, stopping and dying leave the files, and the files are enough.  *)
LEMMA ProcessStep == IndInv /\ (Reopen \/ Start \/ StopSignal \/ Crash) => IndInv'
<1> SUFFICES ASSUME IndInv, Reopen \/ Start \/ StopSignal \/ Crash PROVE IndInv'
  OBVIOUS
<1>1. /\ \/ UNCHANGED <<scanner, next_sequence, pending, segments, records, queue,
                        worker>>
         \/ /\ scanner \in {"down", "done"} /\ scanner' = "load"
            /\ worker' = [w \in Workers |-> "check"]
            /\ UNCHANGED <<next_sequence, pending, segments, records, queue>>
         \/ /\ scanner' = "down" /\ next_sequence' = 0 /\ pending' = {} /\ segments' = Nothing
            /\ records' = {} /\ queue' = <<>> /\ worker' = [w \in Workers |-> "done"]
      /\ present' \in {present, TRUE} /\ stopping' \in {stopping, TRUE, FALSE}
      /\ sessions' \in {sessions, sessions + 1}
      /\ UNCHANGED <<archives, active, written, offset_file, pending_file, acked, missed,
                     faults>>
  BY DEF Reopen, Start, StopSignal, Crash, logVars, fileVars, scanVars, dispatchVars
<1>2. TypeOK'
  <2>1. /\ worker' \in [Workers -> {"check", "wait", "deliver", "done"}]
        /\ queue' \in Seq(SUBSET Record)
    <3>1. /\ [w \in Workers |-> "check"] \in [Workers -> {"check", "wait", "deliver", "done"}]
          /\ [w \in Workers |-> "done"] \in [Workers -> {"check", "wait", "deliver", "done"}]
          /\ <<>> \in Seq(SUBSET Record)
      OBVIOUS
    <3> QED
      BY <1>1, <3>1 DEF IndInv, TypeOK
  <2>2. /\ next_sequence' \in 0..MaxRecords /\ pending' \in SUBSET Record /\ records' \in SUBSET Record
        /\ segments' \in [archived : SUBSET Nat, active : BOOLEAN]
    <3>1. 0 \in 0..MaxRecords
      BY Options
    <3>2. Nothing \in [archived : SUBSET Nat, active : BOOLEAN]
      BY DEF Nothing
    <3> QED
      BY <1>1, <3>1, <3>2 DEF IndInv, TypeOK
  <2>3. present' \in BOOLEAN /\ stopping' \in BOOLEAN /\ sessions' \in Nat
    <3>1. present \in BOOLEAN /\ stopping \in BOOLEAN /\ sessions \in Nat
      BY DEF IndInv, TypeOK
    <3>2. present' \in BOOLEAN
      BY <1>1, <3>1, Zenon
    <3>3. stopping' \in BOOLEAN
      BY <1>1, <3>1, Zenon
    <3>4. sessions' \in Nat
      BY <1>1, <3>1
    <3> QED
      BY <3>2, <3>3, <3>4
  <2>4. scanner' \in {"down", "load", "loop", "read", "sleep", "store", "submit", "await",
                      "offset", "remove", "failed", "exit", "join", "done"}
    BY <1>1 DEF IndInv, TypeOK
  <2> QED
    BY <1>1, <2>1, <2>2, <2>3, <2>4 DEF IndInv, TypeOK
<1>3. FilesOK' /\ LoopOK' /\ LogOrder'
  BY <1>1, SameLog DEF IndInv, FilesOK, LoopOK, InLoop, Passed, Batch
<1>4. Stages' /\ OneBatch'
  BY <1>1 DEF IndInv, Stages, OneBatch
<1>5. ScanOK'
  BY <1>1, SameLog DEF IndInv, ScanOK, Handled
<1> QED
  BY <1>2, <1>3, <1>4, <1>5 DEF IndInv

(* A worker takes the batch off the queue, and then it alone has it.        *)
LEMMA WorkerCheckStep ==
  ASSUME IndInv, NEW w \in Workers, WorkerCheck(w)
  PROVE  IndInv'
<1>1. /\ worker[w] = "check"
      /\ \/ queue # <<>> /\ worker' = [worker EXCEPT ![w] = "deliver"] /\ queue' = Tail(queue)
         \/ \E to \in {"done", "wait"} : worker' = [worker EXCEPT ![w] = to] /\ queue' = queue
      /\ UNCHANGED <<archives, active, present, written, offset_file, pending_file,
                     scanner, next_sequence, pending, segments, records, stopping, acked,
                     missed, faults, sessions>>
  BY DEF WorkerCheck, logVars, fileVars, scanVars
<1>0. queue \in Seq(SUBSET Record) /\ worker \in [Workers -> {"check", "wait", "deliver", "done"}]
  BY DEF IndInv, TypeOK
<1>2. TypeOK'
  <2>1. queue' \in Seq(SUBSET Record)
    BY <1>0, <1>1
  <2>2. worker' \in [Workers -> {"check", "wait", "deliver", "done"}]
    BY <1>0, <1>1
  <2> QED
    BY <1>1, <2>1, <2>2 DEF IndInv, TypeOK
<1>3. OneBatch'
  <2>1. queue \in Seq(SUBSET Record) /\ worker \in [Workers -> {"check", "wait", "deliver", "done"}]
    BY <1>0
  <2>2. CASE queue # <<>> /\ worker' = [worker EXCEPT ![w] = "deliver"] /\ queue' = Tail(queue)
    <3>1. Len(queue) <= 1 /\ scanner = "await" /\ \A v \in Workers : worker[v] # "deliver"
      BY <2>2 DEF IndInv, OneBatch
    <3>2. queue' \in Seq(SUBSET Record) /\ Len(queue') = Len(queue) - 1 /\ Len(queue) \in Nat
      BY <2>1, <2>2
    <3>3. queue' = <<>> /\ Len(queue') = 0
      BY <3>1, <3>2
    <3>4. \A v \in Workers : worker'[v] = "deliver" => v = w
      BY <2>1, <2>2, <3>1
    <3> QED
      BY <1>1, <3>1, <3>2, <3>3, <3>4 DEF OneBatch
  <2>3. CASE \E to \in {"done", "wait"} : worker' = [worker EXCEPT ![w] = to] /\ queue' = queue
    BY <1>1, <2>1, <2>3 DEF IndInv, OneBatch
  <2> QED
    BY <1>1, <2>2, <2>3
<1>4. FilesOK' /\ LoopOK' /\ LogOrder'
  BY <1>1, SameLog DEF IndInv, FilesOK, LoopOK, InLoop, Passed, Batch
<1>5. Stages'
  BY <1>1 DEF IndInv, Stages
<1>6. ScanOK'
  BY <1>1, SameLog DEF IndInv, ScanOK, Handled
<1> QED
  BY <1>2, <1>3, <1>4, <1>5, <1>6 DEF IndInv

(* The batch that the sink answers for is the scanner's.                    *)
LEMMA DeliverStep ==
  ASSUME IndInv, NEW w \in Workers, Deliver(w) \/ DeliverFails(w)
  PROVE  IndInv'
<1>1. /\ worker[w] = "deliver" /\ worker' = [worker EXCEPT ![w] = "check"]
      /\ \/ scanner' = "offset" /\ acked' = acked \cup pending
         \/ scanner' = "failed" /\ acked' = acked
      /\ faults' \in {faults, faults + 1}
      /\ UNCHANGED <<archives, active, present, written, offset_file, pending_file,
                     next_sequence, pending, segments, records, queue, stopping, missed,
                     sessions>>
  BY DEF Deliver, DeliverFails, logVars, fileVars, scanVars, Fault
<1>2. /\ scanner = "await" /\ queue = <<>> /\ \A v \in Workers : worker[v] = "deliver" => v = w
      /\ pending # {}
  BY <1>1 DEF IndInv, OneBatch, Stages
<1>3. TypeOK'
  BY <1>1 DEF IndInv, TypeOK
<1>4. OneBatch'
  BY <1>1, <1>2 DEF IndInv, TypeOK, OneBatch
<1>5. FilesOK' /\ LoopOK' /\ LogOrder'
  BY <1>1, <1>2, SameLog DEF IndInv, FilesOK, LoopOK, InLoop, Passed, Batch
<1>6. Stages' /\ ScanOK'
  BY <1>1, <1>2 DEF IndInv, Stages, ScanOK
<1> QED
  BY <1>3, <1>4, <1>5, <1>6 DEF IndInv

(* The invariant holds on an empty disk.                                    *)
LEMMA IndInvInit == Init => IndInv
<1> SUFFICES ASSUME Init PROVE IndInv
  OBVIOUS
<1>1. TypeOK
  <2>1. 0 \in 0..MaxRecords
    BY Options
  <2>2. Nothing \in [archived : SUBSET Nat, active : BOOLEAN]
    BY DEF Nothing
  <2>3. [w \in Workers |-> "done"] \in [Workers -> {"check", "wait", "deliver", "done"}]
    OBVIOUS
  <2>4. <<>> \in Seq(SUBSET Record) /\ FALSE \in BOOLEAN
    OBVIOUS
  <2> QED
    BY <2>1, <2>2, <2>3, <2>4 DEF Init, TypeOK
<1>2. OnDisk = {}
  BY DEF Init, OnDisk
<1> QED
  BY <1>1, <1>2 DEF Init, IndInv, LogOrder, FilesOK, LoopOK, InLoop, Passed, Batch,
     Stages, ScanOK, OneBatch

(* Every step keeps it.                                                     *)
LEMMA IndInvNext == IndInv /\ [Next]_vars => IndInv'
<1> SUFFICES ASSUME IndInv, [Next]_vars PROVE IndInv'
  OBVIOUS
<1>1. CASE Append1
  BY <1>1, AppendStep
<1>2. CASE Rotate
  BY <1>2, RotateStep
<1>3. CASE Reopen \/ Start \/ StopSignal \/ Crash
  BY <1>3, ProcessStep
<1>4. CASE Load \/ LoadFails
  BY <1>4, LoadStep
<1>5. CASE Loop
  BY <1>5, LoopStep
<1>6. CASE ReadSegment
  BY <1>6, ReadStep
<1>7. CASE ReadSegmentFails
  BY <1>7, ReadFailsStep
<1>8. CASE ScanDone
  BY <1>8, ScanDoneStep
<1>9. CASE StorePending \/ StorePendingFails \/ RemovePending \/ RemovePendingFails
  BY <1>9, StoreAndRemoveStep
<1>10. CASE Submit
  BY <1>10, SubmitStep
<1>11. CASE StoreOffset \/ StoreOffsetFails
  BY <1>11, StoreOffsetStep
<1>12. CASE ScanFails \/ Failed \/ WakeUp \/ StopDispatcher \/ Joined
  BY <1>12, TurnStep
<1>13. CASE \E w \in Workers : WorkerStep(w) \/ DeliverFails(w)
  BY <1>13, WorkerCheckStep, DeliverStep DEF WorkerStep
<1>14. CASE UNCHANGED vars
  BY SMTT(30), <1>14, SameLog DEF vars, logVars, fileVars, scanVars, dispatchVars, IndInv, TypeOK,
     LogOrder, FilesOK,
     LoopOK, InLoop, Passed, Batch, Handled, OnDisk, Stages, ScanOK, OneBatch, Nothing
<1> QED
  BY <1>1, <1>2, <1>3, <1>4, <1>5, <1>6, <1>7, <1>8, <1>9, <1>10, <1>11, <1>12, <1>13,
     <1>14
     DEF Next, ScannerStep, ScannerFails

-----------------------------------------------------------------------------
(* Every state of the delivery, over any number of crashes and restarts,    *)
(* satisfies the inductive invariant.                                       *)
THEOREM Invariance == Spec => []IndInv
BY IndInvInit, IndInvNext, PTL DEF Spec

(* Every variable of the scanner, the dispatcher and the files keeps its    *)
(* type.                                                                    *)
THEOREM TypeCorrect == Spec => []TypeOK
<1>1. IndInv => TypeOK
  BY DEF IndInv
<1> QED
  BY <1>1, Invariance, PTL

(* The offset file never passes over a record on disk that the sink did not *)
(* acknowledge, unless a scan listed it and could not read it               *)
(* (run_shard_delivery_scanner, for every combination of failures the code  *)
(* handles and any crash).                                                  *)
THEOREM OffsetSkipsOnlyMissed == Spec => []SkipsOnlyMissed
<1>1. IndInv => SkipsOnlyMissed
  BY DEF IndInv, FilesOK, Passed, Handled, SkipsOnlyMissed
<1> QED
  BY <1>1, Invariance, PTL

(* A batch on its way to the sink starts at or after the stored offset, or  *)
(* is the batch that ended there: after a crash or a failed store at most   *)
(* the last batch is sent twice.                                            *)
THEOREM ReplayIsLastBatch == Spec => []ReplayWindow
<1>1. IndInv => ReplayWindow
  BY DEF IndInv, LoopOK, InLoop, Batch, Stages, ReplayWindow, InFlight
<1> QED
  BY <1>1, Invariance, PTL

(* No step, of the scanner or of a restart, takes the stored offset back.   *)
THEOREM OffsetNeverGoesBack == Spec => OffsetMonotone
<1>1. IndInv /\ [Next]_vars => [offset_file' >= offset_file]_vars
  <2> SUFFICES ASSUME IndInv, Next PROVE offset_file' >= offset_file
    OBVIOUS
  <2>1. offset_file \in Nat
    BY DEF IndInv, TypeOK
  <2>2. CASE StoreOffset \/ StoreOffsetFails
    <3>1. scanner = "offset" /\ offset_file' \in {offset_file, NextOf(pending)}
      BY <2>2 DEF StoreOffset, StoreOffsetFails
    <3>2. NextOf(pending) \in Nat /\ offset_file <= NextOf(pending)
      BY <3>1, OffsetFacts
    <3> QED
      BY <2>1, <3>1, <3>2
  <2>3. CASE ~(StoreOffset \/ StoreOffsetFails)
    <3>1. offset_file' = offset_file
      BY <2>3 DEF Next, ScannerStep, ScannerFails, WorkerStep, fileVars, Append1, Rotate,
         Reopen, Load, LoadFails,
         Loop, ReadSegment, ReadSegmentFails, ScanFails, ScanDone, StorePending,
         StorePendingFails, Submit,
         RemovePending, RemovePendingFails, Failed, WakeUp, StopDispatcher, Joined,
         Start, StopSignal, Crash,
         WorkerCheck, Deliver, DeliverFails
    <3> QED
      BY <2>1, <3>1
  <2> QED
    BY <2>2, <2>3
<1> QED
  BY <1>1, Invariance, PTL DEF Spec, OffsetMonotone

=============================================================================
