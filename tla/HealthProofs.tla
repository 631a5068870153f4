---------------------------- MODULE HealthProofs ----------------------------
(****************************************************************************)
(* Proofs about the sliding-window failure counters: for any number of      *)
(* threads and buckets, however their atomic operations interleave and      *)
(* whatever the clock does, recent_sum never counts a failure that left the *)
(* window; it counts every failure of the window that was recorded after    *)
(* the last disturbed rotation; and such a failure shows in every status    *)
(* reply that was asked for after it.                                       *)
(* IndInv is the invariant of the first bound: it compares every bucket,    *)
(* and every partial sum of a reader, with the failures that were counted   *)
(* in that bucket since the minute on its label. CountInv is that of the    *)
(* other two: it follows the rotation that nothing disturbs through its     *)
(* steps, and keeps the failures of the window in the buckets of their      *)
(* minutes.                                                                 *)
(****************************************************************************)
EXTENDS Health, FiniteSetTheorems, WellFoundedInduction, TLAPS

-----------------------------------------------------------------------------
(* What the assumption says of the ring of buckets.                         *)
LEMMA Options ==
  /\ NumWindows \in Nat /\ NumWindows > 1 /\ 0 \in Bucket
  /\ Bucket \subseteq Nat
  /\ \A b \in Nat : b \in Bucket <=> b < NumWindows
BY HealthAssumption DEF Bucket

(* The counter that collect_health_snapshot sums next is one of those left. *)
LEMMA FirstProperties ==
  ASSUME NEW S \in SUBSET Counters, S # {}
  PROVE  First(S) \in S
<1>1. /\ DOMAIN SnapshotOrder = 1..6
      /\ SnapshotOrder[1] = "segment" /\ SnapshotOrder[2] = "line"
      /\ SnapshotOrder[3] = "gzip_read" /\ SnapshotOrder[4] = "checkpoint"
      /\ SnapshotOrder[5] = "gzip_archive" /\ SnapshotOrder[6] = "recovery"
  BY DEF SnapshotOrder
<1> DEFINE P(i) == SnapshotOrder[i] \in S /\ \A j \in 1..(i - 1) : SnapshotOrder[j] \notin S
<1>2. \E i \in 1..6 : SnapshotOrder[i] \in S
  BY <1>1, HealthAssumption
<1>3. \E i \in 1..6 : P(i)
  <2>1. CASE SnapshotOrder[1] \in S
    <3>1. P(1)
      BY <2>1
    <3> QED BY <3>1
  <2>2. CASE SnapshotOrder[1] \notin S /\ SnapshotOrder[2] \in S
    <3>1. P(2)
      BY <2>2
    <3> QED BY <3>1
  <2>3. CASE SnapshotOrder[1] \notin S /\ SnapshotOrder[2] \notin S /\ SnapshotOrder[3] \in S
    <3>1. P(3)
      BY <2>3
    <3> QED BY <3>1
  <2>4. CASE SnapshotOrder[1] \notin S /\ SnapshotOrder[2] \notin S /\ SnapshotOrder[3] \notin S
             /\ SnapshotOrder[4] \in S
    <3>1. P(4)
      BY <2>4
    <3> QED BY <3>1
  <2>5. CASE SnapshotOrder[1] \notin S /\ SnapshotOrder[2] \notin S /\ SnapshotOrder[3] \notin S
             /\ SnapshotOrder[4] \notin S /\ SnapshotOrder[5] \in S
    <3>1. P(5)
      BY <2>5
    <3> QED BY <3>1
  <2>6. CASE SnapshotOrder[1] \notin S /\ SnapshotOrder[2] \notin S /\ SnapshotOrder[3] \notin S
             /\ SnapshotOrder[4] \notin S /\ SnapshotOrder[5] \notin S /\ SnapshotOrder[6] \in S
    <3>1. P(6)
      BY <2>6
    <3> QED BY <3>1
  <2> QED
    BY <1>2, <2>1, <2>2, <2>3, <2>4, <2>5, <2>6
<1>4. \E i \in DOMAIN SnapshotOrder : P(i)
  BY <1>1, <1>3
<1>5. P(CHOOSE i \in DOMAIN SnapshotOrder : P(i))
  BY <1>4
<1> QED
  BY <1>5 DEF First

-----------------------------------------------------------------------------
(* A failure that was counted.                                              *)
Event == [id : Nat, minute : Nat, seen : Nat, bucket : Bucket]

(* The failures counted in bucket b of counter c, in the buckets before b,  *)
(* and in any bucket, from minute m on.                                     *)
Since(c, b, m) == {e \in events[c] : e.bucket = b /\ e.seen >= m}
Before(c, b, m) == {e \in events[c] : e.bucket < b /\ e.seen >= m}
Inside(c, m) == {e \in events[c] : e.seen >= m}
(* The first minute of the window that recent_sum has fixed for counter c.  *)
From(c) == reply.minute[c] - NumWindows + 1

(* The types of the variables, and what there is while a call is under way. *)
TypeInv ==
  /\ now \in Nat /\ peak \in Nat /\ now <= peak
  /\ windows \in [Counters -> [Bucket -> Nat]]
  /\ window_minutes \in [Counters -> [Bucket -> Nat]]
  /\ last_minute \in [Counters -> Nat]
  /\ current_bucket \in [Counters -> Bucket]
  /\ events \in [Counters -> SUBSET Event]
  /\ thread \in [Threads ->
       [at : {"idle", "load", "exchange", "bucket", "store", "clear", "label", "index",
              "add", "total"},
        counter : Counters \cup {"none"}, minute : Nat, last : Nat, next : Bucket]]
  /\ \A t \in Threads : thread[t].at # "idle" => thread[t].counter \in Counters
  /\ reply \in
       [at : {"idle", "counter", "minute", "window", "done"}, api : {"http", "grpc", "grpc2"},
        minute : [Counters -> Nat], todo : SUBSET Counters, bucket : Bucket,
        recent : [Counters -> Nat], first : [Counters -> Nat],
        known : [Counters -> SUBSET Event], oldest : Nat]
  /\ reply.at \in {"counter", "minute", "window"} => reply.todo # {}

(* Failures are finitely many and each has a number of its own.             *)
EventsOK ==
  \A c \in Counters :
    /\ IsFiniteSet(events[c])
    /\ \A e \in events[c] : e.id < Cardinality(events[c])

(* No thread, reader or bucket holds a minute that the clock has not shown. *)
NoFuture ==
  /\ \A t \in Threads : thread[t].minute <= peak
  /\ \A c \in Counters : reply.minute[c] <= peak
  /\ \A c \in Counters : \A b \in Bucket : window_minutes[c][b] <= peak

(* A bucket holds no more than what was counted in it since the minute on   *)
(* its label, and between its clearing and its labelling no more than what  *)
(* was counted in it since the minute that the label will show.             *)
LabelsOK ==
  /\ \A c \in Counters : \A b \in Bucket :
       windows[c][b] <= Cardinality(Since(c, b, window_minutes[c][b]))
  /\ \A t \in Threads :
       LET c == thread[t].counter
           b == thread[t].next
       IN  thread[t].at = "label" => windows[c][b] <= Cardinality(Since(c, b, thread[t].minute))

(* A reader that has accepted a bucket's label will find in the bucket only *)
(* failures of its window, also when the bucket is taken over before it is  *)
(* read; its sum so far covers the buckets before the one it is at.         *)
SumOK ==
  /\ LET c == First(reply.todo)
     IN  /\ reply.at = "window" =>
              windows[c][reply.bucket] <= Cardinality(Since(c, reply.bucket, From(c)))
         /\ reply.at \in {"minute", "window"} =>
              reply.recent[c] <= Cardinality(Before(c, reply.bucket, From(c)))
  /\ \A c \in Counters : reply.recent[c] <= Cardinality(Inside(c, From(c)))

(* The inductive invariant.                                                 *)
IndInv == TypeInv /\ EventsOK /\ NoFuture /\ LabelsOK /\ SumOK

-----------------------------------------------------------------------------
(* The invariant is enough for the property.                                *)
LEMMA SumImpliesForgets == IndInv => ForgetsExpired
<1> SUFFICES ASSUME IndInv, NEW c \in Counters
             PROVE  reply.recent[c]
                      <= Cardinality({e \in events[c] : e.seen > reply.minute[c] - NumWindows})
  BY DEF ForgetsExpired
<1>1. reply.minute[c] \in Nat /\ NumWindows \in Nat /\ events[c] \subseteq Event
  BY Options DEF IndInv, TypeInv
<1>2. \A e \in events[c] : e.seen \in Nat
  BY <1>1 DEF Event
<1>3. Inside(c, From(c)) = {e \in events[c] : e.seen > reply.minute[c] - NumWindows}
  BY <1>1, <1>2 DEF Inside, From
<1> QED
  BY <1>3 DEF IndInv, SumOK

(* Sets of failures are finite and their cardinalities grow with them.      *)
LEMMA SetsOfEvents ==
  ASSUME IndInv, NEW c \in Counters
  PROVE  /\ events[c] \in SUBSET Event /\ IsFiniteSet(events[c]) /\ Cardinality(events[c]) \in Nat
         /\ \A e \in events[c] : e.seen \in Nat /\ e.bucket \in Bucket /\ e.bucket \in Nat
         /\ \A S : S \subseteq events[c] => IsFiniteSet(S) /\ Cardinality(S) \in Nat
         /\ \A S, T : S \subseteq T /\ T \subseteq events[c] => Cardinality(S) <= Cardinality(T)
<1>1. events[c] \in SUBSET Event /\ IsFiniteSet(events[c])
  BY DEF IndInv, TypeInv, EventsOK
<1>2. \A S : S \subseteq events[c] => IsFiniteSet(S) /\ Cardinality(S) \in Nat
  BY <1>1, FS_Subset, FS_CardinalityType
<1>3. ASSUME NEW S, NEW T, S \subseteq T, T \subseteq events[c]
      PROVE Cardinality(S) <= Cardinality(T)
  BY <1>2, <1>3, FS_Subset
<1>4. \A e \in events[c] : e.seen \in Nat /\ e.bucket \in Bucket /\ e.bucket \in Nat
  BY <1>1, Options DEF Event
<1> QED
  BY <1>1, <1>2, <1>3, <1>4

(* What a reader's step from one bucket to the next adds.                   *)
LEMMA SumSteps ==
  ASSUME IndInv, NEW c \in Counters, NEW b \in Bucket, NEW m \in Int
  PROVE  /\ Cardinality(Since(c, b, m)) \in Nat
         /\ Cardinality(Before(c, b, m)) \in Nat
         /\ Cardinality(Before(c, b, m)) <= Cardinality(Before(c, b + 1, m))
         /\ Cardinality(Before(c, b, m)) <= Cardinality(Inside(c, m))
         /\ Cardinality(Before(c, b, m)) + Cardinality(Since(c, b, m))
              = Cardinality(Before(c, b + 1, m))
         /\ Cardinality(Before(c, b + 1, m)) <= Cardinality(Inside(c, m))
<1>1. /\ Since(c, b, m) \subseteq events[c] /\ Before(c, b, m) \subseteq events[c]
      /\ Before(c, b + 1, m) \subseteq events[c] /\ Inside(c, m) \subseteq events[c]
      /\ Before(c, b, m) \subseteq Inside(c, m) /\ Before(c, b + 1, m) \subseteq Inside(c, m)
  BY DEF Since, Before, Inside
<1>2. b \in Nat /\ \A e \in events[c] : e.bucket \in Nat
  BY SetsOfEvents, Options
<1>3. Before(c, b + 1, m) = Before(c, b, m) \cup Since(c, b, m)
  <2>1. \A e \in events[c] : e.bucket < b + 1 <=> e.bucket < b \/ e.bucket = b
    BY <1>2
  <2>2. \A e : e \in Before(c, b + 1, m) <=> e \in Before(c, b, m) \/ e \in Since(c, b, m)
    BY <2>1 DEF Since, Before
  <2>3. Before(c, b + 1, m) \subseteq Before(c, b, m) \cup Since(c, b, m)
    BY <2>2
  <2>4. Before(c, b, m) \cup Since(c, b, m) \subseteq Before(c, b + 1, m)
    BY <2>2
  <2> QED
    BY <2>3, <2>4
<1>4. Before(c, b, m) \cap Since(c, b, m) = {}
  <2>1. \A e \in events[c] : ~(e.bucket < b /\ e.bucket = b)
    BY <1>2
  <2> QED
    BY <2>1 DEF Since, Before
<1>5. /\ IsFiniteSet(Before(c, b, m)) /\ IsFiniteSet(Since(c, b, m))
      /\ Cardinality(Before(c, b, m)) \in Nat /\ Cardinality(Since(c, b, m)) \in Nat
  BY <1>1, SetsOfEvents
<1>6. Cardinality(Before(c, b + 1, m)) = Cardinality(Before(c, b, m)) + Cardinality(Since(c, b, m))
  <2>1. Cardinality(Before(c, b, m) \cap Since(c, b, m)) = 0
    BY <1>4, FS_EmptySet
  <2>2. Cardinality(Before(c, b, m) \cup Since(c, b, m)) =
          Cardinality(Before(c, b, m)) + Cardinality(Since(c, b, m)) - Cardinality(Before(c, b,
            m) \cap Since(c, b, m))
    BY <1>5, FS_Union
  <2>3. Cardinality(Before(c, b + 1, m)) = Cardinality(Before(c, b, m) \cup Since(c, b, m))
    BY <1>3
  <2> HIDE DEF Before, Since
  <2> QED
    BY <1>5, <2>1, <2>2, <2>3
<1>7. /\ Cardinality(Before(c, b, m)) <= Cardinality(Inside(c, m))
      /\ Cardinality(Before(c, b + 1, m)) <= Cardinality(Inside(c, m))
  BY <1>1, SetsOfEvents
<1>8. Cardinality(Before(c, b, m)) <= Cardinality(Before(c, b + 1, m))
  BY <1>5, <1>6
<1> QED
  BY <1>5, <1>6, <1>7, <1>8

(* The sets of failures change only with the failures.                      *)
LEMMA SameCounts ==
  ASSUME IndInv, UNCHANGED <<windows, window_minutes, events>>
  PROVE  /\ EventsOK'
         /\ \A c, b, m : Since(c, b, m)' = Since(c, b, m)
         /\ \A c, b, m : Before(c, b, m)' = Before(c, b, m)
         /\ \A c, m : Inside(c, m)' = Inside(c, m)
         /\ \A c \in Counters : \A b \in Bucket :
              (windows[c][b])' <= Cardinality(Since(c, b, window_minutes[c][b]))'
BY DEF IndInv, EventsOK, LabelsOK, Since, Before, Inside

(* A step of a thread that touches no bucket and does not lead to the       *)
(* labelling of one.                                                        *)
LEMMA QuietStep ==
  ASSUME IndInv, NEW t \in Threads,
         UNCHANGED <<now, windows, window_minutes, events, reply, peak>>,
         NEW v \in [at : {"idle", "load", "exchange", "bucket", "store", "clear", "index",
              "add", "total"},
              counter : Counters \cup {"none"}, minute : Nat, last : Nat, next : Bucket],
         v.at # "idle" => v.counter \in Counters,
         v.minute <= peak,
         thread' = [thread EXCEPT ![t] = v],
         last_minute' \in [Counters -> Nat],
         current_bucket' \in [Counters -> Bucket]
  PROVE  IndInv'
<1>1. /\ thread' \in [Threads ->
           [at : {"idle", "load", "exchange", "bucket", "store", "clear", "label", "index",
                  "add", "total"},
            counter : Counters \cup {"none"}, minute : Nat, last : Nat, next : Bucket]]
      /\ \A u \in Threads : thread'[u] = IF u = t THEN v ELSE thread[u]
  BY DEF IndInv, TypeInv
<1>2. TypeInv'
  BY <1>1 DEF IndInv, TypeInv
<1>3. EventsOK'
  BY SameCounts
<1>4. NoFuture'
  BY <1>1 DEF IndInv, NoFuture
<1>5. v.at # "label"
  OBVIOUS
<1>6. LabelsOK'
  <2>1. \A c \in Counters : \A b \in Bucket :
          (windows[c][b])' <= Cardinality(Since(c, b, window_minutes[c][b]))'
    BY SameCounts
  <2>2. ASSUME NEW u \in Threads, thread'[u].at = "label"
        PROVE  windows'[thread'[u].counter][thread'[u].next]
                 <= Cardinality(Since(thread[u].counter, thread[u].next, thread[u].minute))'
    <3>1. u # t /\ thread'[u] = thread[u]
      BY <1>1, <1>5, <2>2
    <3> QED
      BY <2>2, <3>1 DEF IndInv, LabelsOK, Since
  <2> QED
    BY <2>1, <2>2 DEF LabelsOK
<1>7. SumOK'
  BY DEF IndInv, SumOK, Since, Before, Inside, From
<1> QED
  BY <1>2, <1>3, <1>4, <1>6, <1>7 DEF IndInv

(* What a thread's local variables hold.                                    *)
LEMMA ThreadType ==
  ASSUME IndInv, NEW t \in Threads
  PROVE  /\ thread[t]
              \in [at : {"idle", "load", "exchange", "bucket", "store", "clear", "label", "index",
                  "add", "total"},
            counter : Counters \cup {"none"}, minute : Nat, last : Nat, next : Bucket]
         /\ thread[t].at # "idle" => thread[t].counter \in Counters
         /\ thread[t].minute \in Nat /\ thread[t].minute <= peak
         /\ peak \in Nat /\ now \in Nat /\ now <= peak
BY DEF IndInv, TypeInv, NoFuture

(* rotate_current_bucket stays inside the ring, for every pair of minutes.  *)
LEMMA NextBucketType ==
  ASSUME NEW bucket \in Bucket, NEW last \in Nat, NEW minute \in Nat
  PROVE  NextBucket(bucket, last, minute) \in Bucket
<1>1. \A n \in Nat : n % NumWindows \in Bucket
  BY HealthAssumption DEF Bucket
<1>2. CASE last = 0 \/ minute <= last \/ minute - last >= NumWindows
  BY <1>1, <1>2 DEF NextBucket
<1>3. CASE ~(last = 0 \/ minute <= last \/ minute - last >= NumWindows)
  <2>1. minute - last \in Nat /\ bucket \in Nat
    BY <1>3, Options
  <2>2. bucket + (minute - last) \in Nat
    BY <2>1
  <2> QED
    BY <1>1, <1>3, <2>2 DEF NextBucket
<1> QED
  BY <1>2, <1>3

(* record, the loads, the exchange and the store of the bucket's number are *)
(* such steps.                                                              *)
LEMMA ThreadQuiet ==
  ASSUME IndInv, NEW t \in Threads, UNCHANGED <<now, peak, reply>>,
         \/ LoadLast(t) \/ Exchange(t) \/ LoadBucket(t) \/ StoreBucket(t) \/ LoadIndex(t)
            \/ AddLifetime(t)
         \/ \E c \in Counters : Record(t, c)
  PROVE  IndInv'
<1>1. CASE \E c \in Counters : Record(t, c)
  <2>1. PICK c \in Counters : Record(t, c)
    BY <1>1
  <2> DEFINE v == [Idle EXCEPT !.at = "load", !.counter = c, !.minute = now]
  <2>2. Idle \in [at : {"idle"}, counter : {"none"}, minute : Nat, last : Nat, next : Bucket]
    BY Options DEF Idle
  <2>0. now \in Nat /\ now <= peak
    BY ThreadType
  <2>3. thread' = [thread EXCEPT ![t] = v] /\ UNCHANGED <<windows, window_minutes,
                                                          events, last_minute,
                                                          current_bucket>>
    BY <2>1 DEF Record, Move, countVars
  <2>4. /\ v \in [at : {"idle", "load", "exchange", "bucket", "store", "clear", "index", "add",
             "total"},
              counter : Counters \cup {"none"}, minute : Nat, last : Nat, next : Bucket]
        /\ v.counter \in Counters /\ v.minute <= peak
    <3>1. v \in [at : {"load"}, counter : {c}, minute : Nat, last : Nat, next : Bucket]
      BY <2>2, <2>0
    <3>2. v.minute = now
      BY <2>2
    <3> HIDE DEF v
    <3> QED
      BY <3>1, <3>2, <2>0
  <2> HIDE DEF v
  <2> QED
    BY <2>3, <2>4, QuietStep DEF IndInv, TypeInv
<1> DEFINE c == thread[t].counter
<1>2. CASE LoadLast(t)
  <2> DEFINE v == [thread[t] EXCEPT !.last = last_minute[c],
  !.at = IF last_minute[c] = thread[t].minute THEN "index" ELSE "exchange"]
  <2>1. thread[t].at = "load" /\ thread' = [thread EXCEPT ![t] = v]
        /\ UNCHANGED <<windows, window_minutes, events, last_minute, current_bucket>>
    BY <1>2 DEF LoadLast, At, Move, countVars
  <2>2. last_minute[c] \in Nat
    BY <2>1, ThreadType DEF IndInv, TypeInv
  <2>3. /\ v \in [at : {"idle", "load", "exchange", "bucket", "store", "clear", "index", "add",
             "total"},
              counter : Counters \cup {"none"}, minute : Nat, last : Nat, next : Bucket]
        /\ v.counter \in Counters /\ v.minute <= peak
    BY <2>1, <2>2, ThreadType
  <2> HIDE DEF v
  <2> QED
    BY <2>1, <2>3, QuietStep DEF IndInv, TypeInv
<1>3. CASE Exchange(t)
  <2>1. PICK to \in {"bucket", "load"} : thread'
               = [thread EXCEPT ![t] = [thread[t] EXCEPT !.at = to]]
    BY <1>3 DEF Exchange, Move
  <2> DEFINE v == [thread[t] EXCEPT !.at = to]
  <2>2. /\ thread[t].at = "exchange" /\ UNCHANGED <<windows, window_minutes, events,
                                                    current_bucket>>
        /\ last_minute' \in {last_minute, [last_minute EXCEPT ![c] = thread[t].minute]}
    BY <1>3 DEF Exchange, At
  <2>3. last_minute' \in [Counters -> Nat]
    BY <2>2, ThreadType DEF IndInv, TypeInv
  <2>4. /\ v \in [at : {"idle", "load", "exchange", "bucket", "store", "clear", "index", "add",
             "total"},
              counter : Counters \cup {"none"}, minute : Nat, last : Nat, next : Bucket]
        /\ v.counter \in Counters /\ v.minute <= peak
    BY <2>2, ThreadType
  <2> HIDE DEF v
  <2> QED
    BY <2>1, <2>2, <2>3, <2>4, QuietStep DEF IndInv, TypeInv, v
<1>4. CASE LoadBucket(t)
  <2> DEFINE n == NextBucket(current_bucket[c], thread[t].last, thread[t].minute)
             v == [thread[t] EXCEPT !.next = n, !.at = "store"]
  <2>1. thread[t].at = "bucket" /\ thread' = [thread EXCEPT ![t] = v]
        /\ UNCHANGED <<windows, window_minutes, events, last_minute, current_bucket>>
    BY <1>4 DEF LoadBucket, At, Move, countVars
  <2>2. current_bucket[c] \in Bucket /\ thread[t].last \in Nat /\ thread[t].minute \in Nat
    BY <2>1, ThreadType DEF IndInv, TypeInv
  <2>3. n \in Bucket
    BY <2>2, NextBucketType
  <2> HIDE DEF n
  <2>4. /\ v \in [at : {"idle", "load", "exchange", "bucket", "store", "clear", "index", "add",
             "total"},
              counter : Counters \cup {"none"}, minute : Nat, last : Nat, next : Bucket]
        /\ v.counter \in Counters /\ v.minute <= peak
    BY <2>1, <2>3, ThreadType
  <2> HIDE DEF v
  <2> QED
    BY <2>1, <2>4, QuietStep DEF IndInv, TypeInv
<1>5. CASE StoreBucket(t)
  <2> DEFINE v == [thread[t] EXCEPT !.at = "clear"]
  <2>1. /\ thread[t].at = "store" /\ thread' = [thread EXCEPT ![t] = v]
           /\ UNCHANGED <<windows, window_minutes, events, last_minute>>
        /\ current_bucket' = [current_bucket EXCEPT ![c] = thread[t].next]
    BY <1>5 DEF StoreBucket, At, Move
  <2>2. current_bucket' \in [Counters -> Bucket]
    BY <2>1, ThreadType DEF IndInv, TypeInv
  <2>3. /\ v \in [at : {"idle", "load", "exchange", "bucket", "store", "clear", "index", "add",
             "total"},
              counter : Counters \cup {"none"}, minute : Nat, last : Nat, next : Bucket]
        /\ v.counter \in Counters /\ v.minute <= peak
    BY <2>1, ThreadType
  <2> HIDE DEF v
  <2> QED
    BY <2>1, <2>2, <2>3, QuietStep DEF IndInv, TypeInv
<1>6. CASE LoadIndex(t)
  <2> DEFINE v == [thread[t] EXCEPT !.next = current_bucket[c], !.at = "add"]
  <2>1. thread[t].at = "index" /\ thread' = [thread EXCEPT ![t] = v]
        /\ UNCHANGED <<windows, window_minutes, events, last_minute, current_bucket>>
    BY <1>6 DEF LoadIndex, At, Move, countVars
  <2>2. current_bucket[c] \in Bucket
    BY <2>1, ThreadType DEF IndInv, TypeInv
  <2>3. /\ v \in [at : {"idle", "load", "exchange", "bucket", "store", "clear", "index", "add",
             "total"},
              counter : Counters \cup {"none"}, minute : Nat, last : Nat, next : Bucket]
        /\ v.counter \in Counters /\ v.minute <= peak
    BY <2>1, <2>2, ThreadType
  <2> HIDE DEF v
  <2> QED
    BY <2>1, <2>3, QuietStep DEF IndInv, TypeInv
<1>7. CASE AddLifetime(t)
  <2>1. thread' = [thread EXCEPT ![t] = Idle] /\ UNCHANGED <<windows, window_minutes,
                                                             events, last_minute,
                                                             current_bucket>>
    BY <1>7 DEF AddLifetime, Move
  <2>2. /\ Idle \in [at : {"idle", "load", "exchange", "bucket", "store", "clear", "index", "add",
             "total"},
              counter : Counters \cup {"none"}, minute : Nat, last : Nat, next : Bucket]
        /\ Idle.at = "idle" /\ Idle.minute <= peak
    BY Options, ThreadType DEF Idle
  <2> QED
    BY <2>1, <2>2, QuietStep DEF IndInv, TypeInv
<1> QED
  BY <1>1, <1>2, <1>3, <1>4, <1>5, <1>6, <1>7

(* A thread that only goes on to its next operation keeps its locals.       *)
LEMMA ThreadMoved ==
  ASSUME IndInv, NEW t \in Threads, NEW to \in {"label", "index", "total"}, thread[t].at # "idle",
         thread' = [thread EXCEPT ![t] = [thread[t] EXCEPT !.at = to]]
  PROVE  /\ thread' \in [Threads ->
              [at : {"idle", "load", "exchange", "bucket", "store", "clear", "label", "index",
                     "add", "total"},
               counter : Counters \cup {"none"}, minute : Nat, last : Nat, next : Bucket]]
         /\ \A u \in Threads : u # t => thread'[u] = thread[u]
         /\ thread'[t].at = to
         /\ \A u \in Threads : /\ thread'[u].counter = thread[u].counter
                               /\ thread'[u].minute = thread[u].minute
                               /\ thread'[u].next = thread[u].next
         /\ \A u \in Threads : thread'[u].at # "idle" => thread'[u].counter \in Counters
<1> DEFINE v == [thread[t] EXCEPT !.at = to]
<1>1. /\ v \in [at : {"label", "index", "total"}, counter : Counters \cup {"none"}, minute : Nat,
           last : Nat, next : Bucket]
      /\ v.at = to /\ v.counter = thread[t].counter /\ v.minute = thread[t].minute
         /\ v.next = thread[t].next
      /\ v.counter \in Counters
  BY ThreadType
<1> HIDE DEF v
<1>2. thread' = [thread EXCEPT ![t] = v]
  BY DEF v
<1> QED
  BY SMTT(30), <1>1, <1>2 DEF IndInv, TypeInv

(* The store of 0 starts the bucket for its new minute.                     *)
LEMMA ClearStep ==
  ASSUME IndInv, NEW t \in Threads, UNCHANGED <<now, peak, reply>>, ClearBucket(t)
  PROVE  IndInv'
<1> DEFINE c == thread[t].counter
           b == thread[t].next
<1>1. /\ thread[t].at = "clear" /\ UNCHANGED <<window_minutes, last_minute,
                                               current_bucket, events>>
      /\ windows' = [windows EXCEPT ![c][b] = 0]
      /\ thread' = [thread EXCEPT ![t] = [thread[t] EXCEPT !.at = "label"]]
  BY DEF ClearBucket, At, Move
<1>2. c \in Counters /\ b \in Bucket
  BY <1>1, ThreadType
<1>3. /\ windows' \in [Counters -> [Bucket -> Nat]]
      /\ \A d \in Counters : \A a \in Bucket : windows'[d][a] = IF d = c
         /\ a = b THEN 0 ELSE windows[d][a]
  BY <1>1, <1>2 DEF IndInv, TypeInv
<1> HIDE DEF c, b
<1>4. /\ \A u \in Threads : u # t => thread'[u] = thread[u]
      /\ thread'[t].at = "label" /\ thread'[t].counter = c /\ thread'[t].next = b
      /\ \A u \in Threads : thread'[u].counter = thread[u].counter
         /\ thread'[u].next = thread[u].next /\ thread'[u].minute = thread[u].minute
  BY <1>1, ThreadMoved DEF c, b
<1>5. TypeInv'
  BY <1>1, <1>3, ThreadMoved DEF IndInv, TypeInv
<1>6. EventsOK' /\ NoFuture'
  BY <1>1, <1>4 DEF IndInv, EventsOK, NoFuture
<1>7. \A d \in Counters : \A a, m : Cardinality(Since(d, a, m)) \in Nat
      /\ Since(d, a, m)' = Since(d, a, m)
  <2>1. \A d \in Counters : \A a, m : Since(d, a, m) \subseteq events[d]
        /\ Since(d, a, m)' = Since(d, a, m)
    BY <1>1 DEF Since
  <2> QED
    BY <2>1, SetsOfEvents
<1>8. LabelsOK'
  <2>1. ASSUME NEW d \in Counters, NEW a \in Bucket
        PROVE  (windows[d][a])' <= Cardinality(Since(d, a, window_minutes[d][a]))'
    BY <1>1, <1>3, <1>7 DEF IndInv, LabelsOK
  <2>2. ASSUME NEW u \in Threads, thread'[u].at = "label"
        PROVE  windows'[thread'[u].counter][thread'[u].next]
                 <= Cardinality(Since(thread[u].counter, thread[u].next, thread[u].minute))'
    <3>1. thread[u].counter \in Counters /\ thread[u].next \in Bucket
      BY <1>1, <1>4, <2>2, ThreadType
    <3> DEFINE d == thread[u].counter
               a == thread[u].next
               m == thread[u].minute
    <3>2. /\ thread'[u].counter = d /\ thread'[u].next = a /\ thread'[u].minute = m
      BY <1>4
    <3>3. CASE d = c /\ a = b
      <4>1. windows'[d][a] = 0
        BY <1>3, <3>1, <3>3
      <4>2. windows'[d][a] <= Cardinality({x \in events[d] : x.bucket = a /\ x.seen >= m})
        <5>1. Cardinality({x \in events[d] : x.bucket = a /\ x.seen >= m}) \in Nat
          <6>1. Cardinality(Since(d, a, m)) \in Nat
            BY <1>7, <3>1
          <6> QED
            BY <6>1 DEF Since
        <5> QED
          BY <4>1, <5>1
      <4> HIDE DEF d, a, m
      <4> QED
        BY <1>1, <3>2, <4>2 DEF Since
    <3>4. CASE ~(d = c /\ a = b)
      <4>1. thread[u].at = "label"
        BY <1>4, <2>2, <3>4 DEF c, b
      <4>2. windows[d][a] <= Cardinality(Since(d, a, m))
        BY <4>1 DEF IndInv, LabelsOK
      <4>3. windows'[d][a] = windows[d][a]
        BY <1>3, <3>1, <3>4
      <4>4. windows'[d][a] <= Cardinality({x \in events[d] : x.bucket = a /\ x.seen >= m})
        BY <4>2, <4>3 DEF Since
      <4> HIDE DEF d, a, m
      <4> QED
        BY <1>1, <3>2, <4>4 DEF Since
    <3> QED
      BY <3>3, <3>4
  <2> QED
    BY <2>1, <2>2 DEF LabelsOK
<1>9. SumOK'
  <2> DEFINE d == First(reply.todo)
             a == reply.bucket
  <2>1. ASSUME reply.at = "window"
        PROVE  windows'[d][a] <= Cardinality(Since(d, a, From(d)))
    <3>1. d \in Counters /\ a \in Bucket
      BY <2>1, FirstProperties DEF IndInv, TypeInv
    <3>2. windows[d][a] <= Cardinality(Since(d, a, From(d)))
      BY <2>1 DEF IndInv, SumOK
    <3> QED
      BY <1>3, <1>7, <3>1, <3>2
  <2> QED
    BY <1>1, <2>1 DEF IndInv, SumOK, Since, Before, Inside, From
<1> QED
  BY <1>5, <1>6, <1>8, <1>9 DEF IndInv

(* The store of the minute makes the label true.                            *)
LEMMA LabelStep ==
  ASSUME IndInv, NEW t \in Threads, UNCHANGED <<now, peak, reply>>, LabelBucket(t)
  PROVE  IndInv'
<1> DEFINE c == thread[t].counter
           b == thread[t].next
           m == thread[t].minute
<1>1. /\ thread[t].at = "label" /\ UNCHANGED <<windows, last_minute, current_bucket,
                                               events>>
      /\ window_minutes' = [window_minutes EXCEPT ![c][b] = m]
      /\ thread' = [thread EXCEPT ![t] = [thread[t] EXCEPT !.at = "index"]]
  BY DEF LabelBucket, At, Move
<1>2. c \in Counters /\ b \in Bucket /\ m \in Nat /\ m <= peak
  BY <1>1, ThreadType
<1>3. /\ window_minutes' \in [Counters -> [Bucket -> Nat]]
      /\ \A d \in Counters : \A a \in Bucket :
           window_minutes'[d][a] = IF d = c /\ a = b THEN m ELSE window_minutes[d][a]
  BY <1>1, <1>2 DEF IndInv, TypeInv
<1>0. windows[c][b] <= Cardinality(Since(c, b, m))
  BY <1>1 DEF IndInv, LabelsOK
<1> HIDE DEF c, b, m
<1>4. /\ \A u \in Threads : u # t => thread'[u] = thread[u]
      /\ thread'[t].at = "index"
      /\ \A u \in Threads : thread'[u].minute = thread[u].minute
  BY <1>1, ThreadMoved
<1>5. TypeInv'
  BY <1>1, <1>3, ThreadMoved DEF IndInv, TypeInv
<1>6. EventsOK' /\ NoFuture'
  BY <1>1, <1>2, <1>3, <1>4 DEF IndInv, EventsOK, NoFuture
<1>7. \A d \in Counters : \A a, n : Since(d, a, n)' = Since(d, a, n)
  BY <1>1 DEF Since
<1>8. LabelsOK'
  <2>1. ASSUME NEW d \in Counters, NEW a \in Bucket
        PROVE  (windows[d][a])' <= Cardinality(Since(d, a, window_minutes[d][a]))'
    BY <1>0, <1>1, <1>3, <1>7 DEF IndInv, LabelsOK
  <2>2. ASSUME NEW u \in Threads, thread'[u].at = "label"
        PROVE  windows'[thread'[u].counter][thread'[u].next]
                 <= Cardinality(Since(thread[u].counter, thread[u].next, thread[u].minute))'
    <3>1. u # t /\ thread'[u] = thread[u]
      BY <1>4, <2>2
    <3> QED
      BY <1>1, <2>2, <3>1 DEF IndInv, LabelsOK, Since
  <2> QED
    BY <2>1, <2>2 DEF LabelsOK
<1>9. SumOK'
  BY <1>1 DEF IndInv, SumOK, Since, Before, Inside, From
<1> QED
  BY <1>5, <1>6, <1>8, <1>9 DEF IndInv

(* fetch_add counts the failure in the bucket and in the sets at once,      *)
(* whatever has become of the bucket since its index was loaded.            *)
LEMMA AddStep ==
  ASSUME IndInv, NEW t \in Threads, UNCHANGED <<now, peak, reply>>, AddRecent(t)
  PROVE  IndInv'
<1> DEFINE c == thread[t].counter
           b == thread[t].next
           e == [id |-> Cardinality(events[c]), minute |-> thread[t].minute, seen |-> peak,
             bucket |-> b]
<1>1. /\ thread[t].at = "add" /\ UNCHANGED <<window_minutes, last_minute, current_bucket>>
      /\ windows' = [windows EXCEPT ![c][b] = windows[c][b] + 1]
      /\ events' = [events EXCEPT ![c] = events[c] \cup {e}]
      /\ thread' = [thread EXCEPT ![t] = [thread[t] EXCEPT !.at = "total"]]
  BY DEF AddRecent, At, Move
<1>2. c \in Counters /\ b \in Bucket
  BY <1>1, ThreadType
<1>3. /\ windows' \in [Counters -> [Bucket -> Nat]]
      /\ \A d \in Counters : \A a \in Bucket :
           windows'[d][a] = IF d = c /\ a = b THEN windows[d][a] + 1 ELSE windows[d][a]
      /\ \A d \in Counters : \A a \in Bucket : windows[d][a] \in Nat
  BY <1>1, <1>2 DEF IndInv, TypeInv
<1>4. /\ e \in Event /\ e.id = Cardinality(events[c]) /\ e.seen = peak /\ e.bucket = b
         /\ peak \in Nat
  BY <1>2, SetsOfEvents, ThreadType DEF Event
<1>5. e \notin events[c]
  <2>1. \A x \in events[c] : x.id < Cardinality(events[c])
    BY <1>2 DEF IndInv, EventsOK
  <2>2. Cardinality(events[c]) \in Nat
    BY <1>2, SetsOfEvents
  <2> QED
    BY <1>4, <2>1, <2>2
<1> HIDE DEF c, b, e
<1>6. /\ events' \in [Counters -> SUBSET Event] /\ events'[c] = events[c] \cup {e}
      /\ \A d \in Counters : d # c => events'[d] = events[d]
  BY <1>1, <1>2, <1>4 DEF IndInv, TypeInv
<1>7. /\ \A u \in Threads : u # t => thread'[u] = thread[u]
      /\ thread'[t].at = "total"
      /\ \A u \in Threads : thread'[u].minute = thread[u].minute
  BY <1>1, ThreadMoved
<1>8. TypeInv'
  BY <1>1, <1>3, <1>6, ThreadMoved DEF IndInv, TypeInv
<1>9. IsFiniteSet(events'[c]) /\ Cardinality(events'[c]) = Cardinality(events[c]) + 1
  BY <1>2, <1>5, <1>6, SetsOfEvents, FS_AddElement
<1>10. EventsOK'
  <2>1. \A x \in events'[c] : x.id < Cardinality(events'[c])
    <3>1. \A x \in events[c] : x.id < Cardinality(events[c]) /\ x.id \in Nat
      BY <1>2, SetsOfEvents DEF IndInv, EventsOK, Event
    <3>2. Cardinality(events[c]) \in Nat
      BY <1>2, SetsOfEvents
    <3> QED
      BY <1>4, <1>6, <1>9, <3>1, <3>2
  <2> QED
    BY <1>6, <1>9, <2>1 DEF IndInv, EventsOK
<1>11. NoFuture'
  BY <1>1, <1>7 DEF IndInv, NoFuture
<1>12. ASSUME NEW d \in Counters
       PROVE  \A S, T : S \subseteq T /\ T \subseteq events'[d] => Cardinality(S) <= Cardinality(T)
  <2>1. IsFiniteSet(events'[d])
    BY <1>10 DEF EventsOK
  <2> QED
    BY <2>1, FS_Subset
<1>13. ASSUME NEW d \in Counters, NEW a, NEW m
       PROVE  /\ Cardinality(Since(d, a, m)) <= Cardinality(Since(d, a, m)')
              /\ Cardinality(Before(d, a, m)) <= Cardinality(Before(d, a, m)')
              /\ Cardinality(Inside(d, m)) <= Cardinality(Inside(d, m)')
              /\ Cardinality(Since(d, a, m)) \in Nat /\ Cardinality(Since(d, a, m)') \in Nat
              /\ Cardinality(Before(d, a, m)) \in Nat /\ Cardinality(Before(d, a, m)') \in Nat
              /\ Cardinality(Inside(d, m)) \in Nat /\ Cardinality(Inside(d, m)') \in Nat
  <2>1. events[d] \subseteq events'[d]
    BY <1>6
  <2>2. /\ Since(d, a, m) \subseteq Since(d, a, m)' /\ Before(d, a, m) \subseteq Before(d, a, m)'
        /\ Inside(d, m) \subseteq Inside(d, m)'
        /\ Since(d, a, m)' \subseteq events'[d] /\ Before(d, a, m)' \subseteq events'[d]
           /\ Inside(d, m)' \subseteq events'[d]
    BY <2>1 DEF Since, Before, Inside
  <2>3. \A S : S \subseteq events'[d] => IsFiniteSet(S) /\ Cardinality(S) \in Nat
    BY <1>10, FS_Subset, FS_CardinalityType DEF EventsOK
  <2> QED
    BY <1>12, <2>2, <2>3
<1>14. ASSUME NEW m \in Int, m <= peak
       PROVE  Cardinality({x \in events'[c] : x.bucket = b /\ x.seen >= m})
                = Cardinality(Since(c, b, m)) + 1
  <2>1. {x \in events'[c] : x.bucket = b /\ x.seen >= m} = Since(c, b, m) \cup {e}
    <3>1. e.bucket = b /\ e.seen >= m
      BY <1>4, <1>14
    <3> QED
      BY <3>1, <1>6 DEF Since
  <2>3. e \notin Since(c, b, m) /\ Since(c, b, m) \subseteq events[c]
    BY <1>5 DEF Since
  <2>4. IsFiniteSet(Since(c, b, m))
    BY <2>3, <1>2, SetsOfEvents
  <2> QED
    BY <2>1, <2>3, <2>4, FS_AddElement
<1>15. ASSUME NEW d \in Counters, NEW a \in Bucket, NEW m \in Int, m <= peak,
              windows[d][a] <= Cardinality(Since(d, a, m))
       PROVE  windows'[d][a] <= Cardinality(Since(d, a, m)')
  <2>1. CASE d = c /\ a = b
    <3>1. windows'[d][a] = windows[d][a] + 1 /\ windows[d][a] \in Nat
      BY <1>3, <2>1
    <3>2. Cardinality(Since(d, a, m)') = Cardinality(Since(d, a, m)) + 1
      <4>1. Cardinality({x \in events'[d] : x.bucket = a /\ x.seen >= m})
              = Cardinality(Since(d, a, m)) + 1
        BY <1>14, <1>15, <2>1
      <4> QED
        BY <4>1 DEF Since
    <3>3. Cardinality(Since(d, a, m)) \in Nat
      BY <1>13
    <3> QED
      BY <1>15, <3>1, <3>2, <3>3
  <2>2. CASE ~(d = c /\ a = b)
    BY <1>3, <1>13, <1>15, <2>2
  <2> QED
    BY <2>1, <2>2
<1>16. LabelsOK'
  <2>1. ASSUME NEW d \in Counters, NEW a \in Bucket
        PROVE  (windows[d][a])' <= Cardinality(Since(d, a, window_minutes[d][a]))'
    <3>1. window_minutes[d][a] \in Int /\ window_minutes[d][a] <= peak
          /\ windows[d][a] <= Cardinality(Since(d, a, window_minutes[d][a]))
      BY DEF IndInv, TypeInv, NoFuture, LabelsOK
    <3>2. windows'[d][a]
            <= Cardinality({x \in events'[d] : x.bucket = a /\ x.seen >= window_minutes[d][a]})
      BY <3>1, <1>15 DEF Since
    <3> QED
      BY <1>1, <3>2 DEF Since
  <2>2. ASSUME NEW u \in Threads, thread'[u].at = "label"
        PROVE  windows'[thread'[u].counter][thread'[u].next]
                 <= Cardinality(Since(thread[u].counter, thread[u].next, thread[u].minute))'
    <3>1. u # t /\ thread'[u] = thread[u]
      BY <1>7, <2>2
    <3>2. /\ thread[u].counter \in Counters /\ thread[u].next \in Bucket /\ thread[u].minute \in Int
          /\ thread[u].minute <= peak
      BY <2>2, <3>1, ThreadType
    <3>3. windows[thread[u].counter][thread[u].next]
            <= Cardinality(Since(thread[u].counter, thread[u].next, thread[u].minute))
      BY <2>2, <3>1 DEF IndInv, LabelsOK
    <3>4. windows'[thread[u].counter][thread[u].next]
            <= Cardinality({x \in events'[thread[u].counter] :
                              x.bucket = thread[u].next /\ x.seen >= thread[u].minute})
      BY <3>2, <3>3, <1>15 DEF Since
    <3> QED
      BY <3>1, <3>4 DEF Since
  <2> QED
    BY <2>1, <2>2 DEF LabelsOK
<1>17. SumOK'
  <2> DEFINE d == First(reply.todo)
             a == reply.bucket
             m == From(d)
  <2>1. From(d)' = From(d) /\ \A x \in Counters : From(x)' = From(x)
    BY DEF From
  <2>2. \A x \in Counters : From(x) \in Int /\ From(x) <= peak /\ reply.recent[x] \in Nat
    BY <1>4, Options DEF From, IndInv, TypeInv, NoFuture
  <2>3. reply.at \in {"minute", "window"} => d \in Counters /\ a \in Bucket
    BY FirstProperties DEF IndInv, TypeInv
  <2>4. reply.at = "window" => windows'[d][a] <= Cardinality(Since(d, a, m)')
    <3>1. SUFFICES ASSUME reply.at = "window" PROVE windows'[d][a] <= Cardinality(Since(d, a, m)')
      OBVIOUS
    <3>2. windows[d][a] <= Cardinality(Since(d, a, m))
      BY <3>1 DEF IndInv, SumOK
    <3> HIDE DEF d, a, m
    <3>3. m \in Int /\ m <= peak /\ d \in Counters /\ a \in Bucket
      BY <3>1, <2>2, <2>3 DEF m
    <3>4. windows'[d][a] <= Cardinality({x \in events'[d] : x.bucket = a /\ x.seen >= m})
      BY <3>2, <3>3, <1>15 DEF Since
    <3> QED
      BY <3>4, <2>1 DEF Since, m, a, d
  <2>5. reply.at \in {"minute", "window"} => reply.recent[d] <= Cardinality(Before(d, a, m)')
    <3>1. SUFFICES ASSUME reply.at \in {"minute", "window"}
                   PROVE reply.recent[d] <= Cardinality(Before(d, a, m)')
      OBVIOUS
    <3>2. reply.recent[d] <= Cardinality(Before(d, a, m))
      BY <3>1 DEF IndInv, SumOK
    <3> HIDE DEF d, a, m
    <3>3. d \in Counters /\ reply.recent[d] \in Nat
      BY <3>1, <2>2, <2>3
    <3>4. /\ Cardinality(Before(d, a, m))
               <= Cardinality({x \in events'[d] : x.bucket < a /\ x.seen >= m})
          /\ Cardinality(Before(d, a, m)) \in Nat
          /\ Cardinality({x \in events'[d] : x.bucket < a /\ x.seen >= m}) \in Nat
      BY <3>3, <1>13 DEF Before
    <3>5. reply.recent[d] <= Cardinality({x \in events'[d] : x.bucket < a /\ x.seen >= m})
      BY <3>2, <3>3, <3>4
    <3> QED
      BY <3>5, <2>1 DEF Before, m, a, d
  <2>6. ASSUME NEW x \in Counters PROVE reply.recent[x] <= Cardinality(Inside(x, From(x)))'
    <3>1. reply.recent[x] <= Cardinality(Inside(x, From(x)))
      BY DEF IndInv, SumOK
    <3> DEFINE n == From(x)
    <3> HIDE DEF n
    <3>2. /\ Cardinality(Inside(x, n)) <= Cardinality({y \in events'[x] : y.seen >= n})
          /\ Cardinality(Inside(x, n)) \in Nat
             /\ Cardinality({y \in events'[x] : y.seen >= n}) \in Nat
      BY <1>13 DEF Inside
    <3>3. reply.recent[x] <= Cardinality({y \in events'[x] : y.seen >= n})
      BY <3>1, <3>2, <2>2 DEF n
    <3> QED
      BY <3>3, <2>1 DEF Inside, n
  <2> QED
    BY <2>4, <2>5, <2>6 DEF SumOK
<1> QED
  BY <1>8, <1>10, <1>11, <1>16, <1>17 DEF IndInv

-----------------------------------------------------------------------------
(* The type of a status reply under way.                                    *)
ReplyType ==
  [at : {"idle", "counter", "minute", "window", "done"}, api : {"http", "grpc", "grpc2"},
   minute : [Counters -> Nat], todo : SUBSET Counters, bucket : Bucket,
   recent : [Counters -> Nat], first : [Counters -> Nat],
   known : [Counters -> SUBSET Event], oldest : Nat]

(* The first minute of the window of r.                                     *)
Floor(r, c) == r.minute[c] - NumWindows + 1

(* r is a reply that may be under way: each of its sums covers failures of  *)
(* its window only.                                                         *)
ReplyFits(r) ==
  /\ r \in ReplyType
  /\ r.at \in {"counter", "minute", "window"} => r.todo # {}
  /\ \A c \in Counters : r.minute[c] <= peak
  /\ \A c \in Counters : r.recent[c] <= Cardinality(Inside(c, Floor(r, c)))

(* The sum that r is at: what SumOK says of the reply.                      *)
SumFits(r) ==
  /\ r.at = "window" =>
       windows[First(r.todo)][r.bucket]
         <= Cardinality(Since(First(r.todo), r.bucket, Floor(r, First(r.todo))))
  /\ r.at \in {"minute", "window"} =>
       r.recent[First(r.todo)]
         <= Cardinality(Before(First(r.todo), r.bucket, Floor(r, First(r.todo))))

(* The invariant in terms of the reply under way.                           *)
LEMMA ReplyNow == IndInv => ReplyFits(reply) /\ SumFits(reply)
BY DEF IndInv, TypeInv, NoFuture, SumOK, ReplyFits, SumFits, ReplyType, Floor, From

(* A step that changes the reply only keeps the invariant if the new reply  *)
(* fits.                                                                    *)
LEMMA ReplyMoves ==
  ASSUME IndInv, UNCHANGED <<now, countVars, thread, peak, events>>,
         NEW r, reply' = r, ReplyFits(r), SumFits(r)
  PROVE  IndInv'
<1>1. UNCHANGED <<windows, window_minutes, last_minute, current_bucket>>
  BY DEF countVars
<1>2. TypeInv'
  BY <1>1 DEF IndInv, TypeInv, ReplyFits, ReplyType
<1>3. EventsOK'
  BY <1>1, SameCounts
<1>4. NoFuture'
  BY <1>1 DEF IndInv, NoFuture, ReplyFits
<1>5. LabelsOK'
  BY <1>1 DEF IndInv, LabelsOK, Since
<1>6. SumOK'
  <2>1. r.at = "window" =>
          windows[First(r.todo)][r.bucket]
            <= Cardinality(Since(First(r.todo), r.bucket, Floor(r, First(r.todo))))
    BY DEF SumFits
  <2>2. r.at \in {"minute", "window"} =>
          r.recent[First(r.todo)]
            <= Cardinality(Before(First(r.todo), r.bucket, Floor(r, First(r.todo))))
    BY DEF SumFits
  <2>3. \A c \in Counters : r.recent[c] <= Cardinality(Inside(c, Floor(r, c)))
    BY DEF ReplyFits
  <2> QED
    BY <1>1, <2>1, <2>2, <2>3 DEF SumOK, From, Floor, Since, Before, Inside
<1> QED
  BY <1>2, <1>3, <1>4, <1>5, <1>6 DEF IndInv

(* The step to the next bucket, the next counter, the second snapshot or    *)
(* the reply.                                                               *)
LEMMA FurtherFits ==
  ASSUME IndInv, NEW r, ReplyFits(r), r.todo # {},
         r.recent[First(r.todo)]
           <= Cardinality(Before(First(r.todo), r.bucket + 1, Floor(r, First(r.todo))))
  PROVE  ReplyFits(Further(r)) /\ SumFits(Further(r))
<1>1. r \in ReplyType /\ r.bucket \in Bucket /\ r.bucket \in Nat /\ NumWindows \in Nat
  BY Options DEF ReplyFits, ReplyType
<1>2. CASE r.bucket < NumWindows - 1
  <2> DEFINE q == [r EXCEPT !.at = "minute", !.bucket = r.bucket + 1]
  <2>1. Further(r) = q
    BY <1>2 DEF Further
  <2>2. r.bucket + 1 \in Bucket
    BY <1>1, <1>2, Options
  <2>3. /\ q \in ReplyType /\ q.at = "minute" /\ q.bucket = r.bucket + 1 /\ q.todo = r.todo
        /\ q.minute = r.minute /\ q.recent = r.recent
    BY <1>1, <2>2 DEF ReplyType
  <2> HIDE DEF q
  <2>4. ReplyFits(q)
    BY <2>3 DEF ReplyFits, Floor
  <2>5. SumFits(q)
    BY <2>3 DEF SumFits, Floor
  <2> QED
    BY <2>1, <2>4, <2>5
<1>3. CASE ~(r.bucket < NumWindows - 1)
  <2> DEFINE rest == r.todo \ {First(r.todo)}
             q == [r EXCEPT !.at = "counter", !.todo = rest]
             g == [r EXCEPT !.at = "counter", !.todo = Counters, !.api = "grpc2",
                            !.first = r.recent]
             d == [r EXCEPT !.at = "done", !.todo = {},
                            !.first = IF r.api = "http" THEN r.recent ELSE r.first]
  <2>1. \/ rest # {} /\ Further(r) = q
        \/ Further(r) = g
        \/ Further(r) = d
    BY <1>3 DEF Further
  <2>2. rest # {} => ReplyFits(q) /\ SumFits(q)
    <3>1. /\ q \in ReplyType /\ q.at = "counter" /\ q.todo = rest
          /\ q.minute = r.minute /\ q.recent = r.recent
      BY <1>1 DEF ReplyType
    <3> HIDE DEF q, rest
    <3> QED
      BY <3>1 DEF ReplyFits, SumFits, Floor
  <2>3. ReplyFits(g) /\ SumFits(g)
    <3>1. /\ g \in ReplyType /\ g.at = "counter" /\ g.todo = Counters
          /\ g.minute = r.minute /\ g.recent = r.recent /\ Counters # {}
      BY <1>1 DEF ReplyType
    <3> HIDE DEF g
    <3> QED
      BY <3>1 DEF ReplyFits, SumFits, Floor
  <2>4. ReplyFits(d) /\ SumFits(d)
    <3>1. /\ d \in ReplyType /\ d.at = "done"
          /\ d.minute = r.minute /\ d.recent = r.recent
      BY <1>1 DEF ReplyType
    <3> HIDE DEF d
    <3> QED
      BY <3>1 DEF ReplyFits, SumFits, Floor
  <2> QED
    BY <2>1, <2>2, <2>3, <2>4
<1> QED
  BY <1>2, <1>3

(* A request starts from zero.                                              *)
LEMMA NoReplyFits == IndInv => ReplyFits(NoReply) /\ SumFits(NoReply)
<1> SUFFICES ASSUME IndInv PROVE ReplyFits(NoReply) /\ SumFits(NoReply)
  OBVIOUS
<1>1. Zero \in [Counters -> Nat] /\ \A c \in Counters : Zero[c] = 0
  BY DEF Zero
<1>2. /\ NoReply \in ReplyType /\ NoReply.at = "idle" /\ NoReply.minute = Zero
      /\ NoReply.recent = Zero
  BY <1>1, Options DEF NoReply, ReplyType
<1>3. peak \in Nat /\ NumWindows \in Nat
  BY Options DEF IndInv, TypeInv
<1>4. ASSUME NEW c \in Counters PROVE Cardinality(Inside(c, Floor(NoReply, c))) \in Nat
  BY SetsOfEvents DEF Inside
<1> QED
  BY <1>1, <1>2, <1>3, <1>4 DEF ReplyFits, SumFits

(* Every step of collect_health_snapshot.                                   *)
LEMMA ReplyStepPreserves ==
  ASSUME IndInv, ReplyStep
  PROVE  IndInv'
<1> USE DEF IndInv
<1> DEFINE c == First(reply.todo)
           b == reply.bucket
           m == Floor(reply, c)
<1>0. /\ UNCHANGED <<now, countVars, thread, peak, events>>
      /\ ReplyFits(reply) /\ SumFits(reply) /\ reply \in ReplyType
      /\ now \in Nat /\ now <= peak /\ NumWindows \in Nat
  BY ReplyNow, Options DEF ReplyStep, ReplyFits, TypeInv
<1>1. CASE \E api \in {"http", "grpc"} : Request(api)
  <2>1. PICK api \in {"http", "grpc"} : Request(api)
    BY <1>1
  <2> DEFINE r == [NoReply EXCEPT !.at = "counter", !.api = api, !.todo = Counters,
                                  !.known = events, !.oldest = now]
  <2>2. reply' = r
    BY <2>1 DEF Request
  <2>3. ReplyFits(NoReply) /\ SumFits(NoReply) /\ NoReply \in ReplyType
    BY NoReplyFits DEF ReplyFits
  <2>4. /\ r \in ReplyType /\ r.at = "counter" /\ r.todo = Counters /\ r.minute = NoReply.minute
        /\ r.recent = NoReply.recent
    BY <1>0, <2>3 DEF ReplyType, TypeInv
  <2>5. Counters # {}
    BY HealthAssumption
  <2> HIDE DEF r
  <2>6. ReplyFits(r) /\ SumFits(r)
    BY <2>3, <2>4, <2>5 DEF ReplyFits, SumFits, Floor
  <2> QED
    BY <1>0, <2>2, <2>6, ReplyMoves
<1>2. CASE SumCounter
  <2> DEFINE r == [reply EXCEPT !.at = "minute", !.bucket = 0, !.minute[c] = now,
  !.recent[c] = 0,
                                !.oldest = IF now < reply.oldest THEN now ELSE reply.oldest]
  <2>1. reply.at = "counter" /\ reply' = r
    BY <1>2 DEF SumCounter
  <2>2. reply.todo # {} /\ c \in Counters
    BY <2>1, <1>0, FirstProperties DEF ReplyFits, ReplyType
  <2>3. /\ r \in ReplyType /\ r.at = "minute" /\ r.bucket = 0 /\ r.todo = reply.todo
        /\ r.minute[c] = now /\ r.recent[c] = 0
        /\ \A d \in Counters : d # c => r.minute[d] = reply.minute[d]
           /\ r.recent[d] = reply.recent[d]
    BY <1>0, <2>2, Options DEF ReplyType
  <2> HIDE DEF r
  <2>4. /\ Cardinality(Inside(c, Floor(r, c))) \in Nat
        /\ Cardinality(Before(c, r.bucket, Floor(r, c))) \in Nat
    BY <2>2, SetsOfEvents DEF Inside, Before
  <2>5. ReplyFits(r)
    <3>1. \A d \in Counters : r.minute[d] <= peak
      BY <1>0, <2>3 DEF ReplyFits
    <3>2. ASSUME NEW d \in Counters PROVE r.recent[d] <= Cardinality(Inside(d, Floor(r, d)))
      <4>1. CASE d = c
        BY <2>3, <2>4, <4>1
      <4>2. CASE d # c
        BY <1>0, <2>3, <4>2 DEF ReplyFits, Floor
      <4> QED
        BY <4>1, <4>2
    <3> QED
      BY <2>2, <2>3, <3>1, <3>2 DEF ReplyFits
  <2>6. SumFits(r)
    BY <2>3, <2>4 DEF SumFits
  <2> QED
    BY <1>0, <2>1, <2>5, <2>6, ReplyMoves
<1>3. ASSUME reply.at \in {"minute", "window"}
      PROVE  /\ reply.todo # {} /\ c \in Counters /\ b \in Bucket /\ m \in Int
                /\ reply.recent[c] \in Nat
             /\ reply.recent[c] <= Cardinality(Before(c, b, m))
             /\ reply.minute[c] \in Nat /\ windows[c][b] \in Nat /\ window_minutes[c][b] \in Nat
  <2>1. reply.todo # {} /\ c \in Counters /\ b \in Bucket
    BY <1>3, <1>0, FirstProperties DEF ReplyFits, ReplyType
  <2>2. reply.minute[c] \in Nat /\ reply.recent[c] \in Nat
    BY <2>1, <1>0 DEF ReplyType
  <2>3. m \in Int
    BY <2>2, <1>0 DEF Floor
  <2> QED
    BY <1>0, <1>3, <2>1, <2>2, <2>3 DEF SumFits, TypeInv
<1>4. CASE ReadMinute
  <2>1. CASE Counts(window_minutes[c][b], reply.minute[c])
    <3> DEFINE r == [reply EXCEPT !.at = "window"]
    <3>1. reply.at = "minute" /\ reply' = r
      BY <1>4, <2>1 DEF ReadMinute
    <3>2. /\ r \in ReplyType /\ r.at = "window" /\ r.bucket = b /\ r.todo = reply.todo
          /\ r.minute = reply.minute /\ r.recent = reply.recent
      BY <1>0 DEF ReplyType
    <3> HIDE DEF r
    <3>3. Floor(r, c) = m /\ \A d : Floor(r, d) = Floor(reply, d)
      BY <3>2 DEF Floor
    <3>4. windows[c][b] <= Cardinality(Since(c, b, m))
      <4>0. c \in Counters /\ b \in Bucket /\ reply.minute[c] \in Nat /\ windows[c][b] \in Nat
            /\ window_minutes[c][b] \in Nat /\ m \in Int
        BY <3>1, <1>3
      <4>1. windows[c][b] <= Cardinality(Since(c, b, window_minutes[c][b]))
        BY <4>0 DEF LabelsOK
      <4>2. m <= window_minutes[c][b]
        BY <2>1, <4>0, <1>0 DEF Counts, Floor
      <4> DEFINE n == window_minutes[c][b]
      <4> HIDE DEF n, m, b, c
      <4>3. \A e \in events[c] : e.seen \in Nat
        BY <4>0, SetsOfEvents
      <4>4. Since(c, b, n) \subseteq Since(c, b, m) /\ Since(c, b, m) \subseteq events[c]
        <5>1. \A e \in events[c] : e.seen >= n => e.seen >= m
          BY <4>0, <4>2, <4>3 DEF n
        <5> QED
          BY <5>1 DEF Since
      <4>5. /\ Cardinality(Since(c, b, n)) <= Cardinality(Since(c, b, m))
            /\ Cardinality(Since(c, b, n)) \in Nat /\ Cardinality(Since(c, b, m)) \in Nat
        BY <4>0, <4>4, SetsOfEvents
      <4>6. windows[c][b] <= Cardinality(Since(c, b, n))
        BY <4>1 DEF n
      <4> QED
        BY <4>0, <4>5, <4>6
    <3>5. ReplyFits(r)
      BY <1>0, <1>3, <3>1, <3>2, <3>3 DEF ReplyFits
    <3>6. SumFits(r)
      BY <1>3, <3>1, <3>2, <3>3, <3>4 DEF SumFits
    <3> QED
      BY <1>0, <3>1, <3>5, <3>6, ReplyMoves
  <2>2. CASE ~Counts(window_minutes[c][b], reply.minute[c])
    <3>1. reply.at = "minute" /\ reply' = Further(reply)
      BY <1>4, <2>2 DEF ReadMinute
    <3>0. c \in Counters /\ b \in Bucket /\ m \in Int /\ reply.recent[c] \in Nat /\ reply.todo # {}
          /\ reply.recent[c] <= Cardinality(Before(c, b, m))
      BY <3>1, <1>3
    <3>2. reply.recent[c] <= Cardinality(Before(c, b + 1, m))
      <4> HIDE DEF c, b, m
      <4>1. /\ Cardinality(Before(c, b, m)) <= Cardinality(Before(c, b + 1, m))
            /\ Cardinality(Before(c, b, m)) + Cardinality(Since(c, b, m))
                 = Cardinality(Before(c, b + 1, m))
            /\ Cardinality(Before(c, b, m)) \in Nat /\ Cardinality(Since(c, b, m)) \in Nat
        BY <3>0, SumSteps
      <4> QED
        BY <3>0, <4>1
    <3>3. ReplyFits(Further(reply)) /\ SumFits(Further(reply))
      BY <1>0, <3>0, <3>2, FurtherFits
    <3> QED
      BY <1>0, <3>1, <3>3, ReplyMoves
  <2> QED
    BY <2>1, <2>2
<1>5. CASE ReadWindow
  <2> DEFINE r == [reply EXCEPT !.recent[c] = reply.recent[c] + windows[c][b]]
  <2>1. reply.at = "window" /\ reply' = Further(r)
    BY <1>5 DEF ReadWindow
  <2>2. /\ c \in Counters /\ b \in Bucket /\ m \in Int /\ reply.recent[c] \in Nat /\ reply.todo # {}
        /\ reply.recent[c] <= Cardinality(Before(c, b, m)) /\ windows[c][b] \in Nat
    BY <2>1, <1>3
  <2>3. windows[c][b] <= Cardinality(Since(c, b, m))
    BY <1>0, <2>1 DEF SumFits
  <2>4. /\ r \in ReplyType /\ r.at = "window" /\ r.bucket = b /\ r.todo = reply.todo
        /\ r.minute = reply.minute /\ r.recent[c] = reply.recent[c] + windows[c][b]
        /\ \A d \in Counters : d # c => r.recent[d] = reply.recent[d]
    BY <1>0, <2>1, <2>2 DEF ReplyType
  <2>5. First(r.todo) = c /\ r.todo # {}
    BY <2>2, <2>4
  <2> HIDE DEF r
  <2>6. Floor(r, c) = m /\ \A d : Floor(r, d) = Floor(reply, d)
    BY <2>4 DEF Floor
  <2>8. /\ r.recent[c] <= Cardinality(Before(c, b + 1, m))
        /\ r.recent[c] <= Cardinality(Inside(c, m))
    <3> HIDE DEF c, b, m
    <3>1. /\ Cardinality(Before(c, b, m)) + Cardinality(Since(c, b, m))
               = Cardinality(Before(c, b + 1, m))
          /\ Cardinality(Before(c, b, m)) \in Nat /\ Cardinality(Since(c, b, m)) \in Nat
          /\ Cardinality(Before(c, b + 1, m)) <= Cardinality(Inside(c, m))
      BY <2>2, SumSteps
    <3>2. Cardinality(Inside(c, m)) \in Nat
      BY <2>2, SetsOfEvents DEF Inside
    <3> QED
      BY <2>2, <2>3, <2>4, <3>1, <3>2
  <2>9. ReplyFits(r)
    <3>1. \A d \in Counters : r.recent[d] <= Cardinality(Inside(d, Floor(r, d)))
      <4> HIDE DEF c, b, m
      <4> QED BY <1>0, <2>4, <2>6, <2>8 DEF ReplyFits
    <3> QED
      BY <1>0, <2>4, <2>5, <3>1 DEF ReplyFits
  <2>10. r.recent[First(r.todo)]
           <= Cardinality(Before(First(r.todo), r.bucket + 1, Floor(r, First(r.todo))))
    BY <2>4, <2>5, <2>6, <2>8
  <2>11. ReplyFits(Further(r)) /\ SumFits(Further(r))
    BY <2>5, <2>9, <2>10, FurtherFits
  <2> QED
    BY <1>0, <2>1, <2>11, ReplyMoves
<1>6. CASE Answered
  <2>1. reply' = NoReply
    BY <1>6 DEF Answered
  <2> QED
    BY <1>0, <2>1, NoReplyFits, ReplyMoves
<1> QED
  BY <1>1, <1>2, <1>4, <1>5, <1>6 DEF ReplyStep

(* The clock goes on or steps back.                                         *)
LEMMA ClockStep ==
  ASSUME IndInv, Clock
  PROVE  IndInv'
<1>1. /\ UNCHANGED <<windows, window_minutes, last_minute, current_bucket, thread, reply,
                     events>>
      /\ now' \in Nat /\ peak' \in Nat /\ now' <= peak' /\ peak <= peak'
  <2>1. now \in Nat /\ peak \in Nat /\ now <= peak
    BY DEF IndInv, TypeInv
  <2> QED
    BY <2>1 DEF Clock, Tick, StepBack, countVars
<1>2. TypeInv'
  BY <1>1 DEF IndInv, TypeInv
<1>3. NoFuture'
  <2>1. \A n \in Nat : n <= peak => n <= peak'
    BY <1>1 DEF IndInv, TypeInv
  <2>2. /\ \A t \in Threads : thread[t].minute \in Nat
        /\ \A c \in Counters : reply.minute[c] \in Nat
        /\ \A c \in Counters : \A b \in Bucket : window_minutes[c][b] \in Nat
    BY DEF IndInv, TypeInv
  <2> QED
    BY <1>1, <2>1, <2>2 DEF IndInv, NoFuture
<1>4. EventsOK' /\ LabelsOK' /\ SumOK'
  BY <1>1 DEF IndInv, EventsOK, LabelsOK, SumOK, Since, Before, Inside, From
<1> QED
  BY <1>2, <1>3, <1>4 DEF IndInv

(* The counters start at zero.                                              *)
LEMMA Start == Init => IndInv
<1> SUFFICES ASSUME Init PROVE IndInv
  OBVIOUS
<1> USE Options DEF Init
<1>1. /\ Zero \in [Counters -> Nat] /\ Zero \in [Counters -> Bucket]
      /\ \A c \in Counters : Zero[c] = 0
  BY DEF Zero
<1>2. /\ NoReply \in ReplyType /\ NoReply.at = "idle" /\ NoReply.minute = Zero
      /\ NoReply.recent = Zero
  BY <1>1 DEF NoReply, ReplyType
<1>3. Idle \in [at : {"idle"}, counter : {"none"}, minute : {0}, last : {0}, next : Bucket]
  BY DEF Idle
<1>4. /\ windows \in [Counters -> [Bucket -> Nat]]
         /\ window_minutes \in [Counters -> [Bucket -> Nat]]
      /\ \A c \in Counters : \A b \in Bucket : windows[c][b] = 0 /\ window_minutes[c][b] = 0
      /\ events \in [Counters -> SUBSET Event] /\ \A c \in Counters : events[c] = {}
  OBVIOUS
<1>5. TypeInv
  BY <1>1, <1>2, <1>3, <1>4 DEF TypeInv, ReplyType
<1>6. EventsOK
  BY <1>4, FS_EmptySet DEF EventsOK
<1>7. NoFuture
  BY <1>1, <1>2, <1>3, <1>4 DEF NoFuture
<1>8. \A c \in Counters : \A S : S \subseteq events[c] => Cardinality(S) = 0
  BY <1>4, FS_EmptySet
<1>9. LabelsOK
  <2>1. ASSUME NEW c \in Counters, NEW b \in Bucket
        PROVE windows[c][b] <= Cardinality(Since(c, b, window_minutes[c][b]))
    BY <1>4, <1>8 DEF Since
  <2> QED
    BY <1>3, <2>1 DEF LabelsOK
<1>10. SumOK
  <2>1. ASSUME NEW c \in Counters PROVE reply.recent[c] <= Cardinality(Inside(c, From(c)))
    BY <1>1, <1>2, <1>8 DEF Inside
  <2> QED
    BY <1>2, <2>1 DEF SumOK
<1> QED
  BY <1>5, <1>6, <1>7, <1>9, <1>10 DEF IndInv

-----------------------------------------------------------------------------
(* Every state of the counters satisfies the inductive invariant.           *)
THEOREM Invariance == Spec => []IndInv
<1>1. IndInv /\ [Next]_vars => IndInv'
  <2> SUFFICES ASSUME IndInv, [Next]_vars PROVE IndInv'
    OBVIOUS
  <2>1. CASE UNCHANGED vars
    BY <2>1 DEF vars, countVars, IndInv, TypeInv, EventsOK, NoFuture, LabelsOK, SumOK,
       Since,
                Before, Inside, From
  <2>2. ASSUME NEW t \in Threads, ThreadStep(t) PROVE IndInv'
    <3>1. Continue(t) /\ UNCHANGED <<now, peak, reply>>
      BY <2>2 DEF ThreadStep
    <3> QED
      BY <3>1, ThreadQuiet, ClearStep, LabelStep, AddStep DEF Continue
  <2>3. ASSUME NEW t \in Threads, NEW c \in Counters, Call(t, c) PROVE IndInv'
    BY <2>3, ThreadQuiet DEF Call
  <2> QED
    BY <2>1, <2>2, <2>3, ReplyStepPreserves, ClockStep DEF Next
<1> QED
  BY <1>1, Start, PTL DEF Spec

(* A failure drops out of the recent sum: recent_sum counts at most what    *)
(* was recorded in the last kNumWindows minutes of the clock, for any       *)
(* number of threads that record and rotate at the same time.               *)
THEOREM RecentForgets == Spec => []ForgetsExpired
BY Invariance, SumImpliesForgets, PTL

-----------------------------------------------------------------------------
(* The failures that no disturbed rotation excuses, and those of them that  *)
(* are in the window of the counter's last minute.                          *)
Kept(c) == {e \in events[c] : e.minute > racedAt[c]}
Recent(c) == {e \in Kept(c) : e.minute > last_minute[c] - NumWindows}

(* The last rotation came after the last disturbed one.                     *)
Clean(c) == last_minute[c] > racedAt[c]

(* Bucket b is that of minute m when bucket cur is that of minute l: they   *)
(* are as far apart, once round the ring or not.                            *)
InStep(b, m, cur, l) == b = cur + m - l \/ b = cur + m - l + NumWindows

(* No minute is beyond the latest one, an idle thread is busy with nothing, *)
(* and what the exchange has seen is another minute.                        *)
CallsOK ==
  /\ racedAt \in [Counters -> Nat]
  /\ \A c \in Counters : last_minute[c] <= peak /\ racedAt[c] <= peak
  /\ \A c \in Counters : \A e \in events[c] : e.minute <= peak
  /\ \A t \in Threads :
       /\ thread[t].at = "idle" => thread[t].counter = "none"
       /\ thread[t].at = "exchange" => thread[t].last # thread[t].minute

(* While a rotation is disturbed, nothing there is counts as kept.          *)
DisturbedOK(c) ==
  Disturbed(c) => ~Clean(c) /\ \A t \in Busy(c) : thread[t].minute <= racedAt[c]

(* The threads whose failure will be kept: past the exchange they are in    *)
(* the counter's last minute, and they add to its bucket.                   *)
FreshAs(c, me) ==
  me.minute > racedAt[c] =>
    /\ me.at \in {"bucket", "store", "clear", "label", "index", "add"}
         => me.minute = last_minute[c]
    /\ me.at = "add" => me.next = current_bucket[c]

FreshOK(c) == \A t \in Busy(c) : FreshAs(c, thread[t])

(* A clean rotation goes on to its minute, and the bucket it takes over has *)
(* nothing of the window.                                                   *)
RotatesAs(c, me) ==
  /\ me.minute = last_minute[c] /\ me.last < me.minute
  /\ me.at \in {"bucket", "store"} =>
       \A e \in Kept(c) :
         /\ e.minute <= me.last
         /\ e.minute > me.last - NumWindows
              => InStep(e.bucket, e.minute, current_bucket[c], me.last)
  /\ me.at = "store" => me.next = NextBucket(current_bucket[c], me.last, me.minute)
  /\ me.at \in {"clear", "label"} =>
       me.next = current_bucket[c] /\ \A e \in Recent(c) : e.bucket # current_bucket[c]

RotatingOK(c) == Clean(c) => \A t \in Rotating(c) : RotatesAs(c, thread[t])

(* What is kept lies in the buckets of its minutes, labelled with them and  *)
(* counted.                                                                 *)
InBucket(c, b) == {e \in Recent(c) : e.bucket = b}

KeptOK(c) ==
  /\ \A e \in Kept(c) : e.minute <= last_minute[c]
  /\ Clean(c) /\ (\A t \in Busy(c) : thread[t].at \notin {"bucket", "store"}) =>
       \A e \in Recent(c) : InStep(e.bucket, e.minute, current_bucket[c], last_minute[c])
  /\ Clean(c) /\ Rotating(c) = {} => window_minutes[c][current_bucket[c]] = last_minute[c]
  /\ \A e \in Recent(c) : window_minutes[c][e.bucket] = e.minute
  /\ \A b \in Bucket : Cardinality(InBucket(c, b)) <= windows[c][b]

CountsOK ==
  \A c \in Counters : DisturbedOK(c) /\ FreshOK(c) /\ RotatingOK(c) /\ KeptOK(c)

(* A failure that the reply r owes, and a sum that shows those in the       *)
(* buckets before b.                                                        *)
Owed(r, c, e) ==
  e.minute > racedAt[c] /\ e.minute > peak - NumWindows /\ e.minute <= r.oldest

Partly(r, c, b) ==
  \A e \in r.known[c] : Owed(r, c, e) /\ e.bucket < b => r.recent[c] > 0

Fully(r, c) ==
  \A e \in r.known[c] : Owed(r, c, e) =>
    (c \notin r.todo => r.recent[c] > 0) /\ (r.api = "grpc2" => r.first[c] > 0)

(* Every sum that is complete, and the one under way if it is past the      *)
(* failure's bucket, shows what the reply owes.                             *)
Shows(r) ==
  r.at # "idle" =>
    /\ \A c \in Counters : r.known[c] \subseteq events[c] /\ Fully(r, c)
    /\ r.at = "done" => r.todo = {} /\ (r.api = "grpc2" \/ r.first = r.recent)
    /\ r.at \in {"minute", "window"} =>
         r.oldest <= r.minute[First(r.todo)] /\ Partly(r, First(r.todo), r.bucket)

ShownOK == Shows(reply)

CountInv == CallsOK /\ CountsOK /\ ShownOK

-----------------------------------------------------------------------------
(* The types of what belongs to one counter.                                *)
LEMMA CounterFacts ==
  ASSUME IndInv, CallsOK, NEW c \in Counters
  PROVE  /\ last_minute[c] \in Nat /\ racedAt[c] \in Nat /\ peak \in Nat /\ now \in Nat
         /\ now <= peak /\ last_minute[c] <= peak /\ racedAt[c] <= peak
         /\ current_bucket[c] \in Bucket /\ Bucket \subseteq Nat /\ NumWindows \in Nat
         /\ NumWindows > 1
         /\ \A e \in events[c] :
              e.minute \in Nat /\ e.minute <= peak /\ e.bucket \in Bucket /\ e.bucket \in Nat
         /\ \A b \in Bucket : b < NumWindows /\ window_minutes[c][b] \in Nat
            /\ windows[c][b] \in Nat
<1>1. events[c] \subseteq Event
  BY DEF IndInv, TypeInv
<1>2. \A e \in events[c] : e.minute \in Nat /\ e.minute <= peak /\ e.bucket \in Bucket
  BY <1>1 DEF CallsOK, Event
<1>3. NumWindows \in Nat /\ NumWindows > 1 /\ Bucket \subseteq Nat
      /\ \A b \in Bucket : b < NumWindows
  BY Options
<1>4. /\ last_minute[c] \in Nat /\ racedAt[c] \in Nat /\ last_minute[c] <= peak
         /\ racedAt[c] <= peak
      /\ current_bucket[c] \in Bucket /\ peak \in Nat /\ now \in Nat /\ now <= peak
  BY DEF IndInv, TypeInv, CallsOK
<1>5. \A b \in Bucket : window_minutes[c][b] \in Nat /\ windows[c][b] \in Nat
  BY DEF IndInv, TypeInv
<1> QED
  BY <1>2, <1>3, <1>4, <1>5

(* One who is in a set that has no more than one.                           *)
LEMMA Alone ==
  ASSUME NEW S, IsFiniteSet(S), NEW t \in S, ~(Cardinality(S) > 1)
  PROVE  S = {t}
<1>1. ASSUME NEW u \in S, u # t PROVE FALSE
  <2>1. {t, u} \subseteq S
    BY <1>1
  <2>2. Cardinality({t, u}) = 2
    <3>1. Cardinality({t}) = 1 /\ IsFiniteSet({t})
      BY FS_Singleton
    <3>2. Cardinality({t} \cup {u}) = Cardinality({t}) + 1
      BY <1>1, <3>1, FS_AddElement
    <3>3. {t} \cup {u} = {t, u}
      OBVIOUS
    <3> QED
      BY <3>1, <3>2, <3>3
  <2>3. Cardinality({t, u}) <= Cardinality(S) /\ Cardinality(S) \in Nat
    BY <2>1, FS_Subset, FS_CardinalityType
  <2> QED
    BY <2>2, <2>3
<1> QED
  BY <1>1

(* A clean rotation is the only call under way on its counter, and goes on: *)
(* before a step,                                                           *)
LEMMA Sole ==
  ASSUME NEW c, ~Disturbed(c), NEW t \in Rotating(c)
  PROVE  Busy(c) = {t} /\ ~(thread[t].minute < thread[t].last)
<1>1. t \in Busy(c) /\ IsFiniteSet(Busy(c))
  <2>1. Busy(c) \subseteq Threads /\ IsFiniteSet(Threads)
    BY HealthAssumption DEF Busy
  <2> QED
    BY <2>1, FS_Subset DEF Rotating
<1>2. ~(Cardinality(Busy(c)) > 1)
  BY DEF Disturbed
<1> QED
  BY <1>1, <1>2, Alone DEF Disturbed

(* and after it.                                                            *)
LEMMA SoleNext ==
  ASSUME NEW c, ~Disturbed(c)', NEW t \in Rotating(c)'
  PROVE  Busy(c)' = {t} /\ ~(thread'[t].minute < thread'[t].last)
<1>1. t \in Busy(c)' /\ IsFiniteSet(Busy(c)')
  <2>1. Busy(c)' \subseteq Threads /\ IsFiniteSet(Threads)
    BY HealthAssumption DEF Busy
  <2> QED
    BY <2>1, FS_Subset DEF Rotating
<1>2. ~(Cardinality(Busy(c)') > 1)
  BY DEF Disturbed
<1> QED
  BY <1>1, <1>2, Alone DEF Disturbed

(* A call that is alone and goes forward disturbs nothing.                  *)
LEMMA CleanIs ==
  ASSUME IndInv, CallsOK, NEW c \in Counters, DisturbedOK(c), KeptOK(c)
  PROVE  /\ Clean(c) => ~Disturbed(c)
         /\ ~Clean(c) => Kept(c) = {} /\ Recent(c) = {}
         /\ Kept(c) \subseteq events[c] /\ Recent(c) \subseteq Kept(c)
         /\ IsFiniteSet(Kept(c)) /\ IsFiniteSet(Recent(c))
<1>1. last_minute[c] \in Nat /\ racedAt[c] \in Nat /\ \A e \in events[c] : e.minute \in Nat
  BY CounterFacts
<1>2. ~Clean(c) => Kept(c) = {}
  BY <1>1 DEF KeptOK, Kept, Clean
<1>3. Kept(c) \subseteq events[c] /\ Recent(c) \subseteq Kept(c)
  BY DEF Kept, Recent
<1>4. IsFiniteSet(events[c])
  BY DEF IndInv, EventsOK
<1> QED
  BY <1>2, <1>3, <1>4, FS_Subset DEF DisturbedOK

(* After a disturbed rotation nothing is kept, and no call under way will   *)
(* be.                                                                      *)
LEMMA StaleAll ==
  ASSUME IndInv', CallsOK', NEW c \in Counters, racedAt'[c] = peak'
  PROVE  DisturbedOK(c)' /\ FreshOK(c)' /\ RotatingOK(c)' /\ KeptOK(c)'
<1>1. /\ last_minute'[c] \in Nat /\ peak' \in Nat /\ last_minute'[c] <= peak'
      /\ \A e \in events'[c] : e.minute \in Nat /\ e.minute <= peak'
      /\ \A b \in Bucket : windows'[c][b] \in Nat
  <2>1. events'[c] \subseteq Event
    BY DEF IndInv, TypeInv
  <2>2. \A e \in events'[c] : e.minute \in Nat /\ e.minute <= peak'
    BY <2>1 DEF CallsOK, Event
  <2> QED
    BY <2>2 DEF IndInv, TypeInv, CallsOK
<1>2. ~Clean(c)'
  BY <1>1 DEF Clean
<1>3. Kept(c)' = {} /\ Recent(c)' = {}
  BY <1>1 DEF Kept, Recent
<1>4. \A t \in Threads : thread'[t].minute \in Nat /\ thread'[t].minute <= peak'
  BY DEF IndInv, TypeInv, NoFuture
<1>5. DisturbedOK(c)' /\ FreshOK(c)' /\ RotatingOK(c)'
  BY <1>1, <1>2, <1>4 DEF DisturbedOK, FreshOK, FreshAs, RotatingOK, Busy
<1>6. ASSUME NEW b \in Bucket PROVE Cardinality(InBucket(c, b)') <= windows'[c][b]
  <2>1. Cardinality(InBucket(c, b)') = 0
    BY <1>3, FS_EmptySet DEF InBucket
  <2> QED
    BY <1>1, <2>1
<1> QED
  BY <1>2, <1>3, <1>5, <1>6 DEF KeptOK

(* Nothing of the counter changes.                                          *)
Untouched(c) ==
  /\ racedAt'[c] = racedAt[c] /\ events'[c] = events[c] /\ last_minute'[c] = last_minute[c]
  /\ current_bucket'[c] = current_bucket[c]
  /\ window_minutes'[c] = window_minutes[c] /\ windows'[c] = windows[c]

(* A step that touches nothing of the counter, nor its calls.               *)
LEMMA CounterStays ==
  ASSUME NEW c, Untouched(c), Busy(c)' = Busy(c), \A t \in Busy(c) : thread'[t] = thread[t],
         DisturbedOK(c), FreshOK(c), RotatingOK(c), KeptOK(c)
  PROVE  DisturbedOK(c)' /\ FreshOK(c)' /\ RotatingOK(c)' /\ KeptOK(c)'
<1>1. Rotating(c)' = Rotating(c) /\ Rotating(c) \subseteq Busy(c)
  BY DEF Rotating
<1>2. Disturbed(c)' <=> Disturbed(c)
  BY <1>1 DEF Disturbed
<1>3. Kept(c)' = Kept(c) /\ Recent(c)' = Recent(c) /\ (Clean(c)' <=> Clean(c))
  BY DEF Untouched, Kept, Recent, Clean
<1>4. DisturbedOK(c)' /\ FreshOK(c)'
  BY <1>2, <1>3 DEF DisturbedOK, FreshOK, FreshAs, Untouched
<1>5. RotatingOK(c)'
  BY <1>1, <1>3 DEF RotatingOK, RotatesAs, Untouched
<1>6. KeptOK(c)'
  BY <1>1, <1>3 DEF KeptOK, InBucket, Untouched
<1> QED
  BY <1>4, <1>5, <1>6

-----------------------------------------------------------------------------
(* The steps of a call on the counter.                                      *)
(* A thread has these values after its step.                                *)
Takes(t, v) == thread' = [thread EXCEPT ![t] = v]

LEMMA TakesIs ==
  ASSUME IndInv, NEW t \in Threads, NEW v, Takes(t, v)
  PROVE  \A u \in Threads : thread'[u] = IF u = t THEN v ELSE thread[u]
BY DEF IndInv, TypeInv, Takes

(* A step that changes only the thread, to values that fit, and neither     *)
(* ends a rotation nor disturbs one.                                        *)
LEMMA QuietCount ==
  ASSUME IndInv, CallsOK, NEW c \in Counters, NEW t \in Threads, NEW v, Takes(t, v), Untouched(c),
         DisturbedOK(c), FreshOK(c), RotatingOK(c), KeptOK(c), ~Disturbed(c)',
         v.counter = c => FreshAs(c, v),
         v.counter = c /\ v.at \in {"bucket", "store", "clear", "label"} /\ Clean(c)
           => RotatesAs(c, v),
         t \in Rotating(c) => thread[t].at = "bucket" /\ v.at = "store" /\ v.counter = c
  PROVE  DisturbedOK(c)' /\ FreshOK(c)' /\ RotatingOK(c)' /\ KeptOK(c)'
<1>1. \A u \in Threads : thread'[u] = IF u = t THEN v ELSE thread[u]
  BY TakesIs
<1>2. Kept(c)' = Kept(c) /\ Recent(c)' = Recent(c) /\ (Clean(c)' <=> Clean(c))
  BY DEF Untouched, Kept, Recent, Clean
<1>3. \A u \in Busy(c)' : (u = t /\ v.counter = c) \/ (u # t /\ u \in Busy(c))
  <2>1. ASSUME NEW u \in Busy(c)' PROVE (u = t /\ v.counter = c) \/ (u # t /\ u \in Busy(c))
    BY <1>1, <2>1 DEF Busy
  <2> QED
    BY <2>1
<1>4. \A u : u \in Busy(c) /\ u # t => u \in Busy(c)'
  BY <1>1 DEF Busy
<1>5. \A u : u \in Rotating(c)' =>
        \/ u = t /\ v.counter = c /\ v.at \in {"bucket", "store", "clear", "label"}
        \/ u # t /\ u \in Rotating(c) /\ u \in Threads
  BY <1>1, <1>3 DEF Rotating, Busy
<1>6. \A u : u \in Rotating(c) => u \in Rotating(c)'
  BY <1>1 DEF Rotating, Busy
<1>7. FreshOK(c)'
  <2>1. ASSUME NEW u \in Busy(c)' PROVE FreshAs(c, thread[u])'
    <3>1. CASE u = t /\ v.counter = c
      BY <1>1, <3>1 DEF FreshAs, Untouched
    <3>2. CASE u # t /\ u \in Busy(c)
      BY <1>1, <3>2 DEF FreshOK, FreshAs, Untouched, Busy
    <3> QED
      BY <1>3, <3>1, <3>2
  <2> QED
    BY <2>1 DEF FreshOK
<1>8. RotatingOK(c)'
  <2>1. ASSUME Clean(c)', NEW u \in Rotating(c)' PROVE RotatesAs(c, thread[u])'
    <3>1. CASE u = t /\ v.counter = c /\ v.at \in {"bucket", "store", "clear", "label"}
      <4>1. RotatesAs(c, v)
        BY <1>2, <2>1, <3>1
      <4> QED
        BY <1>1, <1>2, <3>1, <4>1 DEF RotatesAs, Untouched
    <3>2. CASE u # t /\ u \in Rotating(c) /\ u \in Threads
      <4>1. RotatesAs(c, thread[u]) /\ thread'[u] = thread[u]
        BY <1>1, <1>2, <2>1, <3>2 DEF RotatingOK
      <4> QED
        BY <1>2, <4>1 DEF RotatesAs, Untouched
    <3> QED
      BY <1>5, <2>1, <3>1, <3>2
  <2> QED
    BY <2>1 DEF RotatingOK
<1>9. KeptOK(c)'
  <2>1. (\A u \in Busy(c)' : thread'[u].at \notin {"bucket", "store"})
          => \A u \in Busy(c) : thread[u].at \notin {"bucket", "store"}
    <3>1. ASSUME NEW u \in Busy(c), thread[u].at \in {"bucket", "store"}
          PROVE  u \in Busy(c)' /\ thread'[u].at \in {"bucket", "store"}
      <4>1. CASE u = t
        <5>1. t \in Rotating(c)
          BY <3>1, <4>1 DEF Rotating
        <5> QED
          BY <1>1, <4>1, <5>1 DEF Busy
      <4>2. CASE u # t
        BY <1>1, <1>4, <3>1, <4>2 DEF Busy
      <4> QED
        BY <4>1, <4>2
    <3> QED
      BY <3>1
  <2>2. Rotating(c)' = {} => Rotating(c) = {}
    BY <1>6
  <2> QED
    BY <1>2, <2>1, <2>2 DEF KeptOK, InBucket, Untouched
<1> QED
  BY <1>7, <1>8, <1>9 DEF DisturbedOK

(* The exchange: the thread alone goes on to its minute.                    *)
LEMMA ExchangeCount ==
  ASSUME IndInv, CallsOK, NEW t \in Threads, NEW c \in Counters, thread[t].counter = c,
         NEW v, Takes(t, v), v.at = "bucket", v.counter = c, v.minute = thread[t].minute,
         v.last = thread[t].last, thread[t].at = "exchange",
         last_minute[c] = thread[t].last, last_minute'[c] = thread[t].minute,
         racedAt'[c] = racedAt[c], events'[c] = events[c], current_bucket'[c] = current_bucket[c],
         window_minutes'[c] = window_minutes[c], windows'[c] = windows[c],
         DisturbedOK(c), FreshOK(c), RotatingOK(c), KeptOK(c), ~Disturbed(c)'
  PROVE  DisturbedOK(c)' /\ FreshOK(c)' /\ RotatingOK(c)' /\ KeptOK(c)'
<1>1. \A u \in Threads : thread'[u] = IF u = t THEN v ELSE thread[u]
  BY TakesIs
<1>2. t \in Rotating(c)'
  BY <1>1 DEF Rotating, Busy
<1>3. Busy(c)' = {t} /\ ~(v.minute < v.last)
  BY <1>1, <1>2, SoleNext
<1>4. Busy(c) = {t}
  BY <1>1, <1>3 DEF Busy
<1>5. /\ v.minute \in Nat /\ v.last \in Nat /\ v.last < v.minute
  <2>1. v.minute \in Nat /\ v.last \in Nat /\ v.last # v.minute
    BY ThreadType DEF CallsOK
  <2> QED
    BY <1>3, <2>1
<1>6. Kept(c)' = Kept(c) /\ \A e \in Kept(c) : e \in events[c] /\ e.minute \in Nat
  BY CounterFacts DEF Kept
<1>7. \A e \in Kept(c) : e.minute <= v.last
  BY DEF KeptOK
<1>8. \A e \in Kept(c) : e.minute > v.last - NumWindows
                           => InStep(e.bucket, e.minute, current_bucket[c], v.last)
  <2>1. ASSUME NEW e \in Kept(c) PROVE Clean(c)
    BY CleanIs
  <2>2. \A u \in Busy(c) : thread[u].at \notin {"bucket", "store"}
    BY <1>4
  <2> QED
    BY <2>1, <2>2 DEF KeptOK, Recent
<1>9. Recent(c)' \subseteq Recent(c)
  BY <1>5, <1>6, Options DEF Recent
<1>10. FreshOK(c)'
  BY <1>1, <1>3 DEF FreshOK, FreshAs
<1>11. RotatingOK(c)'
  <2>1. RotatesAs(c, thread[t])'
    BY <1>1, <1>5, <1>6, <1>7, <1>8 DEF RotatesAs
  <2> QED
    BY <1>3, <2>1 DEF RotatingOK, Rotating
<1>12. \A b \in Bucket : Cardinality(InBucket(c, b)') <= windows'[c][b]
  <2>1. ASSUME NEW b \in Bucket PROVE Cardinality(InBucket(c, b)') <= windows[c][b]
    <3>1. InBucket(c, b)' \subseteq InBucket(c, b) /\ InBucket(c, b) \subseteq Recent(c)
      BY <1>9 DEF InBucket
    <3>2. IsFiniteSet(InBucket(c, b))
      BY <3>1, CleanIs, FS_Subset
    <3>3. Cardinality(InBucket(c, b)') <= Cardinality(InBucket(c, b))
          /\ Cardinality(InBucket(c, b)') \in Nat /\ Cardinality(InBucket(c, b)) \in Nat
      BY <3>1, <3>2, FS_Subset, FS_CardinalityType
    <3> QED
      BY <3>3, CounterFacts DEF KeptOK
  <2> QED
    BY <2>1
<1>13. KeptOK(c)'
  <2>1. \A e \in Kept(c)' : e.minute <= last_minute'[c]
    BY <1>5, <1>6, <1>7
  <2>2. \A e \in Recent(c)' : window_minutes'[c][e.bucket] = e.minute
    BY <1>9 DEF KeptOK
  <2>3. t \in Busy(c)' /\ thread'[t].at \in {"bucket", "store"}
    BY <1>1, <1>3
  <2> QED
    BY <1>2, <1>12, <2>1, <2>2, <2>3 DEF KeptOK
<1> QED
  BY <1>10, <1>11, <1>13 DEF DisturbedOK

(* The next bucket is in step with what the old one was in step with, and   *)
(* has nothing of the window.                                               *)
LEMMA NextInStep ==
  ASSUME NEW cur \in Bucket, NEW last \in Nat, NEW m \in Nat, last < m, NEW b \in Bucket,
         NEW k \in Nat, k > 0, k <= last, k > m - NumWindows, InStep(b, k, cur, last)
  PROVE  InStep(b, k, NextBucket(cur, last, m), m) /\ b # NextBucket(cur, last, m)
<1>1. NumWindows \in Nat \ {0} /\ cur \in 0..(NumWindows - 1) /\ b \in 0..(NumWindows - 1)
  BY Options DEF Bucket
<1> DEFINE n == NumWindows
           a == cur + (m - last)
<1>2. a \in Nat /\ a \in 0..(2 * n - 1) /\ NextBucket(cur, last, m) = a % n
  BY <1>1 DEF NextBucket
<1>3. a % n = a \/ a % n = a - n
  <2>1. a \in 0..(n - 1) \/ a \in n..(2 * n - 1)
    BY <1>1, <1>2
  <2>2. ASSUME NEW x \in Nat, NEW y \in Nat \ {0}
        PROVE  (x \in 0..(y - 1) => x % y = x) /\ (x \in y..(2 * y - 1) => x % y = x - y)
    OBVIOUS
  <2> HIDE DEF a
  <2> QED
    BY <1>1, <1>2, <2>1, <2>2
<1>4. a % n \in 0..(n - 1)
  BY <1>1, <1>2
<1>5. PICK p : p = a % n
  OBVIOUS
<1>6. p \in 0..(n - 1) /\ (p = a \/ p = a - n)
  BY <1>3, <1>4, <1>5
<1>7. b = cur + k - last \/ b = cur + k - last + n
  BY DEF InStep
<1>8. b = p + k - m \/ b = p + k - m + n
  BY <1>1, <1>6, <1>7
<1>9. b # p
  BY <1>1, <1>6, <1>8
<1> QED
  BY <1>2, <1>5, <1>8, <1>9 DEF InStep

(* The number of the bucket is stored.                                      *)
LEMMA StoreCount ==
  ASSUME IndInv, CallsOK, NEW t \in Threads, NEW c \in Counters, thread[t].counter = c,
         NEW v, Takes(t, v), v = [thread[t] EXCEPT !.at = "clear"], thread[t].at = "store",
         current_bucket'[c] = thread[t].next, last_minute'[c] = last_minute[c],
         racedAt'[c] = racedAt[c], events'[c] = events[c],
         window_minutes'[c] = window_minutes[c], windows'[c] = windows[c],
         DisturbedOK(c), FreshOK(c), RotatingOK(c), KeptOK(c), ~Disturbed(c)'
  PROVE  DisturbedOK(c)' /\ FreshOK(c)' /\ RotatingOK(c)' /\ KeptOK(c)'
<1>0. /\ v.at = "clear" /\ v.counter = c /\ v.minute = thread[t].minute /\ v.last = thread[t].last
      /\ v.next = thread[t].next /\ v.minute \in Nat /\ v.last \in Nat /\ v.next \in Bucket
  BY ThreadType
<1>1. \A u \in Threads : thread'[u] = IF u = t THEN v ELSE thread[u]
  BY TakesIs
<1>2. t \in Rotating(c)'
  BY <1>0, <1>1 DEF Rotating, Busy
<1>3. Busy(c)' = {t}
  BY <1>2, SoleNext
<1>4. Busy(c) = {t} /\ t \in Rotating(c)
  BY <1>0, <1>1, <1>3 DEF Busy, Rotating
<1>5. /\ Kept(c)' = Kept(c) /\ Recent(c)' = Recent(c) /\ (Clean(c)' <=> Clean(c))
      /\ Recent(c) \subseteq Kept(c)
  BY DEF Kept, Recent, Clean
<1>6. /\ last_minute[c] \in Nat /\ racedAt[c] \in Nat /\ current_bucket[c] \in Bucket
      /\ NumWindows \in Nat
      /\ \A e \in Kept(c) : e \in events[c] /\ e.minute \in Nat /\ e.bucket \in Bucket
         /\ e.minute > 0
  <2>1. racedAt[c] \in Nat
    BY CounterFacts
  <2> QED
    BY <2>1, CounterFacts DEF Kept
<1>7. ASSUME Clean(c)
      PROVE  /\ v.minute = last_minute[c] /\ v.last < v.minute
             /\ \A e \in Recent(c) : InStep(e.bucket, e.minute, v.next, last_minute[c])
                                     /\ e.bucket # v.next
  <2>1. RotatesAs(c, thread[t])
    BY <1>4, <1>7 DEF RotatingOK
  <2>2. /\ v.minute = last_minute[c] /\ v.last < v.minute
        /\ v.next = NextBucket(current_bucket[c], v.last, v.minute)
        /\ \A e \in Kept(c) :
             /\ e.minute <= v.last
             /\ e.minute > v.last - NumWindows
                  => InStep(e.bucket, e.minute, current_bucket[c], v.last)
    BY <1>0, <2>1 DEF RotatesAs
  <2>3. ASSUME NEW e \in Recent(c)
        PROVE  InStep(e.bucket, e.minute, v.next, last_minute[c]) /\ e.bucket # v.next
    <3>1. PICK b, k, l, m : b = e.bucket /\ k = e.minute /\ l = v.last /\ m = v.minute
      OBVIOUS
    <3>2. b \in Bucket /\ k \in Nat /\ l \in Nat /\ m \in Nat /\ k > 0 /\ k <= l /\ l < m
          /\ k > m - NumWindows
      BY <1>0, <1>5, <1>6, <2>2, <3>1 DEF Recent
    <3>3. InStep(b, k, current_bucket[c], l)
      <4>1. k > l - NumWindows
        BY <1>6, <3>2
      <4> QED
        BY <1>5, <2>2, <3>1, <4>1
    <3> QED
      BY <1>6, <2>2, <3>1, <3>2, <3>3, NextInStep
  <2> QED
    BY <2>2, <2>3
<1>8. FreshOK(c)'
  <2>1. FreshAs(c, thread[t])
    BY <1>4 DEF FreshOK
  <2>2. FreshAs(c, thread[t])'
    BY <1>0, <1>1, <2>1 DEF FreshAs
  <2> QED
    BY <1>3, <2>2 DEF FreshOK
<1>9. RotatingOK(c)'
  <2>1. Clean(c)' => RotatesAs(c, thread[t])'
    BY <1>0, <1>1, <1>2, <1>5, <1>7 DEF RotatesAs, Busy, Rotating
  <2> QED
    BY <1>3, <2>1 DEF RotatingOK, Rotating
<1>10. KeptOK(c)'
  <2>1. Clean(c)'
          => \A e \in Recent(c)' : InStep(e.bucket, e.minute, current_bucket'[c], last_minute'[c])
    BY <1>0, <1>5, <1>7
  <2>2. \A b \in Bucket : Cardinality(InBucket(c, b)') <= windows'[c][b]
    BY <1>5 DEF KeptOK, InBucket
  <2>3. /\ \A e \in Kept(c)' : e.minute <= last_minute'[c]
        /\ \A e \in Recent(c)' : window_minutes'[c][e.bucket] = e.minute
    BY <1>5 DEF KeptOK
  <2> QED
    BY <1>2, <2>1, <2>2, <2>3 DEF KeptOK
<1> QED
  BY <1>8, <1>9, <1>10 DEF DisturbedOK

(* The bucket is cleared, which holds nothing of the window.                *)
LEMMA ClearCount ==
  ASSUME IndInv, CallsOK, NEW t \in Threads, NEW c \in Counters, thread[t].counter = c,
         NEW v, Takes(t, v), v = [thread[t] EXCEPT !.at = "label"], thread[t].at = "clear",
         windows'[c] = [windows[c] EXCEPT ![thread[t].next] = 0],
         current_bucket'[c] = current_bucket[c], last_minute'[c] = last_minute[c],
         racedAt'[c] = racedAt[c], events'[c] = events[c], window_minutes'[c] = window_minutes[c],
         DisturbedOK(c), FreshOK(c), RotatingOK(c), KeptOK(c), ~Disturbed(c)'
  PROVE  DisturbedOK(c)' /\ FreshOK(c)' /\ RotatingOK(c)' /\ KeptOK(c)'
<1>0. /\ v.at = "label" /\ v.counter = c /\ v.minute = thread[t].minute /\ v.last = thread[t].last
      /\ v.next = thread[t].next /\ v.next \in Bucket
  BY ThreadType
<1>1. \A u \in Threads : thread'[u] = IF u = t THEN v ELSE thread[u]
  BY TakesIs
<1>2. t \in Rotating(c)'
  BY <1>0, <1>1 DEF Rotating, Busy
<1>3. Busy(c)' = {t}
  BY <1>2, SoleNext
<1>4. Busy(c) = {t} /\ t \in Rotating(c)
  BY <1>0, <1>1, <1>3 DEF Busy, Rotating
<1>5. /\ Kept(c)' = Kept(c) /\ Recent(c)' = Recent(c) /\ (Clean(c)' <=> Clean(c))
  BY DEF Kept, Recent, Clean
<1>6. Clean(c) => RotatesAs(c, thread[t])
  BY <1>4 DEF RotatingOK
<1>7. FreshOK(c)'
  <2>1. FreshAs(c, thread[t])
    BY <1>4 DEF FreshOK
  <2>2. FreshAs(c, thread[t])'
    BY <1>0, <1>1, <2>1 DEF FreshAs
  <2> QED
    BY <1>3, <2>2 DEF FreshOK
<1>8. RotatingOK(c)'
  <2>1. Clean(c)' => RotatesAs(c, thread[t])'
    BY <1>0, <1>1, <1>5, <1>6 DEF RotatesAs
  <2> QED
    BY <1>3, <2>1 DEF RotatingOK, Rotating
<1>9. \A b \in Bucket : windows'[c][b] = IF b = v.next THEN 0 ELSE windows[c][b]
  BY <1>0 DEF IndInv, TypeInv
<1>10. KeptOK(c)'
  <2>1. ASSUME NEW b \in Bucket PROVE Cardinality(InBucket(c, b)') <= windows'[c][b]
    <3>1. CASE b # v.next
      BY <1>5, <1>9, <3>1 DEF KeptOK, InBucket
    <3>2. CASE b = v.next
      <4>1. InBucket(c, b) = {}
        BY <1>0, <1>6, <3>2, CleanIs DEF RotatesAs, InBucket
      <4>2. Cardinality(InBucket(c, b)') = 0
        BY <1>5, <4>1, FS_EmptySet DEF InBucket
      <4> QED
        BY <1>9, <3>2, <4>2
    <3> QED
      BY <3>1, <3>2
  <2>2. (\A u \in Busy(c)' : thread'[u].at \notin {"bucket", "store"})
           => \A u \in Busy(c) : thread[u].at \notin {"bucket", "store"}
    BY <1>4
  <2>3. Rotating(c)' # {}
    BY <1>2
  <2> QED
    BY <1>5, <2>1, <2>2, <2>3 DEF KeptOK
<1> QED
  BY <1>7, <1>8, <1>10 DEF DisturbedOK

(* The bucket is labelled with the minute of its clean rotation.            *)
LEMMA LabelCount ==
  ASSUME IndInv, CallsOK, NEW t \in Threads, NEW c \in Counters, thread[t].counter = c,
         NEW v, Takes(t, v), v = [thread[t] EXCEPT !.at = "index"], thread[t].at = "label",
         window_minutes'[c] = [window_minutes[c] EXCEPT ![thread[t].next] = thread[t].minute],
         current_bucket'[c] = current_bucket[c], last_minute'[c] = last_minute[c],
         racedAt'[c] = racedAt[c], events'[c] = events[c], windows'[c] = windows[c],
         DisturbedOK(c), FreshOK(c), RotatingOK(c), KeptOK(c), ~Disturbed(c)'
  PROVE  DisturbedOK(c)' /\ FreshOK(c)' /\ RotatingOK(c)' /\ KeptOK(c)'
<1>0. /\ v.at = "index" /\ v.counter = c /\ v.minute = thread[t].minute
      /\ v.next = thread[t].next /\ v.next \in Bucket
  BY ThreadType
<1>1. \A u \in Threads : thread'[u] = IF u = t THEN v ELSE thread[u]
  BY TakesIs
<1>2. t \in Rotating(c)
  BY DEF Rotating, Busy
<1>3. Busy(c)' = Busy(c)
  BY <1>0, <1>1 DEF Busy
<1>4. /\ Kept(c)' = Kept(c) /\ Recent(c)' = Recent(c) /\ (Clean(c)' <=> Clean(c))
  BY DEF Kept, Recent, Clean
<1>5. ~Clean(c) => Kept(c) = {} /\ Recent(c) = {}
  BY CleanIs
<1>6. FreshOK(c)'
  <2>1. ASSUME NEW u \in Busy(c) PROVE FreshAs(c, thread[u])'
    <3>1. FreshAs(c, thread[u])
      BY DEF FreshOK
    <3>2. CASE u = t
      BY <1>0, <1>1, <3>1, <3>2 DEF FreshAs
    <3>3. CASE u # t
      BY <1>1, <3>1, <3>3 DEF FreshAs, Busy
    <3> QED
      BY <3>2, <3>3
  <2> QED
    BY <1>3, <2>1 DEF FreshOK
<1>7. ASSUME Clean(c)
      PROVE  /\ Busy(c) = {t} /\ Rotating(c)' = {} /\ RotatesAs(c, thread[t])
  <2>1. Busy(c) = {t}
    BY <1>2, <1>7, CleanIs, Sole
  <2>2. Rotating(c)' = {}
    <3>1. ASSUME NEW u \in Rotating(c)' PROVE FALSE
      <4>1. u \in Busy(c)' /\ thread'[u].at \in {"bucket", "store", "clear", "label"}
        BY <3>1 DEF Rotating
      <4>2. u = t /\ u \in Threads
        BY <1>3, <2>1, <4>1
      <4> QED
        BY <1>0, <1>1, <4>1, <4>2
    <3> QED
      BY <3>1
  <2>3. RotatesAs(c, thread[t])
    BY <1>2, <1>7 DEF RotatingOK
  <2> QED
    BY <2>1, <2>2, <2>3
<1>8. RotatingOK(c)'
  BY <1>4, <1>7 DEF RotatingOK
<1>9. \A b \in Bucket : window_minutes'[c][b] = IF b
        = v.next THEN v.minute ELSE window_minutes[c][b]
  BY <1>0 DEF IndInv, TypeInv
<1>10. KeptOK(c)'
  <2>1. ASSUME Clean(c)
        PROVE  /\ v.minute = last_minute[c] /\ v.next = current_bucket[c]
               /\ \A e \in Recent(c) : e.bucket # v.next /\ e.bucket \in Bucket
    <3>1. \A e \in Recent(c) : e.bucket \in Bucket
      BY CounterFacts DEF Recent, Kept
    <3> QED
      BY <1>0, <1>7, <2>1, <3>1 DEF RotatesAs
  <2>2. \A e \in Recent(c)' : window_minutes'[c][e.bucket] = e.minute
    BY <1>4, <1>5, <1>9, <2>1 DEF KeptOK
  <2>3. Clean(c)' => window_minutes'[c][current_bucket'[c]] = last_minute'[c]
    BY <1>0, <1>4, <1>9, <2>1
  <2>4. Clean(c)'
          => \A e \in Recent(c)' : InStep(e.bucket, e.minute, current_bucket'[c], last_minute'[c])
    <3>1. ASSUME Clean(c)
          PROVE  \A e \in Recent(c) : InStep(e.bucket, e.minute, current_bucket[c], last_minute[c])
      <4>1. \A u \in Busy(c) : thread[u].at \notin {"bucket", "store"}
        BY <1>7, <3>1
      <4> QED
        BY <3>1, <4>1 DEF KeptOK
    <3> QED
      BY <1>4, <3>1
  <2>5. \A b \in Bucket : Cardinality(InBucket(c, b)') <= windows'[c][b]
    BY <1>4 DEF KeptOK, InBucket
  <2>6. \A e \in Kept(c)' : e.minute <= last_minute'[c]
    BY <1>4 DEF KeptOK
  <2> QED
    BY <2>2, <2>3, <2>4, <2>5, <2>6 DEF KeptOK
<1> QED
  BY <1>6, <1>8, <1>10 DEF DisturbedOK

(* A failure is counted.                                                    *)
LEMMA AddCount ==
  ASSUME IndInv, CallsOK, NEW t \in Threads, NEW c \in Counters, thread[t].counter = c,
         NEW v, Takes(t, v), v = [thread[t] EXCEPT !.at = "total"], thread[t].at = "add",
         NEW e, e.minute = thread[t].minute, e.bucket = thread[t].next,
         events'[c] = events[c] \cup {e},
         windows'[c] = [windows[c] EXCEPT ![thread[t].next] = windows[c][thread[t].next] + 1],
         current_bucket'[c] = current_bucket[c], last_minute'[c] = last_minute[c],
         racedAt'[c] = racedAt[c], window_minutes'[c] = window_minutes[c],
         DisturbedOK(c), FreshOK(c), RotatingOK(c), KeptOK(c), ~Disturbed(c)'
  PROVE  DisturbedOK(c)' /\ FreshOK(c)' /\ RotatingOK(c)' /\ KeptOK(c)'
<1>0. /\ v.at = "total" /\ v.counter = c /\ v.minute = thread[t].minute
      /\ v.next = thread[t].next /\ v.next \in Bucket /\ v.minute \in Nat
  BY ThreadType
<1>1. \A u \in Threads : thread'[u] = IF u = t THEN v ELSE thread[u]
  BY TakesIs
<1>2. Busy(c)' = Busy(c) /\ t \in Busy(c) /\ Rotating(c)' = Rotating(c)
  BY <1>0, <1>1 DEF Busy, Rotating
<1>3. Clean(c)' <=> Clean(c)
  BY DEF Clean
<1>4. /\ last_minute[c] \in Nat /\ racedAt[c] \in Nat /\ NumWindows \in Nat /\ NumWindows > 1
      /\ \A x \in events[c] : x.minute \in Nat /\ x.bucket \in Bucket
      /\ \A b \in Bucket : windows[c][b] \in Nat
  BY CounterFacts
<1>5. FreshOK(c)'
  <2>1. ASSUME NEW u \in Busy(c) PROVE FreshAs(c, thread[u])'
    <3>1. FreshAs(c, thread[u])
      BY DEF FreshOK
    <3>2. CASE u = t
      BY <1>0, <1>1, <3>1, <3>2 DEF FreshAs
    <3>3. CASE u # t
      BY <1>1, <3>1, <3>3 DEF FreshAs, Busy
    <3> QED
      BY <3>2, <3>3
  <2> QED
    BY <1>2, <2>1 DEF FreshOK
<1>6. \A b \in Bucket : windows'[c][b] = IF b = v.next THEN windows[c][b] + 1 ELSE windows[c][b]
  BY <1>0 DEF IndInv, TypeInv
<1>7. CASE ~(v.minute > racedAt[c])
  <2>1. Kept(c)' = Kept(c) /\ Recent(c)' = Recent(c)
    <3>1. Kept(c)' = Kept(c)
      BY <1>0, <1>7 DEF Kept
    <3> QED
      BY <3>1 DEF Recent
  <2>2. RotatingOK(c)'
    <3>1. ASSUME Clean(c), NEW u \in Rotating(c) PROVE RotatesAs(c, thread[u])'
      <4>1. u # t /\ u \in Threads /\ RotatesAs(c, thread[u])
        BY <3>1 DEF RotatingOK, Rotating, Busy
      <4> QED
        BY <1>1, <2>1, <4>1 DEF RotatesAs
    <3> QED
      BY <1>2, <1>3, <3>1 DEF RotatingOK
  <2>3. \A b \in Bucket : Cardinality(InBucket(c, b)') <= windows'[c][b]
    <3>1. ASSUME NEW b \in Bucket PROVE Cardinality(InBucket(c, b)') <= windows'[c][b]
      <4>1. InBucket(c, b)' = InBucket(c, b) /\ Cardinality(InBucket(c, b)) <= windows[c][b]
        BY <2>1 DEF InBucket, KeptOK
      <4>2. Cardinality(InBucket(c, b)) \in Nat
        <5>1. InBucket(c, b) \subseteq Recent(c)
          BY DEF InBucket
        <5> QED
          BY <5>1, CleanIs, FS_Subset, FS_CardinalityType
      <4> QED
        BY <1>4, <1>6, <4>1, <4>2
    <3> QED
      BY <3>1
  <2>4. (\A u \in Busy(c) : thread'[u].at \notin {"bucket", "store"})
           => \A u \in Busy(c) : thread[u].at \notin {"bucket", "store"}
    BY <1>1 DEF Busy
  <2>5. KeptOK(c)'
    BY <1>2, <1>3, <2>1, <2>3, <2>4 DEF KeptOK
  <2> QED
    BY <1>5, <2>2, <2>5 DEF DisturbedOK
<1>8. CASE v.minute > racedAt[c]
  <2>1. v.minute = last_minute[c] /\ v.next = current_bucket[c] /\ Clean(c)
    <3>1. FreshAs(c, thread[t])
      BY <1>2 DEF FreshOK
    <3> QED
      BY <1>0, <1>8, <3>1 DEF FreshAs, Clean
  <2>2. Rotating(c) = {}
    <3>1. ASSUME NEW u \in Rotating(c) PROVE FALSE
      <4>1. Busy(c) = {u}
        BY <2>1, CleanIs, Sole
      <4> QED
        BY <1>2, <4>1 DEF Rotating
    <3> QED
      BY <3>1
  <2>3. Kept(c)' = Kept(c) \cup {e} /\ Recent(c)' = Recent(c) \cup {e}
    <3>1. Kept(c)' = Kept(c) \cup {e}
      BY <1>0, <1>8 DEF Kept
    <3>2. e.minute > last_minute[c] - NumWindows
      BY <1>0, <1>4, <2>1
    <3> QED
      BY <3>1, <3>2 DEF Recent
  <2>4. RotatingOK(c)'
    BY <1>2, <2>2 DEF RotatingOK
  <2>5. \A x \in Kept(c)' : x.minute <= last_minute'[c]
    BY <1>0, <1>4, <2>1, <2>3 DEF KeptOK
  <2>6. \A x \in Recent(c)' : InStep(x.bucket, x.minute, current_bucket[c], last_minute[c])
    <3>1. \A u \in Busy(c) : thread[u].at \notin {"bucket", "store"}
      BY <2>2 DEF Rotating
    <3>2. \A x \in Recent(c) : InStep(x.bucket, x.minute, current_bucket[c], last_minute[c])
      BY <2>1, <3>1 DEF KeptOK
    <3>3. InStep(e.bucket, e.minute, current_bucket[c], last_minute[c])
      <4>1. current_bucket[c] \in Nat
        BY CounterFacts
      <4> QED
        BY <1>0, <1>4, <2>1, <4>1 DEF InStep
    <3> QED
      BY <2>3, <3>2, <3>3
  <2>7. window_minutes[c][current_bucket[c]] = last_minute[c]
    BY <2>1, <2>2 DEF KeptOK
  <2>8. \A x \in Recent(c)' : window_minutes'[c][x.bucket] = x.minute
    BY <1>0, <2>1, <2>3, <2>7 DEF KeptOK
  <2>9. ASSUME NEW b \in Bucket PROVE Cardinality(InBucket(c, b)') <= windows'[c][b]
    <3>1. InBucket(c, b) \subseteq Recent(c) /\ IsFiniteSet(Recent(c))
      BY CleanIs DEF InBucket
    <3>2. IsFiniteSet(InBucket(c, b)) /\ Cardinality(InBucket(c, b)) \in Nat
          /\ Cardinality(InBucket(c, b)) <= windows[c][b]
      BY <3>1, FS_Subset, FS_CardinalityType DEF KeptOK
    <3>3. CASE b # v.next
      <4>1. InBucket(c, b)' = InBucket(c, b)
        BY <1>0, <2>3, <3>3 DEF InBucket
      <4> QED
        BY <1>6, <3>2, <3>3, <4>1
    <3>4. CASE b = v.next
      <4>1. InBucket(c, b)' = InBucket(c, b) \cup {e}
        BY <1>0, <2>3, <3>4 DEF InBucket
      <4>2. PICK S : S = InBucket(c, b)
        OBVIOUS
      <4>3. IsFiniteSet(S) /\ Cardinality(S) \in Nat
        BY <3>2, <4>2
      <4>4. /\ Cardinality(S \cup {e}) = Cardinality(S)
               \/ Cardinality(S \cup {e}) = Cardinality(S) + 1
        <5>1. CASE e \in S
          <6>1. S \cup {e} = S
            BY <5>1
          <6> QED
            BY <6>1
        <5>2. CASE e \notin S
          BY <4>3, <5>2, FS_AddElement
        <5> QED
          BY <5>1, <5>2
      <4>5. Cardinality(InBucket(c, b)') = Cardinality(S \cup {e})
        BY <4>1, <4>2
      <4>6. windows'[c][b] = windows[c][b] + 1 /\ windows[c][b] \in Nat
            /\ Cardinality(S) <= windows[c][b]
        BY <1>4, <1>6, <3>2, <3>4, <4>2
      <4> QED
        BY <4>3, <4>4, <4>5, <4>6
    <3> QED
      BY <3>3, <3>4
  <2>10. KeptOK(c)'
    BY <2>5, <2>6, <2>7, <2>8, <2>9 DEF KeptOK
  <2> QED
    BY <1>5, <2>4, <2>10 DEF DisturbedOK
<1> QED
  BY <1>7, <1>8

(* A call that begins.                                                      *)
LEMMA CallCount ==
  ASSUME IndInv, CallsOK, NEW t \in Threads, NEW d \in Counters, Record(t, d),
         NEW c \in Counters, racedAt'[c] = racedAt[c], ~Disturbed(c)',
         DisturbedOK(c), FreshOK(c), RotatingOK(c), KeptOK(c)
  PROVE  DisturbedOK(c)' /\ FreshOK(c)' /\ RotatingOK(c)' /\ KeptOK(c)'
<1>1. PICK v : v = [Idle EXCEPT !.at = "load", !.counter = d, !.minute = now]
  OBVIOUS
<1>2. Takes(t, v) /\ v.at = "load" /\ thread[t].at = "idle"
  BY <1>1 DEF Record, Move, Takes, At, Idle
<1>3. Untouched(c)
  BY DEF Record, Untouched, countVars
<1>4. FreshAs(c, v) /\ t \notin Rotating(c)
  BY <1>2 DEF FreshAs, Rotating
<1> QED
  BY <1>2, <1>3, <1>4, QuietCount

(* A call on another counter goes on.                                       *)
LEMMA ElsewhereCount ==
  ASSUME IndInv, CallsOK, NEW t \in Threads, Continue(t), NEW c \in Counters,
         thread[t].counter # c, racedAt'[c] = racedAt[c], ~Disturbed(c)',
         DisturbedOK(c), FreshOK(c), RotatingOK(c), KeptOK(c)
  PROVE  DisturbedOK(c)' /\ FreshOK(c)' /\ RotatingOK(c)' /\ KeptOK(c)'
<1>1. thread[t].at # "idle" /\ thread[t].counter \in Counters
  <2>1. thread[t].at # "idle"
    BY DEF Continue, LoadLast, Exchange, LoadBucket, StoreBucket, ClearBucket, LabelBucket,
           LoadIndex, AddRecent, AddLifetime, At
  <2> QED
    BY <2>1, ThreadType
<1>2. PICK d : d = thread[t].counter
  OBVIOUS
<1>3. /\ windows' \in {windows, [windows EXCEPT ![d] = windows'[d]]}
      /\ window_minutes' \in {window_minutes, [window_minutes EXCEPT ![d] = window_minutes'[d]]}
      /\ last_minute' \in {last_minute, [last_minute EXCEPT ![d] = last_minute'[d]]}
      /\ current_bucket' \in {current_bucket, [current_bucket EXCEPT ![d] = current_bucket'[d]]}
      /\ events' \in {events, [events EXCEPT ![d] = events'[d]]}
  <2> USE <1>1, <1>2 DEF countVars
  <2>1. CASE LoadLast(t) \/ LoadBucket(t) \/ LoadIndex(t)
    BY <2>1 DEF LoadLast, LoadBucket, LoadIndex
  <2>2. CASE Exchange(t)
    BY <2>2 DEF Exchange, IndInv, TypeInv
  <2>3. CASE StoreBucket(t)
    BY <2>3 DEF StoreBucket, IndInv, TypeInv
  <2>4. CASE ClearBucket(t)
    BY <2>4 DEF ClearBucket, IndInv, TypeInv
  <2>5. CASE LabelBucket(t)
    BY <2>5 DEF LabelBucket, IndInv, TypeInv
  <2>6. CASE AddRecent(t)
    BY <2>6 DEF AddRecent, IndInv, TypeInv
  <2>7. CASE AddLifetime(t)
    BY <2>7 DEF AddLifetime
  <2> QED
    BY <2>1, <2>2, <2>3, <2>4, <2>5, <2>6, <2>7 DEF Continue
<1>4. Untouched(c)
  BY <1>2, <1>3 DEF Untouched, IndInv, TypeInv
<1>5. \E v : Takes(t, v) /\ v.counter # c
  <2>1. CASE AddLifetime(t)
    <3>1. Idle.counter = "none" /\ "none" \notin Counters
      <4>1. \A i \in DOMAIN SnapshotOrder : SnapshotOrder[i] # "none"
        BY DEF SnapshotOrder
      <4> QED
        BY <4>1, HealthAssumption DEF Idle
    <3> QED
      BY <2>1, <3>1 DEF AddLifetime, Move, Takes
  <2>2. CASE ~AddLifetime(t)
    <3>1. PICK v : Takes(t, v) /\ v.counter = thread[t].counter
      <4> USE ThreadType DEF Move, Takes
      <4>1. CASE LoadLast(t)
        <5>1. PICK last, to : Takes(t, [thread[t] EXCEPT !.last = last, !.at = to])
          BY <4>1 DEF LoadLast
        <5>2. PICK v : v = [thread[t] EXCEPT !.last = last, !.at = to]
          OBVIOUS
        <5>3. Takes(t, v) /\ v.counter = thread[t].counter
          BY <5>1, <5>2
        <5> QED
          BY <5>3
      <4>2. CASE Exchange(t)
        BY <4>2 DEF Exchange
      <4>3. CASE LoadBucket(t)
        <5>1. PICK n : Takes(t, [thread[t] EXCEPT !.next = n, !.at = "store"])
          BY <4>3 DEF LoadBucket
        <5>2. PICK v : v = [thread[t] EXCEPT !.next = n, !.at = "store"]
          OBVIOUS
        <5>3. Takes(t, v) /\ v.counter = thread[t].counter
          BY <5>1, <5>2
        <5> QED
          BY <5>3
      <4>4. CASE StoreBucket(t) \/ ClearBucket(t) \/ LabelBucket(t)
        BY <4>4 DEF StoreBucket, ClearBucket, LabelBucket
      <4>5. CASE LoadIndex(t) \/ AddRecent(t)
        BY <4>5 DEF LoadIndex, AddRecent
      <4> QED
        BY <2>2, <4>1, <4>2, <4>3, <4>4, <4>5 DEF Continue
    <3> QED
      BY <3>1
  <2> QED
    BY <2>1, <2>2
<1>6. PICK v : Takes(t, v) /\ v.counter # c
  BY <1>5
<1>7. t \notin Rotating(c)
  BY DEF Rotating, Busy
<1> QED
  BY <1>4, <1>6, <1>7, QuietCount

(* A call on the counter goes on.                                           *)
LEMMA ContinueCount ==
  ASSUME IndInv, CallsOK, NEW t \in Threads, Continue(t), NEW c \in Counters,
         thread[t].counter = c, racedAt'[c] = racedAt[c], ~Disturbed(c)',
         DisturbedOK(c), FreshOK(c), RotatingOK(c), KeptOK(c)
  PROVE  DisturbedOK(c)' /\ FreshOK(c)' /\ RotatingOK(c)' /\ KeptOK(c)'
<1>1. t \in Busy(c) /\ FreshAs(c, thread[t])
  BY DEF Busy, FreshOK
<1>2. CASE LoadLast(t)
  <2>1. PICK v : v = [thread[t] EXCEPT !.last = last_minute[c],
                        !.at = IF last_minute[c] = thread[t].minute THEN "index" ELSE "exchange"]
    OBVIOUS
  <2>2. /\ Takes(t, v) /\ v.minute = thread[t].minute /\ thread[t].at = "load"
        /\ v.at = "index" => v.minute = last_minute[c]
        /\ v.at \in {"index", "exchange"}
    BY <1>2, <2>1, ThreadType DEF LoadLast, Move, Takes, At
  <2>3. Untouched(c)
    BY <1>2 DEF LoadLast, Untouched, countVars
  <2>4. FreshAs(c, v) /\ t \notin Rotating(c)
    BY <2>2 DEF FreshAs, Rotating
  <2> QED
    BY <2>2, <2>3, <2>4, QuietCount
<1>3. CASE Exchange(t) /\ last_minute[c] # thread[t].last
  <2>1. PICK v : v = [thread[t] EXCEPT !.at = "load"]
    OBVIOUS
  <2>2. Takes(t, v) /\ v.at = "load" /\ thread[t].at = "exchange"
    BY <1>3, <2>1, ThreadType DEF Exchange, Move, Takes, At
  <2>3. Untouched(c)
    BY <1>3 DEF Exchange, Untouched
  <2>4. FreshAs(c, v) /\ t \notin Rotating(c)
    BY <2>2 DEF FreshAs, Rotating
  <2> QED
    BY <2>2, <2>3, <2>4, QuietCount
<1>4. CASE Exchange(t) /\ last_minute[c] = thread[t].last
  <2>1. PICK v : v = [thread[t] EXCEPT !.at = "bucket"]
    OBVIOUS
  <2>2. /\ Takes(t, v) /\ v.at = "bucket" /\ thread[t].at = "exchange" /\ v.counter = c
        /\ v.minute = thread[t].minute /\ v.last = thread[t].last
    BY <1>4, <2>1, ThreadType DEF Exchange, Move, Takes, At
  <2>3. /\ last_minute'[c] = thread[t].minute /\ events'[c] = events[c]
        /\ current_bucket'[c] = current_bucket[c]
        /\ window_minutes'[c] = window_minutes[c] /\ windows'[c] = windows[c]
    BY <1>4 DEF Exchange, IndInv, TypeInv
  <2> QED
    BY <1>4, <2>2, <2>3, ExchangeCount
<1>5. CASE LoadBucket(t)
  <2>1. PICK n : n = NextBucket(current_bucket[c], thread[t].last, thread[t].minute)
    OBVIOUS
  <2>2. PICK v : v = [thread[t] EXCEPT !.next = n, !.at = "store"]
    OBVIOUS
  <2>3. /\ Takes(t, v) /\ v.at = "store" /\ thread[t].at = "bucket" /\ v.counter = c
        /\ v.minute = thread[t].minute /\ v.last = thread[t].last /\ v.next = n
    BY <1>5, <2>1, <2>2, ThreadType DEF LoadBucket, Move, Takes, At
  <2>4. Untouched(c)
    BY <1>5 DEF LoadBucket, Untouched, countVars
  <2>5. FreshAs(c, v)
    BY <1>1, <2>3 DEF FreshAs
  <2>6. Clean(c) => RotatesAs(c, v)
    <3>1. t \in Rotating(c)
      BY <1>1, <2>3 DEF Rotating
    <3>2. Clean(c) => RotatesAs(c, thread[t])
      BY <3>1 DEF RotatingOK
    <3> QED
      BY <2>1, <2>3, <3>2 DEF RotatesAs
  <2> QED
    BY <2>3, <2>4, <2>5, <2>6, QuietCount
<1>6. CASE StoreBucket(t)
  <2>1. PICK v : v = [thread[t] EXCEPT !.at = "clear"]
    OBVIOUS
  <2>2. /\ Takes(t, v) /\ thread[t].at = "store"
        /\ current_bucket'[c] = thread[t].next /\ last_minute'[c] = last_minute[c]
        /\ events'[c] = events[c] /\ window_minutes'[c] = window_minutes[c]
        /\ windows'[c] = windows[c]
    BY <1>6, <2>1 DEF StoreBucket, Move, Takes, At, IndInv, TypeInv
  <2> QED
    BY <2>1, <2>2, StoreCount
<1>7. CASE ClearBucket(t)
  <2>1. PICK v : v = [thread[t] EXCEPT !.at = "label"]
    OBVIOUS
  <2>2. /\ Takes(t, v) /\ thread[t].at = "clear"
        /\ windows'[c] = [windows[c] EXCEPT ![thread[t].next] = 0]
        /\ current_bucket'[c] = current_bucket[c] /\ last_minute'[c] = last_minute[c]
        /\ events'[c] = events[c] /\ window_minutes'[c] = window_minutes[c]
    BY <1>7, <2>1 DEF ClearBucket, Move, Takes, At, IndInv, TypeInv
  <2> QED
    BY <2>1, <2>2, ClearCount
<1>8. CASE LabelBucket(t)
  <2>1. PICK v : v = [thread[t] EXCEPT !.at = "index"]
    OBVIOUS
  <2>2. /\ Takes(t, v) /\ thread[t].at = "label"
        /\ window_minutes'[c] = [window_minutes[c] EXCEPT ![thread[t].next] = thread[t].minute]
        /\ current_bucket'[c] = current_bucket[c] /\ last_minute'[c] = last_minute[c]
        /\ events'[c] = events[c] /\ windows'[c] = windows[c]
    BY <1>8, <2>1 DEF LabelBucket, Move, Takes, At, IndInv, TypeInv
  <2> QED
    BY <2>1, <2>2, LabelCount
<1>9. CASE LoadIndex(t)
  <2>1. PICK v : v = [thread[t] EXCEPT !.next = current_bucket[c], !.at = "add"]
    OBVIOUS
  <2>2. /\ Takes(t, v) /\ v.at = "add" /\ thread[t].at = "index"
        /\ v.minute = thread[t].minute /\ v.next = current_bucket[c]
    BY <1>9, <2>1, ThreadType DEF LoadIndex, Move, Takes, At
  <2>3. Untouched(c)
    BY <1>9 DEF LoadIndex, Untouched, countVars
  <2>4. FreshAs(c, v) /\ t \notin Rotating(c)
    BY <1>1, <2>2 DEF FreshAs, Rotating
  <2> QED
    BY <2>2, <2>3, <2>4, QuietCount
<1>10. CASE AddRecent(t)
  <2>1. PICK v : v = [thread[t] EXCEPT !.at = "total"]
    OBVIOUS
  <2>2. PICK e : e = [id |-> Cardinality(events[c]), minute |-> thread[t].minute,
                      seen |-> peak, bucket |-> thread[t].next]
    OBVIOUS
  <2>3. /\ Takes(t, v) /\ thread[t].at = "add"
        /\ e.minute = thread[t].minute /\ e.bucket = thread[t].next
        /\ events'[c] = events[c] \cup {e}
        /\ windows'[c] = [windows[c] EXCEPT ![thread[t].next] = windows[c][thread[t].next] + 1]
        /\ current_bucket'[c] = current_bucket[c] /\ last_minute'[c] = last_minute[c]
        /\ window_minutes'[c] = window_minutes[c]
    BY <1>10, <2>1, <2>2 DEF AddRecent, Move, Takes, At, IndInv, TypeInv
  <2> QED
    BY <2>1, <2>3, AddCount
<1>11. CASE AddLifetime(t)
  <2>1. Takes(t, Idle) /\ Idle.at = "idle" /\ thread[t].at = "total"
    BY <1>11 DEF AddLifetime, Move, Takes, At, Idle
  <2>2. Untouched(c)
    BY <1>11 DEF AddLifetime, Untouched
  <2>3. FreshAs(c, Idle) /\ t \notin Rotating(c)
    BY <2>1 DEF FreshAs, Rotating
  <2> QED
    BY <2>1, <2>2, <2>3, QuietCount
<1> QED
  BY <1>2, <1>3, <1>4, <1>5, <1>6, <1>7, <1>8, <1>9, <1>10, <1>11 DEF Continue

-----------------------------------------------------------------------------
(* The steps of the threads and of the clock keep the minutes below the     *)
(* latest one.                                                              *)
LEMMA CallsThread ==
  ASSUME IndInv, CallsOK, NEW t \in Threads, Noted, UNCHANGED peak,
         Continue(t) \/ \E c \in Counters : Record(t, c)
  PROVE  CallsOK'
<1>1. /\ peak' = peak /\ peak \in Nat /\ now <= peak
      /\ thread[t].minute \in Nat /\ thread[t].minute <= peak
  BY ThreadType
<1>2. racedAt' \in [Counters -> Nat] /\ \A c \in Counters : racedAt'[c] <= peak
  BY <1>1 DEF CallsOK, Noted
<1>3. \A c \in Counters : last_minute'[c] <= peak
  <2>1. last_minute' \in {last_minute,
                          [last_minute EXCEPT ![thread[t].counter] = thread[t].minute]}
    BY DEF Continue, LoadLast, Exchange, LoadBucket, StoreBucket, ClearBucket, LabelBucket,
           LoadIndex, AddRecent, AddLifetime, Record, countVars
  <2> QED
    BY <1>1, <2>1 DEF CallsOK, IndInv, TypeInv
<1>4. \A c \in Counters : \A e \in events'[c] : e.minute <= peak
  <2>1. CASE AddRecent(t)
    <3>1. PICK f : f = [id |-> Cardinality(events[thread[t].counter]), minute |-> thread[t].minute,
                        seen |-> peak, bucket |-> thread[t].next]
      OBVIOUS
    <3>2. events' = [events EXCEPT ![thread[t].counter] = events[thread[t].counter] \cup {f}]
          /\ f.minute = thread[t].minute
      BY <2>1, <3>1 DEF AddRecent
    <3> QED
      BY <1>1, <3>2 DEF CallsOK, IndInv, TypeInv
  <2>2. CASE UNCHANGED events
    BY <2>2 DEF CallsOK
  <2> QED
    BY <2>1, <2>2 DEF Continue, LoadLast, Exchange, LoadBucket, StoreBucket, ClearBucket,
           LabelBucket, LoadIndex, AddLifetime, Record
<1>5. PICK v : /\ Takes(t, v)
               /\ v.at = "idle" => v.counter = "none"
               /\ v.at = "exchange" => v.last # v.minute
  <2>1. CASE LoadLast(t)
    <3>1. PICK l : l = last_minute[thread[t].counter]
      OBVIOUS
    <3>2. PICK v : v = [thread[t] EXCEPT !.last = l,
                          !.at = IF l = thread[t].minute THEN "index" ELSE "exchange"]
      OBVIOUS
    <3>3. Takes(t, v)
      BY <2>1, <3>1, <3>2 DEF LoadLast, Takes, Move
    <3>4. (v.at = "exchange" => v.last # v.minute) /\ v.at # "idle"
      BY <3>2, ThreadType
    <3> QED
      BY <3>3, <3>4
  <2>2. CASE LoadBucket(t)
    <3>1. PICK n : Takes(t, [thread[t] EXCEPT !.next = n, !.at = "store"])
      BY <2>2 DEF LoadBucket, Takes, Move
    <3>2. PICK v : v = [thread[t] EXCEPT !.next = n, !.at = "store"]
      OBVIOUS
    <3>3. Takes(t, v) /\ v.at = "store"
      BY <3>1, <3>2, ThreadType
    <3> QED
      BY <3>3
  <2>3. CASE Exchange(t) \/ StoreBucket(t) \/ ClearBucket(t) \/ LabelBucket(t) \/ AddRecent(t)
    <3>1. PICK to \in {"bucket", "load", "clear", "label", "index", "total"} :
            Takes(t, [thread[t] EXCEPT !.at = to])
      BY <2>3 DEF Exchange, StoreBucket, ClearBucket, LabelBucket, AddRecent, Takes, Move
    <3>2. PICK v : v = [thread[t] EXCEPT !.at = to]
      OBVIOUS
    <3>3. Takes(t, v) /\ v.at = to
      BY <3>1, <3>2, ThreadType
    <3> QED
      BY <3>3
  <2>4. CASE LoadIndex(t)
    <3>1. PICK v : v = [thread[t] EXCEPT !.next = current_bucket[thread[t].counter], !.at = "add"]
      OBVIOUS
    <3>2. Takes(t, v) /\ v.at = "add"
      BY <2>4, <3>1, ThreadType DEF LoadIndex, Takes, Move
    <3> QED
      BY <3>2
  <2>5. CASE AddLifetime(t)
    <3>1. Takes(t, Idle) /\ Idle.at = "idle" /\ Idle.counter = "none"
      BY <2>5 DEF AddLifetime, Idle, Takes, Move
    <3> QED
      BY <3>1
  <2>6. CASE \E c \in Counters : Record(t, c)
    <3>1. PICK c \in Counters : Record(t, c)
      BY <2>6
    <3>2. PICK v : v = [Idle EXCEPT !.at = "load", !.counter = c, !.minute = now]
      OBVIOUS
    <3>3. Takes(t, v) /\ v.at = "load"
      BY <3>1, <3>2 DEF Record, Idle, Takes, Move
    <3> QED
      BY <3>3
  <2> QED
    BY <2>1, <2>2, <2>3, <2>4, <2>5, <2>6 DEF Continue
<1>6. \A u \in Threads : /\ thread'[u].at = "idle" => thread'[u].counter = "none"
                         /\ thread'[u].at = "exchange" => thread'[u].last # thread'[u].minute
  BY <1>5, TakesIs DEF CallsOK
<1> QED
  BY <1>1, <1>2, <1>3, <1>4, <1>6 DEF CallsOK

(* and so do the steps of a reply and of the clock.                         *)
LEMMA CallsElse ==
  ASSUME IndInv, IndInv', CallsOK, ReplyStep \/ Clock
  PROVE  CallsOK'
<1>1. UNCHANGED <<last_minute, events, racedAt, thread>>
  BY DEF ReplyStep, Clock, countVars
<1>2. peak \in Nat /\ peak' \in Nat /\ peak <= peak'
  BY DEF ReplyStep, Clock, Tick, StepBack, IndInv, TypeInv
<1>3. ASSUME NEW c \in Counters
      PROVE  /\ last_minute[c] <= peak' /\ racedAt[c] <= peak'
             /\ \A e \in events[c] : e.minute <= peak'
  BY <1>2, CounterFacts
<1> QED
  BY <1>1, <1>3 DEF CallsOK

(* Every step of the counters.                                              *)
LEMMA CountsStep ==
  ASSUME IndInv, IndInv', CallsOK, CallsOK', CountsOK, Next
  PROVE  CountsOK'
<1> SUFFICES ASSUME NEW c \in Counters
             PROVE  DisturbedOK(c)' /\ FreshOK(c)' /\ RotatingOK(c)' /\ KeptOK(c)'
  BY DEF CountsOK
<1>1. DisturbedOK(c) /\ FreshOK(c) /\ RotatingOK(c) /\ KeptOK(c)
  BY DEF CountsOK
<1>2. CASE ReplyStep \/ Clock
  <2>1. Untouched(c) /\ Busy(c)' = Busy(c) /\ thread' = thread
    BY <1>2 DEF ReplyStep, Clock, countVars, Untouched, Busy
  <2> QED
    BY <1>1, <2>1, CounterStays
<1>3. ASSUME NEW t \in Threads, Noted, UNCHANGED peak,
             Continue(t) \/ \E d \in Counters : Record(t, d)
      PROVE  DisturbedOK(c)' /\ FreshOK(c)' /\ RotatingOK(c)' /\ KeptOK(c)'
  <2>1. CASE Disturbed(c)'
    <3>1. racedAt'[c] = peak'
      BY <1>3, <2>1 DEF Noted
    <3> QED
      BY <3>1, StaleAll
  <2>2. CASE ~Disturbed(c)'
    <3>1. racedAt'[c] = racedAt[c]
      BY <1>3, <2>2 DEF Noted
    <3>2. CASE Continue(t) /\ thread[t].counter # c
      BY <1>1, <2>2, <3>1, <3>2, ElsewhereCount
    <3>3. CASE Continue(t) /\ thread[t].counter = c
      BY <1>1, <2>2, <3>1, <3>3, ContinueCount
    <3>4. CASE \E d \in Counters : Record(t, d)
      BY <1>1, <2>2, <3>1, <3>4, CallCount
    <3> QED
      BY <1>3, <3>2, <3>3, <3>4
  <2> QED
    BY <2>1, <2>2
<1> QED
  BY <1>2, <1>3 DEF Next, ThreadStep, Call

(* The counters start with nothing counted.                                 *)
LEMMA CountsStart ==
  ASSUME Init, IndInv
  PROVE  CallsOK /\ CountsOK
<1>1. Zero \in [Counters -> Nat] /\ \A c \in Counters : Zero[c] = 0
  BY DEF Zero
<1>2. CallsOK
  BY <1>1 DEF Init, CallsOK, Idle
<1>3. \A c \in Counters : Busy(c) = {}
  <2>1. "none" \notin Counters
    <3>1. \A i \in DOMAIN SnapshotOrder : SnapshotOrder[i] # "none"
      BY DEF SnapshotOrder
    <3> QED
      BY <3>1, HealthAssumption
  <2> QED
    BY <2>1 DEF Init, Busy, Idle
<1>4. ASSUME NEW c \in Counters
      PROVE  DisturbedOK(c) /\ FreshOK(c) /\ RotatingOK(c) /\ KeptOK(c)
  <2>1. ~Disturbed(c) /\ Rotating(c) = {}
    BY <1>3 DEF Disturbed, Rotating
  <2>2. ~Clean(c)
    BY <1>1 DEF Clean, Init
  <2>3. Kept(c) = {} /\ Recent(c) = {}
    BY DEF Init, Kept, Recent
  <2>4. ASSUME NEW b \in Bucket PROVE Cardinality(InBucket(c, b)) <= windows[c][b]
    <3>1. Cardinality(InBucket(c, b)) = 0
      BY <2>3, FS_EmptySet DEF InBucket
    <3>2. windows[c][b] = 0
      BY DEF Init
    <3> QED
      BY <3>1, <3>2
  <2> QED
    BY <1>3, <2>1, <2>2, <2>3, <2>4 DEF DisturbedOK, FreshOK, RotatingOK, KeptOK
<1> QED
  BY <1>2, <1>4 DEF CountsOK

-----------------------------------------------------------------------------
(* A step that does not touch the reply owes no more.                       *)
LEMMA ShownStays ==
  ASSUME IndInv, CallsOK, UNCHANGED reply, ShownOK,
         peak' \in Nat, peak <= peak',
         \A c \in Counters : events[c] \subseteq events'[c],
         \A c \in Counters : racedAt'[c] \in Nat /\ racedAt[c] <= racedAt'[c]
  PROVE  ShownOK'
<1>1. ASSUME reply.at # "idle", NEW c \in Counters, NEW e \in reply.known[c],
             Owed(reply, c, e)'
      PROVE  Owed(reply, c, e)
  <2>1. e \in events[c]
    BY <1>1 DEF ShownOK, Shows
  <2>2. e.minute \in Nat /\ racedAt[c] \in Nat /\ peak \in Nat /\ NumWindows \in Nat
    BY <2>1, CounterFacts
  <2> QED
    BY <1>1, <2>2 DEF Owed
<1>2. ASSUME reply.at # "idle", NEW c \in Counters PROVE (Fully(reply, c))'
  BY <1>1, <1>2 DEF ShownOK, Shows, Fully
<1>3. ASSUME reply.at \in {"minute", "window"}
      PROVE  (Partly(reply, First(reply.todo), reply.bucket))'
  <2>1. First(reply.todo) \in Counters
    BY <1>3, FirstProperties DEF IndInv, TypeInv
  <2> QED
    BY <1>1, <1>3, <2>1 DEF ShownOK, Shows, Partly
<1> QED
  BY <1>2, <1>3 DEF ShownOK, Shows

(* A step of the reply alone.                                               *)
LEMMA ShowsNext ==
  ASSUME UNCHANGED <<peak, events, racedAt>>, NEW r, reply' = r, Shows(r)
  PROVE  ShownOK'
<1>1. PICK q : q = r
  OBVIOUS
<1>2. Shows(q) /\ reply' = q
  BY <1>1
<1> QED
  BY <1>2 DEF ShownOK, Shows, Fully, Partly, Owed

(* The step to the next bucket, counter, snapshot or the reply.             *)
LEMMA FurtherShows ==
  ASSUME IndInv, CallsOK, NEW r, r \in ReplyType, r.at \in {"minute", "window"}, r.todo # {},
         Shows(r), Partly(r, First(r.todo), r.bucket + 1)
  PROVE  Shows(Further(r))
<1>1. PICK c : c = First(r.todo)
  OBVIOUS
<1>2. c \in Counters /\ c \in r.todo
  BY <1>1, FirstProperties DEF ReplyType
<1>3. /\ \A d \in Counters : r.known[d] \subseteq events[d] /\ Fully(r, d)
      /\ r.oldest <= r.minute[c] /\ Partly(r, c, r.bucket + 1)
  BY <1>1 DEF Shows
<1>4. r.bucket \in Nat /\ NumWindows \in Nat /\ r.bucket < NumWindows
  BY Options DEF ReplyType, Bucket
<1>5. CASE r.bucket < NumWindows - 1
  <2>1. PICK q : q = [r EXCEPT !.at = "minute", !.bucket = r.bucket + 1]
    OBVIOUS
  <2>2. Further(r) = q
    BY <1>5, <2>1 DEF Further
  <2>3. /\ q.at = "minute" /\ q.bucket = r.bucket + 1 /\ q.todo = r.todo /\ q.minute = r.minute
        /\ q.recent = r.recent /\ q.known = r.known /\ q.oldest = r.oldest /\ q.api = r.api
        /\ q.first = r.first
    BY <2>1 DEF ReplyType
  <2>4. \A d \in Counters : \A e : Owed(q, d, e) <=> Owed(r, d, e)
    BY <2>3 DEF Owed
  <2>5. \A d \in Counters : q.known[d] \subseteq events[d] /\ Fully(q, d)
    BY <1>3, <2>3, <2>4 DEF Fully
  <2>6. Partly(q, c, q.bucket)
    BY <1>2, <1>3, <2>3, <2>4 DEF Partly
  <2>7. Shows(q)
    BY <1>1, <1>3, <2>3, <2>5, <2>6 DEF Shows
  <2> QED
    BY <2>2, <2>7
<1>6. CASE ~(r.bucket < NumWindows - 1)
  <2>1. ASSUME NEW d \in Counters, NEW e \in r.known[d], Owed(r, d, e), d = c \/ d \notin r.todo
        PROVE  r.recent[d] > 0
    <3>1. CASE d = c
      <4>1. e.bucket \in Nat /\ e.bucket < NumWindows
        <5>1. e \in events[d]
          BY <1>3, <2>1
        <5> QED
          BY <5>1, CounterFacts
      <4>2. e.bucket < r.bucket + 1
        BY <1>4, <1>6, <4>1
      <4> QED
        BY <1>3, <2>1, <3>1, <4>2 DEF Partly
    <3>2. CASE d \notin r.todo
      BY <1>3, <2>1, <3>2 DEF Fully
    <3> QED
      BY <2>1, <3>1, <3>2
  <2>2. PICK rest : rest = r.todo \ {c}
    OBVIOUS
  <2>3. CASE rest # {}
    <3>1. PICK q : q = [r EXCEPT !.at = "counter", !.todo = rest]
      OBVIOUS
    <3>2. Further(r) = q
      BY <1>1, <1>6, <2>2, <2>3, <3>1 DEF Further
    <3>3. /\ q.at = "counter" /\ q.todo = rest /\ q.recent = r.recent /\ q.known = r.known
          /\ q.oldest = r.oldest /\ q.api = r.api /\ q.first = r.first
      BY <3>1 DEF ReplyType
    <3>4. \A d \in Counters : \A e : Owed(q, d, e) <=> Owed(r, d, e)
      BY <3>3 DEF Owed
    <3>5. ASSUME NEW d \in Counters PROVE q.known[d] \subseteq events[d] /\ Fully(q, d)
      <4>1. ASSUME NEW e \in q.known[d], Owed(q, d, e)
            PROVE (d \notin q.todo => q.recent[d] > 0) /\ (q.api = "grpc2" => q.first[d] > 0)
        <5>1. e \in r.known[d] /\ Owed(r, d, e)
          BY <3>3, <3>4, <4>1
        <5>2. d \notin q.todo => r.recent[d] > 0
          BY <2>1, <2>2, <3>3, <5>1
        <5>3. r.api = "grpc2" => r.first[d] > 0
          BY <1>3, <5>1 DEF Fully
        <5> QED
          BY <3>3, <5>2, <5>3
      <4> QED
        BY <1>3, <3>3, <4>1 DEF Fully
    <3>6. Shows(q)
      BY <3>3, <3>5 DEF Shows
    <3> QED
      BY <3>2, <3>6
  <2>4. CASE rest = {} /\ r.api = "grpc"
    <3>1. PICK q : q = [r EXCEPT !.at = "counter", !.todo = Counters, !.api = "grpc2",
                                 !.first = r.recent]
      OBVIOUS
    <3>2. Further(r) = q
      BY <1>1, <1>6, <2>2, <2>4, <3>1 DEF Further
    <3>3. /\ q.at = "counter" /\ q.todo = Counters /\ q.known = r.known
          /\ q.oldest = r.oldest /\ q.first = r.recent
      BY <3>1 DEF ReplyType
    <3>4. \A d \in Counters : \A e : Owed(q, d, e) <=> Owed(r, d, e)
      BY <3>3 DEF Owed
    <3>5. ASSUME NEW d \in Counters PROVE q.known[d] \subseteq events[d] /\ Fully(q, d)
      <4>1. ASSUME NEW e \in q.known[d], Owed(q, d, e)
            PROVE (d \notin q.todo => q.recent[d] > 0) /\ (q.api = "grpc2" => q.first[d] > 0)
        <5>1. e \in r.known[d] /\ Owed(r, d, e)
          BY <3>3, <3>4, <4>1
        <5>2. r.recent[d] > 0
          BY <2>1, <2>2, <2>4, <5>1
        <5> QED
          BY <3>3, <5>2
      <4> QED
        BY <1>3, <3>3, <4>1 DEF Fully
    <3>6. Shows(q)
      BY <3>3, <3>5 DEF Shows
    <3> QED
      BY <3>2, <3>6
  <2>5. CASE rest = {} /\ r.api # "grpc"
    <3>1. PICK f : f = IF r.api = "http" THEN r.recent ELSE r.first
      OBVIOUS
    <3>2. PICK q : q = [r EXCEPT !.at = "done", !.todo = {}, !.first = f]
      OBVIOUS
    <3>3. Further(r) = q
      BY <1>1, <1>6, <2>2, <2>5, <3>1, <3>2 DEF Further
    <3>4. /\ q.at = "done" /\ q.todo = {} /\ q.recent = r.recent /\ q.known = r.known
          /\ q.oldest = r.oldest /\ q.api = r.api /\ q.first = f
      BY <3>2 DEF ReplyType
    <3>5. \A d \in Counters : \A e : Owed(q, d, e) <=> Owed(r, d, e)
      BY <3>4 DEF Owed
    <3>6. (r.api = "http" /\ f = r.recent) \/ (r.api = "grpc2" /\ f = r.first)
      BY <2>5, <3>1 DEF ReplyType
    <3>7. ASSUME NEW d \in Counters PROVE q.known[d] \subseteq events[d] /\ Fully(q, d)
      <4>1. ASSUME NEW e \in q.known[d], Owed(q, d, e)
            PROVE (d \notin q.todo => q.recent[d] > 0) /\ (q.api = "grpc2" => q.first[d] > 0)
        <5>1. e \in r.known[d] /\ Owed(r, d, e)
          BY <3>4, <3>5, <4>1
        <5>2. r.recent[d] > 0
          BY <2>1, <2>2, <2>5, <5>1
        <5>3. r.api = "grpc2" => r.first[d] > 0
          BY <1>3, <5>1 DEF Fully
        <5> QED
          BY <3>4, <3>6, <5>2, <5>3
      <4> QED
        BY <1>3, <3>4, <4>1 DEF Fully
    <3>8. Shows(q)
      BY <3>4, <3>6, <3>7 DEF Shows
    <3> QED
      BY <3>3, <3>8
  <2> QED
    BY <2>3, <2>4, <2>5
<1> QED
  BY <1>5, <1>6

(* What is owed is in its bucket, under its label.                          *)
LEMMA OwedIs ==
  ASSUME IndInv, CallsOK, CountsOK, ShownOK, NEW c \in Counters, reply.at # "idle",
         NEW e \in reply.known[c], Owed(reply, c, e)
  PROVE  /\ e.bucket \in Bucket /\ e.minute \in Nat /\ e.minute > 0
         /\ e.minute <= reply.oldest /\ e.minute > peak - NumWindows
         /\ window_minutes[c][e.bucket] = e.minute /\ windows[c][e.bucket] > 0
<1>1. e \in events[c]
  BY DEF ShownOK, Shows
<1>2. /\ e.minute \in Nat /\ racedAt[c] \in Nat /\ last_minute[c] \in Nat /\ last_minute[c] <= peak
      /\ peak \in Nat /\ NumWindows \in Nat /\ e.bucket \in Bucket
  BY <1>1, CounterFacts
<1>3. e.minute > racedAt[c] /\ e.minute > peak - NumWindows /\ e.minute <= reply.oldest
  BY DEF Owed
<1>4. e \in Recent(c)
  BY <1>1, <1>2, <1>3 DEF Recent, Kept
<1>5. KeptOK(c) /\ DisturbedOK(c)
  BY DEF CountsOK
<1>6. window_minutes[c][e.bucket] = e.minute
  BY <1>4, <1>5 DEF KeptOK
<1>7. windows[c][e.bucket] > 0
  <2>1. PICK b : b = e.bucket
    OBVIOUS
  <2>2. PICK S : S = InBucket(c, b)
    OBVIOUS
  <2>3. e \in S /\ S \subseteq Recent(c)
    BY <1>4, <2>1, <2>2 DEF InBucket
  <2>4. IsFiniteSet(S)
    BY <1>5, <2>3, CleanIs, FS_Subset
  <2>5. Cardinality(S) \in Nat /\ Cardinality(S) # 0
    BY <2>3, <2>4, FS_CardinalityType, FS_EmptySet
  <2>6. Cardinality(S) <= windows[c][b] /\ windows[c][b] \in Nat
    BY <1>2, <1>5, <2>1, <2>2, CounterFacts DEF KeptOK
  <2> QED
    BY <2>1, <2>5, <2>6
<1> QED
  BY <1>2, <1>3, <1>6, <1>7

(* Every step of a reply.                                                   *)
LEMMA ReplyShows ==
  ASSUME IndInv, CallsOK, CountsOK, ShownOK, ReplyStep
  PROVE  ShownOK'
<1>0. /\ UNCHANGED <<peak, events, racedAt>> /\ reply \in ReplyType
      /\ now \in Nat /\ now <= peak /\ peak \in Nat /\ NumWindows \in Nat /\ NumWindows > 1
      /\ reply.at \in {"counter", "minute", "window"} => reply.todo # {}
      /\ \A c \in Counters : reply.minute[c] \in Nat /\ reply.minute[c] <= peak
      /\ reply.oldest \in Nat
  <2>1. ReplyFits(reply)
    BY ReplyNow
  <2> QED
    BY <2>1, Options DEF ReplyStep, ReplyFits, ReplyType, IndInv, TypeInv
<1>1. PICK c : c = First(reply.todo)
  OBVIOUS
<1>2. reply.at \in {"counter", "minute", "window"} => c \in Counters /\ c \in reply.todo
  BY <1>0, <1>1, FirstProperties DEF ReplyType
<1>3. reply.at # "idle" =>
        \A d \in Counters : reply.known[d] \subseteq events[d] /\ Fully(reply, d)
  BY DEF ShownOK, Shows
<1>4. reply.at \in {"minute", "window"} =>
        reply.oldest <= reply.minute[c] /\ Partly(reply, c, reply.bucket)
  BY <1>1 DEF ShownOK, Shows
<1>5. CASE \E api \in {"http", "grpc"} : Request(api)
  <2>1. PICK api \in {"http", "grpc"} : Request(api)
    BY <1>5
  <2>2. PICK r : r = [NoReply EXCEPT !.at = "counter", !.api = api, !.todo = Counters,
                                     !.known = events, !.oldest = now]
    OBVIOUS
  <2>3. reply' = r
    BY <2>1, <2>2 DEF Request
  <2>4. r.at = "counter" /\ r.todo = Counters /\ r.known = events /\ r.api # "grpc2"
    BY <2>2 DEF NoReply
  <2>5. \A d \in Counters : r.known[d] \subseteq events[d] /\ Fully(r, d)
    BY <2>4 DEF Fully
  <2>6. Shows(r)
    BY <2>4, <2>5 DEF Shows
  <2> QED
    BY <1>0, <2>3, <2>6, ShowsNext
<1>6. CASE SumCounter
  <2>1. PICK o : o = IF now < reply.oldest THEN now ELSE reply.oldest
    OBVIOUS
  <2>2. PICK r : r = [reply EXCEPT !.at = "minute", !.bucket = 0, !.minute[c] = now,
                                   !.recent[c] = 0, !.oldest = o]
    OBVIOUS
  <2>3. reply.at = "counter" /\ reply' = r
    BY <1>1, <1>6, <2>1, <2>2 DEF SumCounter
  <2>4. /\ r.at = "minute" /\ r.bucket = 0 /\ r.todo = reply.todo /\ r.known = reply.known
        /\ r.api = reply.api /\ r.first = reply.first /\ r.oldest = o
        /\ r.minute[c] = now /\ \A d \in Counters : d # c => r.recent[d] = reply.recent[d]
    BY <1>0, <1>2, <2>2, <2>3 DEF ReplyType
  <2>5. o <= now /\ o <= reply.oldest
    BY <1>0, <2>1
  <2>6. ASSUME NEW d \in Counters PROVE r.known[d] \subseteq events[d] /\ Fully(r, d)
    <3>1. ASSUME NEW e \in r.known[d], Owed(r, d, e)
          PROVE (d \notin r.todo => r.recent[d] > 0) /\ (r.api = "grpc2" => r.first[d] > 0)
      <4>1. e \in events[d] /\ e \in reply.known[d]
        BY <1>3, <2>3, <2>4, <3>1
      <4>2. e.minute \in Nat
        BY <4>1, CounterFacts
      <4>3. Owed(reply, d, e)
        <5>1. e.minute <= o
          BY <2>4, <3>1 DEF Owed
        <5>2. o \in Nat
          BY <1>0, <2>1
        <5>3. e.minute <= reply.oldest
          BY <1>0, <2>5, <4>2, <5>1, <5>2
        <5> QED
          BY <3>1, <5>3 DEF Owed
      <4>4. (d \notin reply.todo => reply.recent[d] > 0)
            /\ (reply.api = "grpc2" => reply.first[d] > 0)
        BY <1>3, <2>3, <4>1, <4>3 DEF Fully
      <4> QED
        BY <1>2, <2>3, <2>4, <4>4
    <3> QED
      BY <1>3, <2>3, <2>4, <3>1 DEF Fully
  <2>7. Partly(r, c, 0)
    <3>1. ASSUME NEW e \in r.known[c] PROVE ~(e.bucket < 0)
      <4>1. e \in events[c] /\ c \in Counters
        BY <1>2, <1>3, <2>3, <2>4, <3>1
      <4>2. e.bucket \in Nat
        BY <4>1, CounterFacts
      <4> QED
        BY <4>2
    <3> QED
      BY <3>1 DEF Partly
  <2>8. Shows(r)
    BY <1>1, <2>4, <2>5, <2>6, <2>7 DEF Shows
  <2> QED
    BY <1>0, <2>3, <2>8, ShowsNext
<1>7. CASE ReadMinute /\ Counts(window_minutes[c][reply.bucket], reply.minute[c])
  <2>1. PICK r : r = [reply EXCEPT !.at = "window"]
    OBVIOUS
  <2>2. reply.at = "minute" /\ reply' = r
    BY <1>1, <1>7, <2>1 DEF ReadMinute
  <2>3. /\ r.at = "window" /\ r.bucket = reply.bucket /\ r.todo = reply.todo
        /\ r.known = reply.known /\ r.api = reply.api /\ r.first = reply.first
        /\ r.oldest = reply.oldest /\ r.minute = reply.minute /\ r.recent = reply.recent
    BY <1>0, <2>1 DEF ReplyType
  <2>4. \A d \in Counters : r.known[d] \subseteq events[d] /\ Fully(r, d)
    BY <1>3, <2>2, <2>3 DEF Fully, Owed
  <2>5. Partly(r, c, r.bucket)
    BY <1>4, <2>2, <2>3 DEF Partly, Owed
  <2>6. Shows(r)
    BY <1>1, <1>4, <2>2, <2>3, <2>4, <2>5 DEF Shows
  <2> QED
    BY <1>0, <2>2, <2>6, ShowsNext
<1>8. CASE ReadMinute /\ ~Counts(window_minutes[c][reply.bucket], reply.minute[c])
  <2>1. reply.at = "minute" /\ reply' = Further(reply)
    BY <1>1, <1>8 DEF ReadMinute
  <2>2. c \in Counters /\ reply.bucket \in Nat
    BY <1>0, <1>2, <2>1, Options DEF ReplyType
  <2>3. Partly(reply, c, reply.bucket + 1)
    <3>1. ASSUME NEW e \in reply.known[c], Owed(reply, c, e), e.bucket < reply.bucket + 1
          PROVE  reply.recent[c] > 0
      <4>1. /\ e.bucket \in Bucket /\ e.minute \in Nat /\ e.minute > 0
            /\ e.minute <= reply.oldest /\ e.minute > peak - NumWindows
            /\ window_minutes[c][e.bucket] = e.minute
        BY <2>1, <2>2, <3>1, OwedIs
      <4>2. Counts(e.minute, reply.minute[c])
        <5>1. /\ reply.minute[c] \in Nat /\ reply.minute[c] <= peak
              /\ reply.oldest <= reply.minute[c]
          BY <1>0, <1>4, <2>1, <2>2
        <5> QED
          BY <1>0, <4>1, <5>1 DEF Counts
      <4>3. e.bucket # reply.bucket
        BY <1>8, <4>1, <4>2
      <4>4. e.bucket < reply.bucket
        <5>1. e.bucket \in Nat
          BY <4>1, Options
        <5>2. PICK x, y : x = e.bucket /\ y = reply.bucket
          OBVIOUS
        <5>3. x \in Nat /\ y \in Nat /\ x < y + 1 /\ x # y
          BY <2>2, <3>1, <4>3, <5>1, <5>2
        <5>4. x < y
          BY ONLY <5>3
        <5> QED
          BY <5>2, <5>4
      <4> QED
        BY <1>4, <2>1, <3>1, <4>4 DEF Partly
    <3> QED
      BY <3>1 DEF Partly
  <2>4. Shows(Further(reply))
    BY <1>0, <1>1, <2>1, <2>3, FurtherShows DEF ShownOK
  <2> QED
    BY <1>0, <2>1, <2>4, ShowsNext
<1>9. CASE ReadWindow
  <2>1. PICK w : w = windows[c][reply.bucket]
    OBVIOUS
  <2>2. PICK r : r = [reply EXCEPT !.recent[c] = reply.recent[c] + w]
    OBVIOUS
  <2>3. reply.at = "window" /\ reply' = Further(r)
    BY <1>1, <1>9, <2>1, <2>2 DEF ReadWindow
  <2>4. c \in Counters /\ c \in reply.todo /\ reply.bucket \in Nat /\ reply.bucket \in Bucket
    BY <1>0, <1>2, <2>3, Options DEF ReplyType
  <2>5. w \in Nat /\ reply.recent[c] \in Nat
    BY <1>0, <2>1, <2>4, CounterFacts DEF ReplyType
  <2>6. /\ r \in ReplyType /\ r.at = "window" /\ r.bucket = reply.bucket /\ r.todo = reply.todo
        /\ r.known = reply.known /\ r.api = reply.api /\ r.first = reply.first
        /\ r.oldest = reply.oldest /\ r.minute = reply.minute
        /\ r.recent[c] = reply.recent[c] + w
        /\ \A d \in Counters : d # c => r.recent[d] = reply.recent[d]
    BY <1>0, <2>2, <2>3, <2>4, <2>5 DEF ReplyType
  <2>7. \A d : \A e : Owed(r, d, e) <=> Owed(reply, d, e)
    BY <2>6 DEF Owed
  <2>8. \A d \in Counters : r.known[d] \subseteq events[d] /\ Fully(r, d)
    BY <1>3, <2>3, <2>4, <2>6, <2>7 DEF Fully
  <2>9. ASSUME NEW e \in r.known[c], Owed(r, c, e), e.bucket < r.bucket + 1
        PROVE  r.recent[c] > 0
    <3>1. e \in reply.known[c] /\ Owed(reply, c, e) /\ e.bucket < reply.bucket + 1
      BY <2>6, <2>7, <2>9
    <3>2. e.bucket \in Bucket /\ windows[c][e.bucket] > 0
      BY <2>3, <2>4, <3>1, OwedIs
    <3>3. CASE e.bucket = reply.bucket
      BY <2>1, <2>5, <2>6, <3>2, <3>3
    <3>4. CASE e.bucket # reply.bucket
      <4>1. e.bucket < reply.bucket
        <5>1. e.bucket \in Nat
          BY <3>2, Options
        <5>2. PICK x, y : x = e.bucket /\ y = reply.bucket
          OBVIOUS
        <5>3. x \in Nat /\ y \in Nat /\ x < y + 1 /\ x # y
          BY <2>4, <3>1, <3>4, <5>1, <5>2
        <5>4. x < y
          BY ONLY <5>3
        <5> QED
          BY <5>2, <5>4
      <4>2. reply.recent[c] > 0
        BY <1>4, <2>3, <3>1, <4>1 DEF Partly
      <4> QED
        BY <2>5, <2>6, <4>2
    <3> QED
      BY <3>3, <3>4
  <2>10. Partly(r, c, r.bucket + 1)
    BY <2>9 DEF Partly
  <2>11. Partly(r, c, r.bucket)
    <3>1. ASSUME NEW e \in r.known[c], Owed(r, c, e), e.bucket < r.bucket PROVE r.recent[c] > 0
      <4>1. e \in events[c]
        BY <1>3, <2>3, <2>4, <2>6, <3>1
      <4>2. e.bucket \in Nat
        BY <2>4, <4>1, CounterFacts
      <4>3. e.bucket < r.bucket + 1
        BY <2>4, <2>6, <3>1, <4>2
      <4> QED
        BY <2>9, <3>1, <4>3
    <3> QED
      BY <3>1 DEF Partly
  <2>12. First(r.todo) = c /\ r.todo # {}
    BY <1>1, <2>4, <2>6
  <2>13. Shows(r)
    BY <1>4, <2>3, <2>6, <2>8, <2>11, <2>12 DEF Shows
  <2>14. Shows(Further(r))
    BY <2>6, <2>10, <2>12, <2>13, FurtherShows
  <2> QED
    BY <1>0, <2>3, <2>14, ShowsNext
<1>10. CASE Answered
  <2>1. reply' = NoReply /\ Shows(NoReply)
    BY <1>10 DEF Answered, NoReply, Shows
  <2> QED
    BY <1>0, <2>1, ShowsNext
<1> QED
  BY <1>5, <1>6, <1>7, <1>8, <1>9, <1>10, <1>1 DEF ReplyStep, ReadMinute

(* The steps of the threads and of the clock.                               *)
LEMMA ElseShows ==
  ASSUME IndInv, IndInv', CallsOK, CallsOK', ShownOK,
         Clock \/ \E t \in Threads : ThreadStep(t) \/ \E c \in Counters : Call(t, c)
  PROVE  ShownOK'
<1>1. UNCHANGED reply /\ peak' \in Nat /\ peak <= peak'
  BY DEF Clock, Tick, StepBack, ThreadStep, Call, IndInv, TypeInv
<1>2. \A c \in Counters : events[c] \subseteq events'[c]
  <2>1. CASE UNCHANGED events
    BY <2>1
  <2>2. CASE \E t \in Threads : AddRecent(t)
    <3>1. PICK t \in Threads : AddRecent(t)
      BY <2>2
    <3>2. PICK f : f = [id |-> Cardinality(events[thread[t].counter]), minute |-> thread[t].minute,
                        seen |-> peak, bucket |-> thread[t].next]
      OBVIOUS
    <3>3. events' = [events EXCEPT ![thread[t].counter] = events[thread[t].counter] \cup {f}]
      BY <3>1, <3>2 DEF AddRecent
    <3> QED
      BY <3>3 DEF IndInv, TypeInv
  <2> QED
    BY <2>1, <2>2 DEF Clock, ThreadStep, Call, Continue, LoadLast, Exchange, LoadBucket,
       StoreBucket, ClearBucket, LabelBucket, LoadIndex, AddLifetime, Record
<1>3. \A c \in Counters : racedAt'[c] \in Nat /\ racedAt[c] <= racedAt'[c]
  <2>1. \A c \in Counters : racedAt[c] \in Nat /\ racedAt[c] <= peak /\ peak \in Nat
    BY CounterFacts
  <2>2. CASE UNCHANGED racedAt
    BY <2>1, <2>2
  <2>3. CASE Noted
    BY <2>1, <2>3 DEF Noted
  <2> QED
    BY <2>2, <2>3 DEF Clock, ThreadStep, Call
<1> QED
  BY <1>1, <1>2, <1>3, ShownStays

-----------------------------------------------------------------------------
(* A set of naturals has a least element, as < is well founded on them.     *)
LEMMA Least ==
  ASSUME NEW T, T \subseteq Nat, T # {}
  PROVE  \E x \in T : \A y \in T : x <= y
<1> DEFINE R == OpToRel(<, Nat)
<1>1. \A x, y \in Nat : <<x, y>> \in R <=> x < y
  BY DEF OpToRel
<1>2. IsWellFoundedOn(R, Nat)
  BY NatLessThanWellFounded
<1> HIDE DEF R
<1>3. PICK x \in T : \A y \in T : ~ (<<y, x>> \in R)
  BY <1>2, WFMin
<1>4. \A y \in T : x <= y
  <2> TAKE y \in T
  <2>1. x \in Nat /\ y \in Nat
    OBVIOUS
  <2>2. ~ (y < x)
    BY <1>1, <1>3, <2>1
  <2> QED BY <2>1, <2>2
<1> QED BY <1>4

(* Induction over the naturals, for a set: the least number outside would   *)
(* have a predecessor inside.                                               *)
LEMMA Inductive ==
  ASSUME NEW S, 0 \in S, \A n \in Nat : n \in S => n + 1 \in S
  PROVE  Nat \subseteq S
<1> SUFFICES ASSUME Nat \ S # {} PROVE FALSE
  OBVIOUS
<1>1. PICK x \in Nat \ S : \A y \in Nat \ S : x <= y
  BY Least
<1>2. x # 0 /\ x - 1 \in Nat /\ ~ (x <= x - 1)
  OBVIOUS
<1>3. x - 1 \in S
  BY <1>1, <1>2
<1> QED BY <1>2, <1>3

(* F adds up w bucket by bucket, as the loop of recent_sum does.            *)
AddsUp(F, w) ==
  F = [b \in -1..(NumWindows - 1) |-> IF b < 0 THEN 0 ELSE F[b - 1] + w[b]]

(* Such a function exists, and is the sums of w.                            *)
LEMMA Added ==
  ASSUME NEW w \in [Bucket -> Nat]
  PROVE  \E F : AddsUp(F, w)
<1>0. NumWindows \in Nat /\ NumWindows > 1 /\ \A k \in 0..(NumWindows - 1) : w[k] \in Nat
  BY Options DEF Bucket
<1> DEFINE G(F, k) == F[-1] = 0 /\ \A b \in 0..(k - 1) : F[b] = F[b - 1] + w[b]
           E(k) == \E F \in [-1..(k - 1) -> Nat] : G(F, k)
           S == {k \in Nat : k <= NumWindows => E(k)}
<1>1. 0 \in S
  <2>1. [b \in -1..(0 - 1) |-> 0] \in [-1..(0 - 1) -> Nat] /\ G([b \in -1..(0 - 1) |-> 0], 0)
    OBVIOUS
  <2>2. E(0)
    BY <2>1
  <2> QED
    BY <2>2
<1>2. ASSUME NEW k \in Nat, k \in S PROVE k + 1 \in S
  <2> HIDE DEF E
  <2> SUFFICES ASSUME k + 1 <= NumWindows PROVE E(k + 1)
    BY <1>2
  <2>0. E(k)
    BY <1>0, <1>2
  <2>1. PICK F \in [-1..(k - 1) -> Nat] : G(F, k)
    BY <2>0 DEF E
  <2>2. PICK last : last = F[k - 1] + w[k]
    OBVIOUS
  <2>3. last \in Nat
    <3>1. k - 1 \in -1..(k - 1) /\ w[k] \in Nat
      BY <1>0
    <3> QED
      BY <2>2, <3>1
  <2> DEFINE H == [b \in -1..((k + 1) - 1) |-> IF b = k THEN last ELSE F[b]]
  <2>4. H \in [-1..((k + 1) - 1) -> Nat]
    <3>1. \A b \in -1..((k + 1) - 1) : b # k => b \in -1..(k - 1)
      OBVIOUS
    <3> QED
      BY <2>3, <3>1
  <2>5. H[k] = last /\ \A b \in -1..(k - 1) : H[b] = F[b]
    OBVIOUS
  <2> HIDE DEF H
  <2>6. ASSUME NEW b \in 0..((k + 1) - 1) PROVE H[b] = H[b - 1] + w[b]
    <3>1. CASE b = k
      <4>1. H[k - 1] = F[k - 1]
        BY <2>5
      <4> QED
        BY <2>2, <2>5, <3>1, <4>1
    <3>2. CASE b # k
      <4>1. b \in 0..(k - 1) /\ b \in -1..(k - 1) /\ b - 1 \in -1..(k - 1)
        BY <3>2
      <4> QED
        BY <2>1, <2>5, <4>1
    <3> QED
      BY <3>1, <3>2
  <2>7. H[-1] = 0
    BY <2>1, <2>5
  <2> QED
    BY <2>4, <2>6, <2>7 DEF E
<1> HIDE DEF S, E
<1>3. E(NumWindows)
  <2>1. Nat \subseteq S
    BY ONLY <1>1, <1>2, Inductive
  <2> QED
    BY <1>0, <2>1 DEF S
<1>4. PICK F \in [-1..(NumWindows - 1) -> Nat] :
        F[-1] = 0 /\ \A b \in 0..(NumWindows - 1) : F[b] = F[b - 1] + w[b]
  BY <1>3 DEF E
<1>5. AddsUp(F, w)
  <2>1. ASSUME NEW b \in -1..(NumWindows - 1) PROVE F[b] = IF b < 0 THEN 0 ELSE F[b - 1] + w[b]
    <3>1. CASE b < 0
      <4>1. b = -1
        BY <3>1
      <4> QED
        BY <1>4, <3>1, <4>1
    <3>2. CASE ~(b < 0)
      <4>1. b \in 0..(NumWindows - 1)
        BY <3>2
      <4> QED
        BY <1>4, <3>2, <4>1
    <3> QED
      BY <3>1, <3>2
  <2>2. F = [b \in -1..(NumWindows - 1) |-> F[b]]
    BY <1>4
  <2> QED
    BY <2>1, <2>2 DEF AddsUp
<1> QED
  BY <1>5

(* What a bucket adds to the sum of recent_sum in a minute.                 *)
Adds(c, minute) ==
  [b \in Bucket |-> IF Counts(window_minutes[c][b], minute) THEN windows[c][b] ELSE 0]

(* Sum is the last of the sums of what the buckets add.                     *)
LEMMA SumIs ==
  ASSUME IndInv, NEW c \in Counters, NEW minute
  PROVE  \E F : AddsUp(F, Adds(c, minute)) /\ Sum(c, minute) = F[NumWindows - 1]
<1> DEFINE counted == {b \in Bucket : Counts(window_minutes[c][b], minute)}
           W(F) == F = [b \in -1..(NumWindows - 1) |->
                     IF b < 0 THEN 0
                     ELSE F[b - 1] + IF b \in counted THEN windows[c][b] ELSE 0]
           first == CHOOSE F : W(F)
<1>1. Sum(c, minute) = first[NumWindows - 1]
  BY DEF Sum
<1>2. Adds(c, minute) \in [Bucket -> Nat]
  BY DEF Adds, IndInv, TypeInv
<1>3. ASSUME NEW b \in -1..(NumWindows - 1), ~(b < 0)
      PROVE  (IF b \in counted THEN windows[c][b] ELSE 0) = Adds(c, minute)[b]
  <2>1. b \in Bucket
    BY <1>3, Options DEF Bucket
  <2> QED
    BY <2>1 DEF Adds
<1>4. ASSUME NEW F PROVE W(F) <=> AddsUp(F, Adds(c, minute))
  <2>1. PICK w : w = Adds(c, minute)
    OBVIOUS
  <2>2. PICK v : v = [b \in -1..(NumWindows - 1) |-> IF b \in counted THEN windows[c][b] ELSE 0]
    OBVIOUS
  <2>3. \A b \in -1..(NumWindows - 1) : ~(b < 0) => v[b] = w[b]
    BY <1>3, <2>1, <2>2
  <2>4. W(F) <=> F = [b \in -1..(NumWindows - 1) |-> IF b < 0 THEN 0 ELSE F[b - 1] + v[b]]
    BY <2>2
  <2>5. [b \in -1..(NumWindows - 1) |-> IF b < 0 THEN 0 ELSE F[b - 1] + v[b]]
          = [b \in -1..(NumWindows - 1) |-> IF b < 0 THEN 0 ELSE F[b - 1] + w[b]]
    BY ONLY <2>3
  <2> HIDE DEF W
  <2> QED
    BY <2>1, <2>4, <2>5 DEF AddsUp
<1> HIDE DEF W
<1>5. \E F : W(F)
  BY <1>2, <1>4, Added
<1>6. W(first)
  BY <1>5
<1> QED
  BY <1>1, <1>4, <1>6

(* The failures that the sum in the present minute must show.               *)
Due(c) == {e \in events[c] : e.minute > racedAt[c] /\ e.minute > peak - NumWindows
                             /\ e.minute <= now}

(* The sums of recent_sum count them, bucket by bucket.                     *)
LEMMA SumCounts ==
  ASSUME IndInv, CallsOK, CountsOK, NEW c \in Counters
  PROVE  Sum(c, now) >= Cardinality(Due(c))
<1>1. PICK w : w = Adds(c, now)
  OBVIOUS
<1>2. PICK F : AddsUp(F, w) /\ Sum(c, now) = F[NumWindows - 1]
  BY <1>1, SumIs
<1>3. /\ w \in [Bucket -> Nat] /\ NumWindows \in Nat /\ NumWindows > 1
      /\ \A k \in Nat : k \in Bucket <=> k < NumWindows
  BY <1>1, Options DEF Adds, IndInv, TypeInv
<1>4. F[-1] = 0 /\ \A b \in 0..(NumWindows - 1) : F[b] = F[b - 1] + w[b]
  <2>1. \A b \in -1..(NumWindows - 1) : F[b] = IF b < 0 THEN 0 ELSE F[b - 1] + w[b]
    BY <1>2 DEF AddsUp
  <2> QED
    BY <1>3, <2>1
<1>5. /\ \A e \in Due(c) : e.bucket \in Nat /\ e.bucket < NumWindows
      /\ IsFiniteSet(Due(c)) /\ Due(c) \subseteq events[c]
  <2>1. Due(c) \subseteq events[c]
    BY DEF Due
  <2>2. IsFiniteSet(events[c])
    BY DEF IndInv, EventsOK
  <2>3. \A e \in Due(c) : e.bucket \in Nat /\ e.bucket < NumWindows
    BY <2>1, CounterFacts
  <2> QED
    BY <2>1, <2>2, <2>3, FS_Subset
<1> DEFINE Under(k) == {e \in Due(c) : e.bucket < k}
           In(k) == {e \in Due(c) : e.bucket = k}
<1>6. ASSUME NEW b \in Bucket PROVE Cardinality(In(b)) <= w[b]
  <2>1. PICK S : S = In(b)
    OBVIOUS
  <2>2. IsFiniteSet(S) /\ Cardinality(S) \in Nat
    BY <1>5, <2>1, FS_Subset, FS_CardinalityType
  <2>3. CASE S = {}
    <3>1. Cardinality(S) = 0 /\ w[b] \in Nat
      BY <1>3, <2>3, FS_EmptySet
    <3> QED
      BY <2>1, <3>1
  <2>4. ASSUME NEW e \in S PROVE Cardinality(S) <= w[b]
    <3>1. /\ \A x \in S : x \in events[c] /\ x.minute > racedAt[c] /\ x.minute > peak - NumWindows
                          /\ x.minute <= now /\ x.bucket = b
          /\ last_minute[c] \in Nat /\ last_minute[c] <= peak /\ peak \in Nat /\ now \in Nat
          /\ now <= peak /\ racedAt[c] \in Nat
          /\ \A x \in S : x.minute \in Nat
      <4>1. \A x \in S : x \in events[c]
        BY <1>5, <2>1
      <4> QED
        BY <2>1, <4>1, CounterFacts DEF Due
    <3>2. S \subseteq InBucket(c, b)
      BY <1>3, <3>1 DEF InBucket, Recent, Kept
    <3>3. KeptOK(c) /\ DisturbedOK(c)
      BY DEF CountsOK
    <3>4. PICK T : T = InBucket(c, b)
      OBVIOUS
    <3>5. IsFiniteSet(T) /\ S \subseteq T
      <4>1. T \subseteq Recent(c)
        BY <3>4 DEF InBucket
      <4> QED
        BY <3>2, <3>3, <3>4, <4>1, CleanIs, FS_Subset
    <3>6. Cardinality(S) <= Cardinality(T) /\ Cardinality(T) \in Nat
      BY <3>5, FS_Subset, FS_CardinalityType
    <3>7. Cardinality(T) <= windows[c][b] /\ windows[c][b] \in Nat
      BY <3>3, <3>4, CounterFacts DEF KeptOK
    <3>8. window_minutes[c][b] = e.minute
      BY <2>4, <3>1, <3>2, <3>3 DEF KeptOK, InBucket
    <3>9. Counts(e.minute, now)
      <4>1. e.minute \in Nat /\ e.minute > racedAt[c] /\ e.minute > peak - NumWindows
            /\ e.minute <= now
        BY <2>4, <3>1
      <4> QED
        BY <1>3, <3>1, <4>1 DEF Counts
    <3>10. w[b] = windows[c][b]
      BY <1>1, <3>8, <3>9 DEF Adds
    <3> QED
      BY <2>2, <3>6, <3>7, <3>10
  <2> QED
    BY <2>1, <2>3, <2>4
<1> DEFINE P(k) == F[k - 1] \in Nat /\ Cardinality(Under(k)) <= F[k - 1]
           S == {k \in Nat : k <= NumWindows => P(k)}
<1>7. 0 \in S
  <2>1. Under(0) = {}
    BY <1>5
  <2>2. Cardinality(Under(0)) = 0
    BY <2>1, FS_EmptySet
  <2>3. P(0)
    BY <1>4, <2>2
  <2> QED
    BY <2>3
<1>8. ASSUME NEW k \in Nat, k \in S PROVE k + 1 \in S
  <2> HIDE DEF P
  <2> SUFFICES ASSUME k + 1 <= NumWindows PROVE P(k + 1)
    BY <1>8
  <2>1. P(k) /\ k \in Bucket /\ k \in 0..(NumWindows - 1)
    BY <1>3, <1>8
  <2>2. PICK A, B : A = Under(k) /\ B = In(k)
    OBVIOUS
  <2>3. Under(k + 1) = A \cup B
    BY <1>5, <2>2
  <2>4. A \cap B = {}
    BY <1>5, <2>2
  <2>5. IsFiniteSet(A) /\ IsFiniteSet(B) /\ Cardinality(A) \in Nat /\ Cardinality(B) \in Nat
    BY <1>5, <2>2, FS_Subset, FS_CardinalityType
  <2>6. Cardinality(A \cup B) = Cardinality(A) + Cardinality(B)
    <3>1. Cardinality(A \cap B) = 0
      BY <2>4, FS_EmptySet
    <3>2. Cardinality(A \cup B) = Cardinality(A) + Cardinality(B) - Cardinality(A \cap B)
      BY <2>5, FS_Union
    <3> QED
      BY <2>5, <3>1, <3>2
  <2>7. Cardinality(B) <= w[k] /\ w[k] \in Nat
    BY <1>3, <1>6, <2>1, <2>2
  <2>8. F[k - 1] \in Nat /\ Cardinality(A) <= F[k - 1]
    BY <2>1, <2>2 DEF P
  <2>9. F[k] = F[k - 1] + w[k] /\ (k + 1) - 1 = k
    BY <1>4, <2>1
  <2>10. Cardinality(Under(k + 1)) = Cardinality(A) + Cardinality(B)
    BY <2>3, <2>6
  <2>11. F[(k + 1) - 1] \in Nat /\ Cardinality(Under(k + 1)) <= F[(k + 1) - 1]
    <3> HIDE DEF Under, In
    <3> QED
      BY <2>5, <2>7, <2>8, <2>9, <2>10
  <2> QED
    BY <2>11 DEF P
<1> HIDE DEF S, P
<1>9. P(NumWindows)
  <2>1. Nat \subseteq S
    BY ONLY <1>7, <1>8, Inductive
  <2> QED
    BY <1>3, <2>1 DEF S
<1>10. Under(NumWindows) = Due(c)
  BY <1>5
<1>11. Cardinality(Due(c)) \in Nat
  BY <1>5, FS_CardinalityType
<1> QED
  BY <1>2, <1>9, <1>10, <1>11 DEF P

(* So the sums show what the properties ask for.                            *)
LEMMA CountsShow == IndInv /\ CountInv => CountsAfterRace
<1> SUFFICES ASSUME IndInv, CountInv, NEW c \in Counters
             PROVE  Sum(c, now) >= Cardinality({e \in events[c] :
                      e.minute > racedAt[c] /\ e.minute > peak - NumWindows /\ e.minute <= now})
  BY DEF CountsAfterRace
<1> QED
  BY SumCounts DEF Due, CountInv

(* A sum above zero makes a reply that is not ok and has a reason.          *)
LEMMA ReplyTells ==
  ASSUME NEW s \in [Counters -> Nat], NEW f \in [Counters -> Nat], NEW c \in Counters,
         s[c] > 0, f[c] > 0
  PROVE  /\ Status(s) # "ok" /\ Reason(f) # "none"
         /\ c \in {"checkpoint", "gzip_archive"} => Status(s) = "unhealthy"
<1>1. c \in {"segment", "line", "gzip_read", "checkpoint", "gzip_archive", "recovery"}
  BY HealthAssumption DEF SnapshotOrder
<1>2. Of(s, c) > 0 /\ Of(f, c) > 0
  BY DEF Of
<1>3. c \in {"checkpoint", "gzip_archive"} => Status(s) = "unhealthy"
  BY <1>2 DEF Status
<1>4. c \notin {"checkpoint", "gzip_archive"} => Status(s) # "ok"
  <2>1. c \notin {"checkpoint", "gzip_archive"}
          => \E d \in {"segment", "line", "gzip_read", "recovery"} : Of(s, d) > 0
    BY <1>1, <1>2
  <2> QED
    BY <2>1 DEF Status
<1>5. Reason(f) # "none"
  <2>1. PICK hits : hits = {i \in DOMAIN ReasonOrder : Of(f, ReasonOrder[i]) > 0}
    OBVIOUS
  <2>2. DOMAIN ReasonOrder = 1..6
        /\ ReasonOrder[1] = "checkpoint" /\ ReasonOrder[2] = "gzip_archive"
        /\ ReasonOrder[3] = "recovery" /\ ReasonOrder[4] = "gzip_read"
        /\ ReasonOrder[5] = "segment" /\ ReasonOrder[6] = "line"
    BY DEF ReasonOrder
  <2>3. \E i \in 1..6 : ReasonOrder[i] = c
    BY <1>1, <2>2
  <2>4. hits # {} /\ hits \subseteq Nat /\ hits \subseteq 1..6
    BY <1>2, <2>1, <2>2, <2>3
  <2>5. \E i \in hits : \A j \in hits : i <= j
    BY <2>4, Least
  <2>6. PICK i \in hits : i = CHOOSE x \in hits : \A j \in hits : x <= j
    BY <2>5
  <2>7. Reason(f) = ReasonOrder[i]
    BY <2>1, <2>4, <2>6 DEF Reason
  <2>8. \A x \in 1..6 : ReasonOrder[x] # "none"
    BY <2>2
  <2> QED
    BY <2>4, <2>7, <2>8
<1> QED
  BY <1>1, <1>3, <1>4, <1>5

(* and what a reply shows is never less than what it owes.                  *)
LEMMA RepliesShow == IndInv /\ CountInv => FailureShows
<1> SUFFICES ASSUME IndInv, CountInv, reply.at = "done", NEW c \in Counters,
                    NEW e \in reply.known[c], e.minute > racedAt[c],
                    e.minute > peak - NumWindows, e.minute <= reply.oldest
             PROVE  /\ Status(reply.recent) # "ok" /\ Reason(reply.first) # "none"
                    /\ c \in {"checkpoint", "gzip_archive"} => Status(reply.recent) = "unhealthy"
  BY DEF FailureShows
<1>1. Shows(reply) /\ Owed(reply, c, e)
  BY DEF CountInv, ShownOK, Owed
<1>2. reply.recent[c] > 0 /\ reply.first[c] > 0
  BY <1>1 DEF Shows, Fully
<1>3. reply.recent \in [Counters -> Nat] /\ reply.first \in [Counters -> Nat]
  BY DEF IndInv, TypeInv
<1> QED
  BY <1>2, <1>3, ReplyTells

-----------------------------------------------------------------------------
(* Every state satisfies the second invariant.                              *)
THEOREM CountInvariance == Spec => []CountInv
<1>1. Init /\ IndInv => CountInv
  <2> SUFFICES ASSUME Init, IndInv PROVE CountInv
    OBVIOUS
  <2>1. ShownOK
    BY DEF Init, NoReply, ShownOK, Shows
  <2> QED
    BY <2>1, CountsStart DEF CountInv
<1>2. IndInv /\ IndInv' /\ CountInv /\ [Next]_vars => CountInv'
  <2> SUFFICES ASSUME IndInv, IndInv', CountInv, [Next]_vars PROVE CountInv'
    OBVIOUS
  <2>1. CASE UNCHANGED vars
    <3>1. CallsOK' /\ ShownOK'
      BY <2>1 DEF vars, countVars, CountInv, CallsOK, ShownOK, Shows, Fully, Partly, Owed
    <3>2. CountsOK'
      <4>1. ASSUME NEW c \in Counters
            PROVE  DisturbedOK(c)' /\ FreshOK(c)' /\ RotatingOK(c)' /\ KeptOK(c)'
        <5>1. Untouched(c) /\ Busy(c)' = Busy(c) /\ thread' = thread
          BY <2>1 DEF vars, countVars, Untouched, Busy
        <5> QED
          BY <5>1, CounterStays DEF CountInv, CountsOK
      <4> QED
        BY <4>1 DEF CountsOK
    <3> QED
      BY <3>1, <3>2 DEF CountInv
  <2>2. CASE Next
    <3>1. CallsOK'
      <4>1. CASE ReplyStep \/ Clock
        BY <4>1, CallsElse DEF CountInv
      <4>2. ASSUME NEW t \in Threads, ThreadStep(t) \/ \E c \in Counters : Call(t, c)
            PROVE  CallsOK'
        BY <4>2, CallsThread DEF ThreadStep, Call, CountInv
      <4> QED
        BY <2>2, <4>1, <4>2 DEF Next
    <3>2. CountsOK'
      BY <2>2, <3>1, CountsStep DEF CountInv
    <3>3. ShownOK'
      BY <2>2, <3>1, ReplyShows, ElseShows DEF CountInv, Next
    <3> QED
      BY <3>1, <3>2, <3>3 DEF CountInv
  <2> QED
    BY <2>1, <2>2
<1> QED
  BY <1>1, <1>2, Invariance, PTL DEF Spec

(* A disturbed rotation costs at most the counts of the minutes up to it:   *)
(* what record_for_minute counts later is in recent_sum, in full, for       *)
(* kNumWindows minutes, for any number of threads and buckets and any clock.*)
THEOREM CountsReturn == Spec => []CountsAfterRace
BY Invariance, CountInvariance, CountsShow, PTL

(* A failure that was recorded before the request, is still in the window   *)
(* when the reply is made and was not lost to a disturbed rotation shows in *)
(* the status and in the reason of the reply (compute_health_status,        *)
(* compute_health_reason), and one of a checkpoint or archive makes it      *)
(* unhealthy.                                                               *)
THEOREM FailuresShow == Spec => []FailureShows
BY Invariance, CountInvariance, RepliesShow, PTL
=============================================================================
