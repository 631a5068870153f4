------------------------------- MODULE Health -------------------------------
(***************************************************************************)
(* The failure counters behind the health status (health_monitor.cc) and   *)
(* the status replies made from them (query_server.cc, agent.cc).          *)
(*                                                                         *)
(* A SlidingWindowCounter is a ring of one-minute buckets that reactor     *)
(* threads and gRPC threads share without a lock.  An action is one atomic *)
(* operation of record() or of recent_sum(), in the order of the source    *)
(* (the accesses are relaxed; the compiled code keeps this order on x86).  *)
(* The clock is the system clock, which may also step back.                *)
(***************************************************************************)
EXTENDS Integers, FiniteSets

CONSTANTS
  Threads,       \* threads that record failures
  Counters,      \* the counters of the run
  NumWindows,    \* kNumWindows
  Few,           \* the threshold 3 of compute_health_status
  Many,          \* the threshold 10 of compute_health_status
  MaxMinute,     \* bound: minutes
  MaxCalls,      \* bound: calls of record and status requests together
  MaxBackSteps   \* bound: times the clock steps back

(* In the order in which collect_health_snapshot reads them.               *)
SnapshotOrder == <<"segment", "line", "gzip_read", "checkpoint", "gzip_archive", "recovery">>

ASSUME HealthAssumption ==
  /\ IsFiniteSet(Threads)
  /\ Counters \subseteq {SnapshotOrder[i] : i \in DOMAIN SnapshotOrder}
  /\ Counters # {}
  /\ NumWindows \in Nat \ {0, 1}
  /\ {Few, Many, MaxMinute, MaxCalls, MaxBackSteps} \subseteq Nat

Bucket == 0..(NumWindows - 1)
Minute == 0..MaxMinute        \* 0 is no minute: the clock starts at 1

VARIABLES
  now,              \* current_wall_clock_minute
  windows,          \* _windows of each counter
  window_minutes,   \* _window_minutes
  last_minute,      \* _last_minute
  current_bucket,   \* _current_bucket
  lifetime,         \* _lifetime
  thread,           \* where each recording thread is, with its local variables
  reply,            \* the status request being answered, with its local variables
  \* History, for the properties and the bounds only
  peak,             \* the latest minute the clock has shown
  events,           \* what was counted, per counter: minute of the call, peak and bucket
                    \* at the count
  racedAt,          \* the last minute in which a rotation was disturbed, per counter
  calls, backSteps

countVars == <<windows, window_minutes, last_minute, current_bucket, lifetime>>
vars == <<now, countVars, thread, reply, peak, events, racedAt, calls, backSteps>>

Zero == [c \in Counters |-> 0]
Idle == [at |-> "idle", counter |-> "none", minute |-> 0, last |-> 0, next |-> 0]
NoReply == [at |-> "idle", api |-> "http", minute |-> Zero, todo |-> {}, bucket |-> 0,
            recent |-> Zero, first |-> Zero, known |-> [c \in Counters |-> {}], oldest |-> 0]

Busy(c) == {t \in Threads : thread[t].counter = c}
Rotating(c) == {t \in Busy(c) : thread[t].at \in {"bucket", "store", "clear", "label"}}

-----------------------------------------------------------------------------
(* record, record_for_minute and rotate_current_bucket: the steps of a     *)
(* thread.  A step changes the thread and at most one shared variable.     *)

At(t, where) == thread[t].at = where
Move(t, values) == thread' = [thread EXCEPT ![t] = values]

Record(t, c) ==
  /\ At(t, "idle")
  /\ calls < MaxCalls
  /\ calls' = calls + 1
  /\ Move(t, [Idle EXCEPT !.at = "load", !.counter = c, !.minute = now])
  /\ UNCHANGED <<countVars, events>>

LoadLast(t) ==
  LET last == last_minute[thread[t].counter] IN
  /\ At(t, "load")
  /\ Move(t, [thread[t] EXCEPT !.last = last,
                               !.at = IF last = thread[t].minute THEN "index" ELSE "exchange"])
  /\ UNCHANGED <<countVars, events>>

(* compare_exchange_weak; a failure starts the loop again.                 *)
Exchange(t) ==
  LET c == thread[t].counter IN
  /\ At(t, "exchange")
  /\ IF last_minute[c] = thread[t].last
       THEN /\ last_minute' = [last_minute EXCEPT ![c] = thread[t].minute]
            /\ Move(t, [thread[t] EXCEPT !.at = "bucket"])
       ELSE /\ Move(t, [thread[t] EXCEPT !.at = "load"])
            /\ UNCHANGED last_minute
  /\ UNCHANGED <<windows, window_minutes, current_bucket, lifetime, events>>

(* Mutant of NextBucket: a new minute takes over the bucket in use.        *)
NextBucketSame(bucket, last, minute) ==
  IF last = 0 \/ minute <= last \/ minute - last >= NumWindows
    THEN minute % NumWindows
    ELSE bucket

NextBucket(bucket, last, minute) ==
  IF last = 0 \/ minute <= last \/ minute - last >= NumWindows
    THEN minute % NumWindows
    ELSE (bucket + (minute - last)) % NumWindows

LoadBucket(t) ==
  LET me == thread[t] IN
  /\ At(t, "bucket")
  /\ Move(t, [me EXCEPT !.next = NextBucket(current_bucket[me.counter], me.last, me.minute),
                        !.at = "store"])
  /\ UNCHANGED <<countVars, events>>

StoreBucket(t) ==
  /\ At(t, "store")
  /\ current_bucket' = [current_bucket EXCEPT ![thread[t].counter] = thread[t].next]
  /\ Move(t, [thread[t] EXCEPT !.at = "clear"])
  /\ UNCHANGED <<windows, window_minutes, last_minute, lifetime, events>>

(* Mutant of ClearBucket: the bucket keeps what it counted before.         *)
ClearBucketForgotten(t) ==
  /\ At(t, "clear")
  /\ Move(t, [thread[t] EXCEPT !.at = "label"])
  /\ UNCHANGED <<countVars, events>>

ClearBucket(t) ==
  /\ At(t, "clear")
  /\ windows' = [windows EXCEPT ![thread[t].counter][thread[t].next] = 0]
  /\ Move(t, [thread[t] EXCEPT !.at = "label"])
  /\ UNCHANGED <<window_minutes, last_minute, current_bucket, lifetime, events>>

LabelBucket(t) ==
  /\ At(t, "label")
  /\ window_minutes' = [window_minutes EXCEPT ![thread[t].counter][thread[t].next] = thread[t].minute]
  /\ Move(t, [thread[t] EXCEPT !.at = "index"])
  /\ UNCHANGED <<windows, last_minute, current_bucket, lifetime, events>>

LoadIndex(t) ==
  /\ At(t, "index")
  /\ Move(t, [thread[t] EXCEPT !.next = current_bucket[thread[t].counter], !.at = "add"])
  /\ UNCHANGED <<countVars, events>>

AddRecent(t) ==
  LET c == thread[t].counter IN
  /\ At(t, "add")
  /\ windows' = [windows EXCEPT ![c][thread[t].next] = @ + 1]
  /\ events' = [events EXCEPT ![c] = @ \cup
       {[id |-> Cardinality(@), minute |-> thread[t].minute, seen |-> peak,
         bucket |-> thread[t].next]}]
  /\ Move(t, [thread[t] EXCEPT !.at = "total"])
  /\ UNCHANGED <<window_minutes, last_minute, current_bucket, lifetime>>

AddLifetime(t) ==
  /\ At(t, "total")
  /\ lifetime' = [lifetime EXCEPT ![thread[t].counter] = @ + 1]
  /\ Move(t, Idle)
  /\ UNCHANGED <<windows, window_minutes, last_minute, current_bucket, events>>

(* The steps of a record() call under way.                                 *)
Continue(t) ==
  \/ LoadLast(t) \/ Exchange(t) \/ LoadBucket(t) \/ StoreBucket(t) \/ ClearBucket(t)
  \/ LabelBucket(t) \/ LoadIndex(t) \/ AddRecent(t) \/ AddLifetime(t)

(* A rotation is disturbed when other work on the counter overlaps it, or  *)
(* when it goes back to an earlier minute.                                 *)
Disturbed(c) ==
  \/ Rotating(c) # {} /\ Cardinality(Busy(c)) > 1
  \/ \E t \in Rotating(c) : thread[t].minute < thread[t].last

Noted == racedAt' = [c \in Counters |-> IF Disturbed(c)' THEN peak ELSE racedAt[c]]

ThreadStep(t) ==
  /\ Continue(t)
  /\ Noted
  /\ UNCHANGED <<now, peak, reply, calls, backSteps>>

Call(t, c) ==
  /\ Record(t, c)
  /\ Noted
  /\ UNCHANGED <<now, peak, reply, backSteps>>

-----------------------------------------------------------------------------
(* Status replies: collect_health_snapshot and recent_sum.                 *)

First(S) == SnapshotOrder[CHOOSE i \in DOMAIN SnapshotOrder :
              SnapshotOrder[i] \in S /\ \A j \in 1..(i - 1) : SnapshotOrder[j] \notin S]

Request(api) ==
  /\ reply.at = "idle"
  /\ calls < MaxCalls
  /\ calls' = calls + 1
  /\ reply' = [NoReply EXCEPT !.at = "counter", !.api = api, !.todo = Counters,
                              !.known = events, !.oldest = now]

(* recent_sum of the next counter looks at the clock.                      *)
SumCounter ==
  /\ reply.at = "counter"
  /\ reply' = [reply EXCEPT !.at = "minute", !.bucket = 0,
                            !.minute[First(reply.todo)] = now, !.recent[First(reply.todo)] = 0,
                            !.oldest = IF now < @ THEN now ELSE @]
  /\ UNCHANGED calls

(* The next bucket, the next counter, the second snapshot of a gRPC reply  *)
(* (fill_status: the reason is from the first, the health from another     *)
(* one), or the reply.                                                     *)
Further(r) ==
  IF r.bucket < NumWindows - 1 THEN [r EXCEPT !.at = "minute", !.bucket = @ + 1]
  ELSE LET rest == r.todo \ {First(r.todo)} IN
       IF rest # {} THEN [r EXCEPT !.at = "counter", !.todo = rest]
       ELSE IF r.api = "grpc" THEN [r EXCEPT !.at = "counter", !.todo = Counters,
                                             !.api = "grpc2", !.first = r.recent]
       ELSE [r EXCEPT !.at = "done", !.todo = {},
                      !.first = IF r.api = "http" THEN r.recent ELSE @]

Counts(label, minute) ==
  label # 0 /\ label <= minute /\ minute - label < NumWindows

ReadMinute ==
  LET c == First(reply.todo) IN
  /\ reply.at = "minute"
  /\ reply' = IF Counts(window_minutes[c][reply.bucket], reply.minute[c])
                THEN [reply EXCEPT !.at = "window"]
                ELSE Further(reply)
  /\ UNCHANGED calls

ReadWindow ==
  LET c == First(reply.todo) IN
  /\ reply.at = "window"
  /\ reply' = Further([reply EXCEPT !.recent[c] = @ + windows[c][reply.bucket]])
  /\ UNCHANGED calls

Answered ==
  /\ reply.at = "done"
  /\ reply' = NoReply
  /\ UNCHANGED calls

ReplyStep ==
  /\ \/ \E api \in {"http", "grpc"} : Request(api)
     \/ SumCounter \/ ReadMinute \/ ReadWindow \/ Answered
  /\ UNCHANGED <<now, countVars, thread, peak, events, racedAt, backSteps>>

Of(s, c) == IF c \in Counters THEN s[c] ELSE 0

(* Mutant of Status: an archive failure counts like a reader's error.      *)
StatusWithoutArchive(s) ==
  IF Of(s, "checkpoint") > 0
     \/ Of(s, "recovery") > Few \/ Of(s, "gzip_read") > Few
     \/ Of(s, "segment") > Many \/ Of(s, "line") > Many
    THEN "unhealthy"
  ELSE IF \E c \in Counters : s[c] > 0 THEN "degraded" ELSE "ok"

(* compute_health_status                                                   *)
Status(s) ==
  IF Of(s, "checkpoint") > 0 \/ Of(s, "gzip_archive") > 0
     \/ Of(s, "recovery") > Few \/ Of(s, "gzip_read") > Few
     \/ Of(s, "segment") > Many \/ Of(s, "line") > Many
    THEN "unhealthy"
  ELSE IF \E c \in {"segment", "line", "gzip_read", "recovery"} : Of(s, c) > 0
    THEN "degraded" ELSE "ok"

ReasonOrder == <<"checkpoint", "gzip_archive", "recovery", "gzip_read", "segment", "line">>

(* compute_health_reason                                                   *)
Reason(s) ==
  LET hits == {i \in DOMAIN ReasonOrder : Of(s, ReasonOrder[i]) > 0} IN
  IF hits = {} THEN "none"
  ELSE ReasonOrder[CHOOSE i \in hits : \A j \in hits : i <= j]

-----------------------------------------------------------------------------
(* The clock.                                                              *)

Tick ==
  /\ now < MaxMinute
  /\ now' = now + 1
  /\ peak' = IF now' > peak THEN now' ELSE peak
  /\ UNCHANGED backSteps

StepBack ==
  /\ backSteps < MaxBackSteps
  /\ now > 1
  /\ now' = now - 1
  /\ backSteps' = backSteps + 1
  /\ UNCHANGED peak

Clock ==
  /\ Tick \/ StepBack
  /\ UNCHANGED <<countVars, thread, reply, events, racedAt, calls>>

Init ==
  /\ now = 1 /\ peak = 1
  /\ windows = [c \in Counters |-> [b \in Bucket |-> 0]]
  /\ window_minutes = [c \in Counters |-> [b \in Bucket |-> 0]]
  /\ last_minute = Zero /\ current_bucket = Zero /\ lifetime = Zero
  /\ thread = [t \in Threads |-> Idle]
  /\ reply = NoReply
  /\ events = [c \in Counters |-> {}]
  /\ racedAt = Zero
  /\ calls = 0 /\ backSteps = 0

Next ==
  \/ \E t \in Threads : ThreadStep(t) \/ \E c \in Counters : Call(t, c)
  \/ ReplyStep \/ Clock

Spec == Init /\ [][Next]_vars

-----------------------------------------------------------------------------
(* Type correctness.                                                       *)
TypeOK ==
  /\ now \in 1..MaxMinute /\ peak \in now..MaxMinute
  /\ windows \in [Counters -> [Bucket -> 0..MaxCalls]]
  /\ window_minutes \in [Counters -> [Bucket -> Minute]]
  /\ last_minute \in [Counters -> Minute]
  /\ current_bucket \in [Counters -> Bucket]
  /\ lifetime \in [Counters -> 0..MaxCalls]
  /\ \A t \in Threads : thread[t].minute \in Minute /\ thread[t].next \in Bucket
  /\ reply.at \in {"idle", "counter", "minute", "window", "done"}
  /\ reply.bucket \in Bucket /\ reply.todo \subseteq Counters
  /\ racedAt \in [Counters -> Minute]

(* A failure drops out of the recent sum: whatever the interleaving, and   *)
(* also while it is being read, recent_sum never counts more than what was *)
(* counted in the last kNumWindows minutes of the clock.                   *)
ForgetsExpired ==
  reply.at \in {"minute", "window", "done"} =>
    \A c \in Counters : reply.recent[c] <=
      Cardinality({e \in events[c] : e.seen > reply.minute[c] - NumWindows})

Sum(c, minute) ==
  LET counted == {b \in Bucket : Counts(window_minutes[c][b], minute)}
      upto[b \in -1..(NumWindows - 1)] ==
        IF b < 0 THEN 0 ELSE upto[b - 1] + IF b \in counted THEN windows[c][b] ELSE 0
  IN upto[NumWindows - 1]

(* A disturbed rotation costs at most the counts of the minutes up to it:  *)
(* what is recorded later is counted again, in full, for kNumWindows       *)
(* minutes, also while other calls are under way (record_for_minute        *)
(* against recent_sum_for_minute).                                         *)
CountsAfterRace ==
  \A c \in Counters :
    Sum(c, now) >= Cardinality({e \in events[c] :
      e.minute > racedAt[c] /\ e.minute > peak - NumWindows /\ e.minute <= now})

(* A failure whose recording had ended when the request came, and that is  *)
(* still in the window when the reply is made, shows in the reply:         *)
(* "`ok` | No recent errors in the last 5-minute window", unless a         *)
(* disturbed rotation lost it; a checkpoint or archive failure makes it    *)
(* unhealthy.                                                              *)
FailureShows ==
  reply.at = "done" =>
    \A c \in Counters :
      (\E e \in reply.known[c] :
         e.minute > racedAt[c] /\ e.minute > peak - NumWindows /\ e.minute <= reply.oldest)
      => /\ Status(reply.recent) # "ok"
         /\ Reason(reply.first) # "none"
         /\ c \in {"checkpoint", "gzip_archive"} => Status(reply.recent) = "unhealthy"

=============================================================================
