------------------------------ MODULE Archive ------------------------------
(***************************************************************************)
(* The files of one shard as the engine leaves them: the active log, the   *)
(* archived segments and their compressed twins (log_manager.cc,           *)
(* log_layout.cc).  The engine is one process and a query may look at the  *)
(* directories between any two of its steps; it may die at each of them    *)
(* and start again.  How records get into the active log is module         *)
(* AsyncWriter's; here a record appears in two steps, the first of which   *)
(* may leave a piece of the line at the end of the file.                   *)
(*                                                                         *)
(* A line in a file carries the number of its record in the order of       *)
(* writing, for the properties; the code sees the line.                    *)
(***************************************************************************)
EXTENDS Codec, FiniteSets

CONSTANTS
  Configs,        \* record options, compress_archives and archive_retention_seconds (0: none)
  MaxArchived,    \* max_archived_files_per_shard
  FirstIndex,     \* the rotation index the shard has got to before
  Payload,        \* the payload of each record
  TickSeconds,    \* the seconds between two ticks of the clock
  MaxTime,        \* bound: ticks of the clock
  MaxRotations,   \* bound: rotations
  MaxCrashes      \* bound: crashes

ASSUME ArchiveAssumption ==
  /\ Configs \subseteq [codec : CodecConfig, compress : BOOLEAN, retention : Nat]
  /\ MaxArchived \in Nat \ {0}
  /\ {FirstIndex, TickSeconds, MaxTime, MaxRotations, MaxCrashes} \subseteq Nat
  /\ Payload \in Seq(Seq(Piece) \ {<<>>})

Records == DOMAIN Payload
None == [present |-> FALSE, lines |-> <<>>, intact |-> TRUE, mtime |-> 0]
File(lines, now) == [present |-> TRUE, lines |-> lines, intact |-> TRUE, mtime |-> now]

VARIABLES
  config,      \* the options
  active,      \* the active log
  plain,       \* the archived segments by timestamp_ms and rotation_index
  gz,          \* their compressed twins
  engine,      \* where the engine is, the name it rotates to, what cleanup has yet to remove
  sequence,    \* the next sequence number
  rotation,    \* rotation_index
  clock,       \* system_clock in milliseconds
  \* History, for the properties and the bounds only
  written,     \* how many records were begun
  finished,    \* the records whose lines were whole in the active log
  expired,     \* records of segments that the cleanup removed
  cut,         \* records that recovery cut off although their lines are whole
  crashes, rotations

diskVars == <<active, plain, gz>>
archiveVars == <<config, diskVars, engine, sequence, rotation, clock, written, finished, expired, cut,
                 crashes, rotations>>

Name == (0..MaxTime) \X (0..(FirstIndex + MaxRotations))
Named == {n \in Name : plain[n].present \/ gz[n].present}
Lines(file) == [i \in DOMAIN file.lines |-> file.lines[i].line]
Ids(file) == {file.lines[i].id : i \in {j \in DOMAIN file.lines : file.lines[j].whole}}

-----------------------------------------------------------------------------
(* A record on its way into the active log.                                *)

RecordOf(id) == [ts |-> id, shard |-> 0, seq |-> sequence, level |-> id % 3, payload |-> Payload[id]]
Entry(id) == [id |-> id, seq |-> sequence, line |-> Encode(config.codec, RecordOf(id)), whole |-> TRUE]

(* The pieces a reader or a crash may find of a line: nothing but the      *)
(* beginning of its checksum, some of its fields with the last of them cut *)
(* short, or the zeros that fill the last block of the file.               *)
Fragments(line) ==
  LET upto(n) == SubSeq(line.body, 1, n) IN
  {[prefix |-> NoPrefix, body |-> <<Field("", <<w>>, NaN)>>] : w \in {"cr", "NUL"}}
  \cup {[prefix |-> [p EXCEPT !.class = "malformed"], body |-> <<>>] :
          p \in {line.prefix} \ {NoPrefix}}
  \cup {[line EXCEPT !.body = Append(upto(n - 1), [line.body[n] EXCEPT
           !.text = IF @ = <<>> THEN @ ELSE SubSeq(@, 1, Len(@) - 1),
           !.num  = IF @ = NaN THEN @ ELSE @ \div 10])] : n \in 1..Len(line.body)}

WriteBegins ==
  LET id == written + 1 IN
  /\ engine.at = "idle" /\ id \in Records
  /\ \E piece \in Fragments(Entry(id).line) :
       active' = File(Append(active.lines, [Entry(id) EXCEPT !.line = piece, !.whole = FALSE]), clock)
  /\ engine' = [engine EXCEPT !.at = "writing"]
  /\ written' = id
  /\ UNCHANGED <<config, plain, gz, sequence, rotation, clock, finished, expired, cut, crashes, rotations>>

WriteEnds ==
  /\ engine.at = "writing"
  /\ active' = File(Append(SubSeq(active.lines, 1, Len(active.lines) - 1), Entry(written)), clock)
  /\ engine' = [engine EXCEPT !.at = "idle"]
  /\ sequence' = sequence + 1
  /\ finished' = finished \cup {written}
  /\ UNCHANGED <<config, plain, gz, rotation, clock, written, expired, cut, crashes, rotations>>

-----------------------------------------------------------------------------
(* log_layout.cc: what a listing of the archive directory gives.           *)

Before(m, n) == m[1] < n[1] \/ (m[1] = n[1] /\ m[2] < n[2])

(* Mutant of Sorted: rotation_index before timestamp_ms.                   *)
SortedByIndex(names) ==
  LET before(m, n) == m[2] < n[2] \/ (m[2] = n[2] /\ m[1] < n[1])
  IN  CHOOSE s \in [1..Cardinality(names) -> names] :
        \A i, j \in 1..Cardinality(names) : i < j => before(s[i], s[j])

(* sort_segments                                                           *)
Sorted(names) ==
  CHOOSE s \in [1..Cardinality(names) -> names] :
    \A i, j \in 1..Cardinality(names) : i < j => Before(s[i], s[j])

(* collect_archive_segments: one segment per name, the plain one when      *)
(* there are two.                                                          *)
Zipped(n) == ~plain[n].present

ArchiveSegments ==
  LET names == Sorted(Named)
  IN  [i \in DOMAIN names |-> [archived |-> TRUE, name |-> names[i], gz |-> Zipped(names[i])]]

-----------------------------------------------------------------------------
(* rotate_active_file and gzip_file.                                       *)

At(where) == engine.at = where
Go(where) == engine' = [engine EXCEPT !.at = where]

RotateRename ==
  LET name == <<clock, rotation>> IN
  /\ At("idle") /\ active.lines # <<>>
  /\ rotations < MaxRotations
  /\ rotations' = rotations + 1
  /\ plain' = [plain EXCEPT ![name] = active]
  /\ active' = None
  /\ engine' = [engine EXCEPT !.at = IF config.compress THEN "gzip" ELSE "cleanup", !.name = name]
  /\ UNCHANGED <<config, gz, sequence, rotation, clock, written, finished, expired, cut, crashes>>

(* Mutant of GzipRename: the plain file goes before its twin is there.     *)
GzipRenameLate ==
  /\ At("gzip")
  /\ plain' = [plain EXCEPT ![engine.name] = None]
  /\ Go("remove")
  /\ UNCHANGED <<config, active, gz, sequence, rotation, clock, written, finished, expired, cut, crashes,
                 rotations>>

(* The twin is written to a temporary file and renamed.                    *)
GzipRename ==
  /\ At("gzip")
  /\ gz' = [gz EXCEPT ![engine.name] = File(plain[engine.name].lines, clock)]
  /\ Go("remove")
  /\ UNCHANGED <<config, active, plain, sequence, rotation, clock, written, finished, expired, cut, crashes,
                 rotations>>

GzipRemove ==
  /\ At("remove")
  /\ plain' = [plain EXCEPT ![engine.name] = None]
  /\ Go("cleanup")
  /\ UNCHANGED <<config, active, gz, sequence, rotation, clock, written, finished, expired, cut, crashes,
                 rotations>>

(* cleanup_archives: the segments that were not written to for too long,   *)
(* then those over the count.                                              *)
WrittenLast(n) == (IF Zipped(n) THEN gz ELSE plain)[n].mtime

Aged ==
  {n \in Named : config.retention > 0 /\ (clock - WrittenLast(n)) * TickSeconds > config.retention}

(* Mutant of Excess: the oldest segments are kept.                         *)
ExcessNewest(names) ==
  {n \in names : Cardinality({m \in names : Before(m, n)}) >= MaxArchived}

Excess(names) ==
  {n \in names : Cardinality({m \in names : Before(n, m)}) >= MaxArchived}

(* The directory is listed once.                                           *)
CleanupLists ==
  /\ At("cleanup")
  /\ engine' = [engine EXCEPT !.at = "expire", !.aged = Aged, !.excess = Excess(Named \ Aged)]
  /\ UNCHANGED <<config, diskVars, sequence, rotation, clock, written, finished, expired, cut, crashes,
                 rotations>>

(* The aged segments go first, in the order of the listing; then those     *)
(* over the count, in the order they are sorted again, the newest first.   *)
Goes(n) ==
  \/ n \in engine.aged /\ \A m \in engine.aged : ~Before(m, n)
  \/ engine.aged = {} /\ n \in engine.excess /\ \A m \in engine.excess : ~Before(n, m)

(* Of a segment with a twin the plain file goes.                           *)
Remove(n) ==
  /\ At("expire") /\ Goes(n)
  /\ plain' = [plain EXCEPT ![n] = None]
  /\ gz' = [gz EXCEPT ![n] = IF Zipped(n) THEN None ELSE @]
  /\ expired' = expired \cup Ids(plain[n]) \cup Ids(gz[n])
  /\ engine' = [engine EXCEPT !.aged = @ \ {n}, !.excess = @ \ {n}]
  /\ UNCHANGED <<config, active, sequence, rotation, clock, written, finished, cut, crashes, rotations>>

CleanupEnds ==
  /\ At("expire") /\ engine.aged = {} /\ engine.excess = {}
  /\ Go("reopen")
  /\ UNCHANGED <<config, diskVars, sequence, rotation, clock, written, finished, expired, cut, crashes,
                 rotations>>

(* gzip_file or a removal throws.  The writer is left without a file until *)
(* the next rotation, which has nothing to rename and opens one.           *)
RotationFails ==
  /\ engine.at \in {"gzip", "remove", "cleanup", "expire"}
  /\ rotations < MaxRotations
  /\ rotations' = rotations + 1
  /\ rotation' = rotation + 1
  /\ engine' = [engine EXCEPT !.at = "failed", !.aged = {}, !.excess = {}]
  /\ UNCHANGED <<config, diskVars, sequence, clock, written, finished, expired, cut, crashes>>

(* The new active log, and the checkpoint with the next rotation index.    *)
Reopen ==
  /\ engine.at \in {"reopen", "failed"}
  /\ active' = File(<<>>, clock)
  /\ rotation' = rotation + 1
  /\ Go("idle")
  /\ UNCHANGED <<config, plain, gz, sequence, clock, written, finished, expired, cut, crashes, rotations>>

-----------------------------------------------------------------------------
Crash ==
  /\ engine.at # "down"
  /\ crashes < MaxCrashes
  /\ crashes' = crashes + 1
  /\ engine' = [engine EXCEPT !.at = "down", !.aged = {}, !.excess = {}]
  /\ UNCHANGED <<config, diskVars, sequence, rotation, clock, written, finished, expired, cut, rotations>>

(* recover_active_file and truncate_to: a line without its newline, and    *)
(* everything from the first line that does not verify, is cut off.        *)
Ended(lines) ==
  IF lines # <<>> /\ ~lines[Len(lines)].whole THEN SubSeq(lines, 1, Len(lines) - 1) ELSE lines

Kept(lines) == ValidLines([i \in DOMAIN Ended(lines) |-> Ended(lines)[i].line])

(* prepare, recover_active_file and truncate_to.  With a checkpoint of the *)
(* last record the scan starts behind it; without one it is a scan of the  *)
(* whole file and the rotation index starts over.  Without an active log   *)
(* everything starts over.  (AsyncWriter has the checkpoint itself.)  Some *)
(* time has passed.                                                        *)
Boot(checkpoint) ==
  /\ At("down") /\ clock < MaxTime
  /\ checkpoint => active.present
  /\ clock' = clock + 1
  /\ LET kept == IF checkpoint THEN Ended(active.lines)
                 ELSE SubSeq(active.lines, 1, Kept(active.lines))
         cutOff == Len(kept) < Len(active.lines) \/ ~active.present
     IN  /\ active' = File(kept, IF cutOff THEN clock' ELSE active.mtime)
         /\ sequence' = IF checkpoint THEN sequence ELSE NextSequence(Lines(active'))
         /\ cut' = cut \cup (Ids(active) \ Ids(active'))
  /\ rotation' = IF checkpoint THEN rotation ELSE 0
  /\ Go("idle")
  /\ UNCHANGED <<config, plain, gz, written, finished, expired, crashes, rotations>>

(* Time passes; it matters to the engine between two records.              *)
Tick ==
  /\ At("idle") /\ clock < MaxTime
  /\ clock' = clock + 1
  /\ UNCHANGED <<config, diskVars, engine, sequence, rotation, written, finished, expired, cut, crashes,
                 rotations>>

ArchiveInit ==
  /\ config \in Configs
  /\ active = File(<<>>, 0)
  /\ plain = [n \in Name |-> None] /\ gz = [n \in Name |-> None]
  /\ engine = [at |-> "idle", name |-> <<0, 0>>, aged |-> {}, excess |-> {}]
  /\ sequence = 0 /\ rotation = FirstIndex /\ clock = 0
  /\ written = 0 /\ finished = {} /\ expired = {} /\ cut = {} /\ crashes = 0 /\ rotations = 0

EngineStep ==
  \/ WriteBegins \/ WriteEnds
  \/ RotateRename \/ GzipRename \/ GzipRemove \/ Reopen
  \/ CleanupLists \/ (\E n \in Name : Remove(n)) \/ CleanupEnds \/ RotationFails
  \/ Crash \/ Tick
  \/ \E checkpoint \in BOOLEAN : Boot(checkpoint)
=============================================================================
