------------------------------- MODULE Query -------------------------------
(***************************************************************************)
(* A query over the files of module Archive, in another process than the   *)
(* engine (query_server.cc, log_reader.cc, log_layout.cc): the archive     *)
(* directory is listed, then the log directory, then the segments are read *)
(* one after the other.  Between these steps the engine writes, rotates,   *)
(* compresses, cleans up, dies and starts again.                           *)
(***************************************************************************)
EXTENDS Archive

CONSTANTS
  Queries,      \* the queries asked
  DefaultLimit, \* the limit of a query that names none
  BrokenGz      \* bound: compressed segments that turn out to be damaged

Bound == Nat \cup {NaN}      \* NaN: no such bound, as "" is no such name

ASSUME QueryAssumption ==
  /\ Queries \subseteq [via : {"http", "grpc"}, seq_from : Bound, seq_to : Bound,
                        time_from : Bound, time_to : Bound, source_id : STRING,
                        agent_id : STRING, limit : Bound, include_archive : BOOLEAN]
  /\ {BrokenGz, DefaultLimit} \subseteq Nat

VARIABLES
  reader,       \* the query under way: where it is, what is listed, what it found
  corrupted,    \* g_corrupted_segments, since the query began
  \* History, for the properties and the bounds only
  owed,         \* matching records that are in the files since the query began
  broken

queryVars == <<reader, corrupted, owed, broken>>
vars == <<archiveVars, queryVars>>

NoQuery == [at |-> "idle", segments |-> <<>>, records |-> <<>>,
            query |-> [via |-> "http", seq_from |-> NaN, seq_to |-> NaN, time_from |-> NaN,
                       time_to |-> NaN, source_id |-> "", agent_id |-> "", limit |-> 0,
                       include_archive |-> TRUE]]

(* What a record should look like in a reply.                              *)
Expected(e) ==
  LET kept(key, value, default) == IF key \in config.codec.fields THEN value ELSE default
      text == Sanitized(Payload[e.id])
      envelope == Head(text) = "{"
  IN  [ts        |-> kept("ts", e.id, NaN),
       shard     |-> 0,
       seq       |-> kept("seq", e.seq, NaN),
       level     |-> kept("level", e.id % 3, 0),
       payload   |-> IF envelope THEN <<text[3]>> ELSE text,
       agent_id  |-> IF envelope THEN text[5] ELSE "",
       source_id |-> IF envelope THEN text[7] ELSE ""]

(* The payloads whose replies can be told: one that begins like an         *)
(* envelope is one (render_agent_record_envelope, of an agent and a source *)
(* with names), and its message is not the very word source_id, which the  *)
(* reader takes for the key.                                               *)
Envelopes ==
  \A id \in Records : Payload[id][1].key = "{" =>
    LET text == Payload[id][1].text IN
    \E m, a, s \in {text[i] : i \in DOMAIN text} :
      /\ m # "source_id"
      /\ Payload[id] = <<Field("{", <<"message", m, "agent_id", a, "source_id", s>>, NaN)>>

-----------------------------------------------------------------------------
(* read_query_from_http, read_query_from_proto: the limit in force.  Over  *)
(* gRPC a limit of nothing can not be told from none.                      *)
Limited(q) ==
  [q EXCEPT !.limit = IF @ = NaN \/ (q.via = "grpc" /\ @ = 0) THEN DefaultLimit ELSE @]

Within(value, from, to) ==
  /\ from # NaN => value # NaN /\ value >= from
  /\ to # NaN => value # NaN /\ value <= to

(* matches_record_query                                                    *)
Matches(r, q) ==
  /\ Within(r.seq, q.seq_from, q.seq_to)
  /\ Within(r.ts, q.time_from, q.time_to)
  /\ q.source_id \in {"", r.source_id}
  /\ q.agent_id \in {"", r.agent_id}

(* The lines up to the first that does not parse.                          *)
Readable(lines) ==
  LET bad == {i \in DOMAIN lines : ~Parses(lines[i].line)}
  IN  SubSeq(lines, 1, IF bad = {} THEN Len(lines) ELSE (CHOOSE i \in bad : \A j \in bad : i <= j) - 1)

(* The numbers of a set in ascending order.                                *)
Ascending(S) ==
  CHOOSE s \in [1..Cardinality(S) -> S] :
    \A i, j \in 1..Cardinality(S) : i < j => s[i] < s[j]

Matching(lines) ==
  LET found == Ascending({i \in DOMAIN lines : Matches(Parsed(lines[i].line), reader.query)})
  IN  [i \in DOMAIN found |-> [of |-> lines[found[i]], record |-> Parsed(lines[found[i]].line)]]

Owed(file, q) ==
  {e.id : e \in {x \in {file.lines[i] : i \in DOMAIN file.lines} : x.whole /\ Matches(Expected(x), q)}}

Ask(q) ==
  /\ reader.at = "idle"
  /\ reader' = [NoQuery EXCEPT !.query = Limited(q), !.at = "archive"]
  /\ owed' = IF ~q.include_archive THEN Owed(active, q)
             ELSE Owed(active, q) \cup UNION {Owed(plain[n], q) \cup Owed(gz[n], q) : n \in Name}
  /\ UNCHANGED <<corrupted, broken>>

(* collect_query_segments: the archive directory.                          *)
ListArchive ==
  /\ reader.at = "archive"
  /\ reader' = [reader EXCEPT !.at = "active",
                              !.segments = IF reader.query.include_archive
                                             THEN ArchiveSegments ELSE <<>>]
  /\ UNCHANGED <<corrupted, owed, broken>>

(* collect_query_segments: the log directory; the active log comes last.   *)
ListActive ==
  /\ reader.at = "active"
  /\ reader' = [reader EXCEPT !.at = "read",
                              !.segments = IF active.present
                                 THEN Append(@, [archived |-> FALSE, name |-> <<0, 0>>, gz |-> FALSE])
                                 ELSE @]
  /\ UNCHANGED <<corrupted, owed, broken>>

FileOf(s) ==
  IF ~s.archived THEN active ELSE IF s.gz THEN gz[s.name] ELSE plain[s.name]

(* read_records_from_segments for one segment: its matching records up to  *)
(* the limit, to the first line that does not parse, or to the place where *)
(* the compressed data is damaged.                                         *)
Found == reader.records \o Matching(Readable(FileOf(Head(reader.segments)).lines))
Full == Len(Found) >= reader.query.limit
Bad ==
  LET file == FileOf(Head(reader.segments))
  IN  ~Full /\ (Readable(file.lines) # file.lines \/ ~file.intact)

Reading == reader.at = "read" /\ reader.segments # <<>> /\ reader.query.limit > 0

(* Mutant of ReadSegment: a damaged segment ends the query.                *)
ReadSegmentGivesUp ==
  /\ Reading
  /\ reader' = [reader EXCEPT
                  !.records = SubSeq(Found, 1, IF Full THEN reader.query.limit ELSE Len(Found)),
                  !.segments = IF Full \/ Bad THEN <<>> ELSE Tail(@)]
  /\ corrupted' = IF Bad THEN corrupted + 1 ELSE corrupted
  /\ UNCHANGED <<owed, broken>>

(* A file that has disappeared is passed over and not counted, unless it   *)
(* does so between the look for it and its opening.                        *)
ReadSegment ==
  /\ Reading
  /\ reader' = [reader EXCEPT
                  !.records = SubSeq(Found, 1, IF Full THEN reader.query.limit ELSE Len(Found)),
                  !.segments = IF Full THEN <<>> ELSE Tail(@)]
  /\ \/ corrupted' = IF Bad THEN corrupted + 1 ELSE corrupted
     \/ ~FileOf(Head(reader.segments)).present /\ corrupted' = corrupted + 1
  /\ UNCHANGED <<owed, broken>>

Finish ==
  /\ reader.at = "read" /\ (reader.segments = <<>> \/ reader.query.limit = 0)
  /\ reader' = [reader EXCEPT !.at = "done", !.segments = <<>>]
  /\ UNCHANGED <<corrupted, owed, broken>>

(* The reply is rendered and sent.                                         *)
Reply ==
  /\ reader.at = "done"
  /\ reader' = NoQuery
  /\ corrupted' = 0 /\ owed' = {}
  /\ UNCHANGED broken

-----------------------------------------------------------------------------
(* What a step takes away from where it was: a query may miss it.          *)
Moved ==
  LET left(before, after) == IF before = after THEN {} ELSE Ids(before) \ Ids(after) IN
  left(active, active') \cup UNION {left(plain[n], plain'[n]) \cup left(gz[n], gz'[n]) : n \in Name}

(* The medium loses the end of a compressed segment (bound: before the     *)
(* last rotation).                                                         *)
Damage(n, keep) ==
  /\ broken < BrokenGz /\ rotations < MaxRotations
  /\ gz[n].present /\ gz[n].intact
  /\ keep < Len(gz[n].lines)
  /\ gz' = [gz EXCEPT ![n].lines = SubSeq(@, 1, keep), ![n].intact = FALSE]
  /\ UNCHANGED <<config, active, plain, engine, sequence, rotation, clock, written, finished,
                 expired, crashes, rotations, reader, corrupted>>
  /\ broken' = broken + 1
  /\ owed' = owed \ Moved
  /\ cut' = cut \cup Moved

Init ==
  /\ ArchiveInit
  /\ reader = NoQuery /\ corrupted = 0 /\ owed = {} /\ broken = 0

Next ==
  \/ /\ EngineStep
     /\ owed' = owed \ Moved
     /\ UNCHANGED <<reader, corrupted, broken>>
  \/ /\ \/ \E q \in Queries : Ask(q)
        \/ ListArchive \/ ListActive \/ ReadSegment \/ Finish \/ Reply
     /\ UNCHANGED archiveVars
  \/ \E n \in Name : \E keep \in 0..(Len(gz[n].lines) - 1) : Damage(n, keep)

Spec == Init /\ [][Next]_vars

-----------------------------------------------------------------------------
(* Type correctness.                                                       *)
TypeOK ==
  /\ config \in Configs
  /\ engine.at \in {"idle", "writing", "gzip", "remove", "cleanup", "expire", "reopen", "failed", "down"}
  /\ engine.name \in Name /\ {engine.aged, engine.excess} \subseteq SUBSET Name
  /\ sequence \in Nat /\ rotation \in 0..(FirstIndex + MaxRotations) /\ clock \in 0..MaxTime
  /\ \A n \in Name : plain[n].present \in BOOLEAN /\ gz[n].present \in BOOLEAN
  /\ written \in 0..Cardinality(Records)
  /\ finished \subseteq 1..written /\ expired \subseteq finished /\ cut \subseteq finished
  /\ reader.at \in {"idle", "archive", "active", "read", "done"}
  /\ owed \subseteq finished

Returned == {reader.records[i].of.id : i \in DOMAIN reader.records}

(* A reply has every record at most once and in the order of writing,      *)
(* whatever the engine renames, compresses or removes while the query runs *)
(* and over restarts that begin the rotation index again; and it has no    *)
(* more of them than the limit.                                            *)
OnceInOrder ==
  /\ \A i, j \in DOMAIN reader.records :
       i < j => reader.records[i].of.id < reader.records[j].of.id
  /\ Len(reader.records) <= reader.query.limit

(* A record that carries a sequence number is what was written, also when  *)
(* the query runs into a line that is being written or was cut by a crash: *)
(* all of it when the checksum covers the payload, its fields when only    *)
(* they are covered.                                                       *)
Authentic ==
  \A i \in DOMAIN reader.records :
    LET r == reader.records[i].record
        x == Expected(reader.records[i].of)
        covered == CASE config.codec.crc \in {"full", "payload_hash"} -> DOMAIN x
                     [] config.codec.crc = "header" -> {"ts", "shard", "seq", "level"}
                     [] OTHER -> {}
    IN  r.seq # NaN => \A k \in covered : r[k] = x[k]

(* The codec can not bring back everything: with the header class and no   *)
(* field before the payload, the payload is checked as if it were covered; *)
(* a bare line that looks like a field is read as one.                     *)
CodecRestores(id) ==
  /\ config.codec.crc = "header" => config.codec.fields # {}
  /\ ~Structured(config.codec) => Payload[id][1].key \in {"", "{"}

(* A finished query that did not hit its limit has every matching record   *)
(* that lay in the same file from its beginning on, as it was written; and *)
(* where the codec can not bring the records back, one that is missing was *)
(* counted as a corrupted segment: "Accumulate what's readable, warn about *)
(* what's not" (log_reader.cc:52).                                         *)
Complete ==
  reader.at = "done" /\ Len(reader.records) < reader.query.limit =>
    /\ owed \subseteq Returned \/ corrupted > 0
    /\ (\A id \in 1..written : CodecRestores(id)) =>
         \A id \in owed : \E i \in DOMAIN reader.records :
           /\ reader.records[i].of.id = id
           /\ reader.records[i].record = Expected(reader.records[i].of)

(* Rotation, compression, cleanup, crashes in between and recovery lose no *)
(* record but those of expired segments, of damaged files, and those that  *)
(* recovery can not verify; and recovery cuts off no whole line that the   *)
(* codec can bring back.                                                   *)
ArchiveKeeps ==
  /\ finished \ (expired \cup cut) \subseteq
       Ids(active) \cup UNION {Ids(plain[n]) \cup Ids(gz[n]) : n \in Name}
  /\ broken = 0 /\ (\A id \in 1..written : CodecRestores(id)) => cut = {}

(* Whenever the cleanup dies, fails or is looked at between two removals:  *)
(* the youngest segments, as many as are kept, are younger than everything *)
(* that went.  Once it is through, so is all that is left.                 *)
OldestExpire ==
  \A n \in Named :
    Cardinality({m \in Named : Before(n, m)}) < MaxArchived \/ engine.at = "reopen"
      => \A id \in (Ids(plain[n]) \cup Ids(gz[n])) \ expired : \A gone \in expired : gone < id
=============================================================================
