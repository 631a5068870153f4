------------------------------- MODULE Agent -------------------------------
(***************************************************************************)
(* The agent's process (agent.cc): main's start and shutdown, the sources  *)
(* on TCP, Unix sockets, UDP and stdin, the HTTP ingest route, and the     *)
(* move of the old pending delivery file.  The file source's own work is   *)
(* module FileSource, the scanners' is module Delivery and the engine's is *)
(* module LogEngine; here they are what main and the sources see of them.  *)
(*                                                                         *)
(* All of this runs on one reactor: a step goes from one wait to the next. *)
(* std::getline does not give the reactor back while it waits.             *)
(*                                                                         *)
(* Bytes are cells: the two ends of line below, and positive numbers, each *)
(* of which stands for the text of one line.                               *)
(***************************************************************************)
EXTENDS Integers, Sequences, FiniteSets, SequencesExt

CONSTANTS
  Options,          \* the sources, the sink, source_max_lines and max_socket_connections (0:
                    \* no limit) to choose from; with them the bodies that clients post and, as a bound, the starts
                    \* of the process
  Wire,             \* what each connection sends
  Via,              \* the source a connection goes to
  Datagram,         \* the datagrams, in the order of their arrival
  Input,            \* the lines on stdin
  Requests,         \* the HTTP requests
  MaxRequestBytes,  \* max_request_bytes
  MaxFaults,        \* bound: appends that fail
  MaxCrashes        \* bound: crashes

NL == 0
CR == -1

Sources == {"file", "stdin", "tcp", "udp", "unix"}
Conns == DOMAIN Wire

Text == Seq(Int)
Item == [kind : {"object", "unclosed", "other"}, text : Text]
Body == [bytes : Nat, array : BOOLEAN, items : Seq(Item), text : Text]

ASSUME AgentAssumption ==
  /\ \A o \in Options : o.sources \subseteq Sources /\ o.sink \in BOOLEAN /\ {o.limit, o.starts} \subseteq Nat
                        /\ o.max_lines \in Nat \ {0} /\ o.bodies \subseteq Body
  /\ Via \in [Conns -> {"tcp", "unix"}] /\ \A c \in Conns : Wire[c] \in Text
  /\ {Datagram, Input} \subseteq Seq(Text)
  /\ {MaxRequestBytes, MaxFaults, MaxCrashes} \subseteq Nat

VARIABLES
  options,     \* the options
  main,        \* where main is
  signaled,    \* a signal has come
  stopping,    \* the flag the sources and scanners look at
  engine,      \* "down", "up" or "stopped"
  queued,      \* records the engine has taken and not written yet
  stored,      \* records in the shard's log
  source,      \* where each source is, and what it holds
  conn,        \* per connection: its state, the cells sent and read, how it was closed
  arrived,     \* datagrams that have arrived and were not received
  typed,       \* lines on stdin that were not read, and whether it has ended
  request,     \* per HTTP request: where it is, its body, and the run of the process it goes to
  scanner,     \* where the delivery scanners are
  legacy,      \* the old pending delivery file exists
  pending,     \* the shard's pending delivery file exists
  \* History, for the properties and the bounds only
  delivered,   \* the pending batch has reached the sink
  taken,       \* records the engine has taken since the start
  late,        \* records that were handed to an engine that was not up
  torn,        \* a crash came between the two steps of a migration
  faults, crashes, starts

streamVars == <<source, conn, arrived, typed>>
deliveryVars == <<scanner, legacy, pending, delivered>>
history == <<torn, faults, crashes, starts>>
vars == <<options, main, signaled, stopping, engine, queued, stored, streamVars, request,
          deliveryVars, taken, late, history>>

NoBody == [bytes |-> 0, array |-> FALSE, items |-> <<>>, text |-> <<>>]
Off == [at |-> "done", conn |-> 0, buffer |-> <<>>, lines |-> <<>>, served |-> 0]

(* std::getline holds the reactor.                                         *)
ReactorFree == source["stdin"].at # "getline"

Stopped == {"off", "exited", "failed", "failed_migration"}
Running == main \notin Stopped

-----------------------------------------------------------------------------
(* consume_line_stream: the complete lines at the front of the buffer.     *)

Ends(cells) == {i \in DOMAIN cells : cells[i] = NL}
Nth(set, n) == CHOOSE i \in set : Cardinality({j \in set : j <= i}) = n
LineEnd(cells, n) == IF n = 0 THEN 0 ELSE Nth(Ends(cells), n)
Count(cells) == IF Cardinality(Ends(cells)) > options.max_lines THEN options.max_lines ELSE Cardinality(Ends(cells))

Stripped(line) == IF line # <<>> /\ Last(line) = CR THEN Front(line) ELSE line

FirstLines(cells) ==
  [k \in 1..Count(cells) |->
     Stripped(SubSeq(cells, LineEnd(cells, k - 1) + 1, LineEnd(cells, k) - 1))]

(* What is left of the buffer.                                             *)
After(cells) == SubSeq(cells, LineEnd(cells, Count(cells)) + 1, Len(cells))

-----------------------------------------------------------------------------
(* Where a loop goes when it looks at the flag again.                      *)

Again(at) == IF stopping THEN "done" ELSE at

(* The lines a source is about to append.                                  *)
Batch(s) == IF s \in {"tcp", "unix"} THEN FirstLines(source[s].buffer) ELSE source[s].lines

(* The source has its lines in the engine and goes on.                     *)
Appended(s) ==
  LET rest == After(source[s].buffer)
      idle == [source[s] EXCEPT !.lines = <<>>]
  IN  CASE s \in {"tcp", "unix"} ->
             [source[s] EXCEPT !.buffer = rest,
                               !.at = IF Ends(rest) # {} THEN "append" ELSE Again("read")]
        [] s = "stdin" ->
             [idle EXCEPT !.at = Again("getline")]
        [] s = "udp"   -> [idle EXCEPT !.at = Again("receive")]

(* Mutant of Refused: a connection goes on after a batch that failed.      *)
RefusedOnly(s) == Appended(s)

(* append_source_lines has thrown.  A connection is left as it is and the  *)
(* next one is served; stdin and UDP are over for good and their futures   *)
(* hold the exception.                                                     *)
Refused(s) ==
  CASE s \in {"tcp", "unix"} ->
         [source[s] EXCEPT !.buffer = <<>>, !.conn = 0, !.at = Again("accept")]
    [] s \in {"stdin", "udp"} -> [source[s] EXCEPT !.lines = <<>>, !.at = "failed"]

(* The engine takes the records of a batch.                                *)
Take(records) ==
  /\ queued' = IF engine = "up" THEN queued \o records ELSE queued
  /\ taken' = IF engine = "up" THEN taken \o records ELSE taken
  /\ late' = IF engine = "up" THEN late ELSE late + Len(records)

Leave(s) ==
  conn' = [c \in Conns |-> IF c = source[s].conn THEN [conn[c] EXCEPT !.state = "left"] ELSE conn[c]]

AppendSucceeds(s) ==
  /\ ReactorFree /\ source[s].at = "append"
  /\ Take(Batch(s))
  /\ source' = [source EXCEPT ![s] = Appended(s)]
  /\ UNCHANGED <<options, main, signaled, stopping, engine, stored, conn, arrived, typed, request,
                 deliveryVars, history>>

(* Backpressure pauses the source, or append_batch fails.                  *)
AppendFails(s) ==
  /\ ReactorFree /\ source[s].at = "append"
  /\ faults < MaxFaults /\ faults' = faults + 1
  /\ source' = [source EXCEPT ![s] = Refused(s)]
  /\ Leave(s)
  /\ UNCHANGED <<options, main, signaled, stopping, engine, queued, stored, arrived, typed, request,
                 deliveryVars, taken, late, torn, crashes, starts>>

StreamStep == UNCHANGED <<options, main, signaled, stopping, engine, queued, stored, request,
                          deliveryVars, taken, late, history>>

(* run_tcp_source_loop, run_unix_socket_source_loop: the flag is looked at *)
(* before an accept and, in consume_line_stream, before a read.            *)
Accept(s, c) ==
  LET full == options.limit > 0 /\ source[s].served >= options.limit IN
  /\ ReactorFree /\ source[s].at = "accept"
  /\ Via[c] = s /\ conn[c].state = "queued"
  /\ conn' = [conn EXCEPT ![c].state = IF full \/ stopping THEN "left" ELSE "open"]
  /\ source' = [source EXCEPT ![s] =
       IF full THEN [source[s] EXCEPT !.at = Again("accept")]
       ELSE [source[s] EXCEPT !.at = Again("read"), !.conn = c, !.served = source[s].served + 1]]
  /\ UNCHANGED <<arrived, typed>> /\ StreamStep

(* A read gives some of the cells that have come.                          *)
Read(s, n) ==
  LET c == source[s].conn
      buffer == source[s].buffer \o SubSeq(Wire[c], conn[c].read + 1, conn[c].read + n)
  IN
  /\ ReactorFree /\ source[s].at = "read"
  /\ conn[c].read + n <= conn[c].sent
  /\ conn' = [conn EXCEPT ![c].read = @ + n]
  /\ source' = [source EXCEPT ![s].buffer = buffer,
                              ![s].at = IF Ends(buffer) # {} THEN "append" ELSE Again("read")]
  /\ UNCHANGED <<arrived, typed>> /\ StreamStep

(* The end of the stream, or an error, which is caught and counted: what   *)
(* is left in the buffer is dropped.                                       *)
ReadEnds(s) ==
  LET c == source[s].conn IN
  /\ ReactorFree /\ source[s].at = "read"
  /\ conn[c].closed = "reset" \/ (conn[c].closed = "end" /\ conn[c].read = conn[c].sent)
  /\ Leave(s)
  /\ source' = [source EXCEPT ![s].at = Again("accept"), ![s].conn = 0, ![s].buffer = <<>>]
  /\ UNCHANGED <<arrived, typed>> /\ StreamStep

(* run_udp_source_loop: one record per datagram.                           *)
Receive ==
  /\ ReactorFree /\ source["udp"].at = "receive"
  /\ arrived.queue # <<>>
  /\ source' = [source EXCEPT !["udp"].lines = <<Head(arrived.queue)>>, !["udp"].at = "append"]
  /\ arrived' = [arrived EXCEPT !.queue = Tail(@)]
  /\ UNCHANGED <<conn, typed>> /\ StreamStep

(* run_stdin_source_loop                                                   *)
GetLine ==
  LET lines == Append(source["stdin"].lines, Head(typed.lines)) IN
  /\ source["stdin"].at = "getline" /\ typed.lines # <<>>
  /\ typed' = [typed EXCEPT !.lines = Tail(@)]
  /\ source' = [source EXCEPT !["stdin"].lines = lines,
                  !["stdin"].at = IF Len(lines) >= options.max_lines THEN "append" ELSE "getline"]
  /\ UNCHANGED <<conn, arrived>> /\ StreamStep

GetLineEnds ==
  /\ source["stdin"].at = "getline" /\ typed.lines = <<>> /\ typed.ended
  /\ source' = [source EXCEPT !["stdin"].at = IF source["stdin"].lines = <<>> THEN "done" ELSE "append"]
  /\ UNCHANGED <<conn, arrived, typed>> /\ StreamStep

(* run_file_source_loop looks at the flag; FileSource has the rest.        *)
PollEnds ==
  /\ ReactorFree /\ source["file"].at = "poll" /\ stopping
  /\ source' = [source EXCEPT !["file"].at = "done"]
  /\ UNCHANGED <<conn, arrived, typed>> /\ StreamStep

SourceStep(s) ==
  \/ AppendSucceeds(s) \/ AppendFails(s)
  \/ s \in {"tcp", "unix"} /\ \/ \E c \in Conns : Accept(s, c)
                              \/ source[s].conn # 0 /\ \E n \in 1..Len(Wire[source[s].conn]) : Read(s, n)
                              \/ source[s].conn # 0 /\ ReadEnds(s)
  \/ s = "udp" /\ Receive
  \/ s = "stdin" /\ (GetLine \/ GetLineEnds)
  \/ s = "file" /\ PollEnds

-----------------------------------------------------------------------------
(* HTTP ingest.                                                            *)

(* extract_json_records_array: nothing when there is no array or one of    *)
(* its items is no object; an object that is not closed is left out.       *)
RecordsArray(body) ==
  LET objects == {i \in DOMAIN body.items : body.items[i].kind = "object"}
  IN  IF ~body.array \/ \E i \in DOMAIN body.items : body.items[i].kind = "other" THEN <<>>
      ELSE [k \in 1..Cardinality(objects) |-> body.items[Nth(objects, k)].text]

(* parse_ingest_body: without records the body is the record.              *)
IngestMessages(body) == IF RecordsArray(body) = <<>> THEN <<body.text>> ELSE RecordsArray(body)

RequestStep == UNCHANGED <<options, main, signaled, stopping, engine, stored, streamVars,
                           deliveryVars, torn, crashes, starts>>

Handle(r) ==
  /\ ReactorFree /\ request[r].at = "sent"
  /\ request' = [request EXCEPT ![r].at =
       IF request[r].body.bytes = 0 THEN "400" ELSE IF request[r].body.bytes > MaxRequestBytes THEN "413" ELSE "append"]
  /\ UNCHANGED <<queued, taken, late, faults>> /\ RequestStep

IngestSucceeds(r) ==
  /\ ReactorFree /\ request[r].at = "append"
  /\ Take(IngestMessages(request[r].body))
  /\ request' = [request EXCEPT ![r].at = "200"]
  /\ UNCHANGED faults /\ RequestStep

IngestFails(r) ==
  /\ ReactorFree /\ request[r].at = "append"
  /\ faults < MaxFaults /\ faults' = faults + 1
  /\ request' = [request EXCEPT ![r].at = "503"]
  /\ UNCHANGED <<queued, taken, late>> /\ RequestStep

Answer(r) == Handle(r) \/ IngestSucceeds(r) \/ IngestFails(r)

-----------------------------------------------------------------------------
(* The engine writes what it has taken (module AsyncWriter).               *)
Flush ==
  /\ ReactorFree /\ queued # <<>>
  /\ stored' = stored \o queued /\ queued' = <<>>
  /\ UNCHANGED <<options, main, signaled, stopping, engine, streamVars, request, deliveryVars, taken,
                 late, history>>

-----------------------------------------------------------------------------
(* The delivery scanners, as far as the pending file goes (module          *)
(* Delivery).                                                              *)

ScannerStep == UNCHANGED <<options, main, signaled, stopping, engine, queued, stored, streamVars,
                           request, legacy, taken, late, history>>

Deliver ==
  /\ ReactorFree /\ scanner = "idle" /\ ~stopping /\ pending
  /\ delivered' = TRUE /\ scanner' = "sent"
  /\ UNCHANGED pending /\ ScannerStep

RemovePending ==
  /\ ReactorFree /\ scanner = "sent"
  /\ pending' = FALSE /\ scanner' = "idle"
  /\ UNCHANGED delivered /\ ScannerStep

ScannerEnds ==
  /\ ReactorFree /\ scanner = "idle" /\ stopping
  /\ scanner' = "done"
  /\ UNCHANGED <<pending, delivered>> /\ ScannerStep

Scan == Deliver \/ RemovePending \/ ScannerEnds

-----------------------------------------------------------------------------
(* main.                                                                   *)

Go(from, to) == ReactorFree /\ main = from /\ main' = to

MainOnly == UNCHANGED <<options, signaled, queued, stored, streamVars, request, delivered, taken, late,
                        history>>

StartEngine ==
  /\ Go("boot", "listen")
  /\ engine' = "up"
  /\ UNCHANGED <<stopping, scanner, legacy, pending>> /\ MainOnly

(* http_server.start, set_routes and listen.                               *)
Listen ==
  /\ Go("listen", "sources")
  /\ UNCHANGED <<stopping, engine, scanner, legacy, pending>> /\ MainOnly

First == [file |-> "poll", stdin |-> "getline", tcp |-> "accept", udp |-> "receive", unix |-> "accept"]

StartSources ==
  /\ Go("sources", IF options.sink THEN "load" ELSE "wait")
  /\ source' = [s \in Sources |-> IF s \in options.sources THEN [Off EXCEPT !.at = First[s]] ELSE Off]
  /\ UNCHANGED <<options, signaled, stopping, engine, queued, stored, conn, arrived, typed, request,
                 deliveryVars, taken, late, history>>

(* migrate_legacy_pending_delivery                                         *)
LoadLegacy ==
  /\ Go("load", IF legacy THEN "check" ELSE "scan")
  /\ UNCHANGED <<stopping, engine, scanner, legacy, pending>> /\ MainOnly

CheckPending ==
  /\ ~pending /\ Go("check", "store")
  /\ UNCHANGED <<stopping, engine, scanner, legacy, pending>> /\ MainOnly

(* Mutant of StorePending: the old file is removed first.                  *)
StorePendingLate ==
  /\ Go("store", "remove")
  /\ legacy' = FALSE
  /\ UNCHANGED <<stopping, engine, scanner, pending>> /\ MainOnly

StorePending ==
  /\ Go("store", "remove")
  /\ pending' = TRUE
  /\ UNCHANGED <<stopping, engine, scanner, legacy>> /\ MainOnly

RemoveLegacy ==
  /\ Go("remove", "scan")
  /\ legacy' = FALSE
  /\ UNCHANGED <<stopping, engine, scanner, pending>> /\ MainOnly

StartScanners ==
  /\ Go("scan", "wait")
  /\ scanner' = "idle"
  /\ UNCHANGED <<stopping, engine, legacy, pending>> /\ MainOnly

(* Mutant of StopAsked: the scanners are waited for before the flag is set. *)
StopAskedLate ==
  /\ signaled /\ scanner \in {"off", "done"} /\ Go("wait", "scanners")
  /\ stopping' = TRUE
  /\ UNCHANGED <<engine, scanner, legacy, pending>> /\ MainOnly

StopAsked ==
  /\ signaled /\ Go("wait", "scanners")
  /\ stopping' = TRUE
  /\ UNCHANGED <<engine, scanner, legacy, pending>> /\ MainOnly

AwaitScanners ==
  /\ scanner \in {"off", "done"} /\ Go("scanners", "file")
  /\ UNCHANGED <<stopping, engine, scanner, legacy, pending>> /\ MainOnly

(* The sources in the order they are waited for.                           *)
Following == [file |-> "stdin", stdin |-> "tcp", tcp |-> "udp", udp |-> "unix", unix |-> "http"]

AwaitSource(s) ==
  /\ source[s].at = "done"
  /\ Go(s, Following[s])
  /\ UNCHANGED <<stopping, engine, scanner, legacy, pending>> /\ MainOnly

(* http_server.stop: no new requests; it waits for those under way.        *)
StopHttp ==
  /\ \A r \in Requests : request[r].at \notin {"sent", "append"}
  /\ Go("http", "engine")
  /\ UNCHANGED <<stopping, engine, scanner, legacy, pending>> /\ MainOnly

(* The process is gone.                                                    *)
Gone ==
  /\ signaled' = FALSE /\ stopping' = FALSE /\ engine' = "down" /\ queued' = <<>> /\ scanner' = "off"
  /\ source' = [s \in Sources |-> Off]
  /\ conn' = [c \in Conns |-> IF conn[c].state \in {"queued", "open"}
                                THEN [conn[c] EXCEPT !.state = "left"] ELSE conn[c]]
  /\ request' = [r \in Requests |-> IF request[r].at \in {"sent", "append"}
                                      THEN [request[r] EXCEPT !.at = "lost"] ELSE request[r]]
  /\ arrived' = [arrived EXCEPT !.queue = <<>>]
  /\ UNCHANGED <<options, typed, legacy, pending, delivered, taken, late, faults, starts>>

(* Mutant of StopEngine: what is queued is not written.                    *)
StopEngineAbruptly ==
  /\ Go("engine", "return")
  /\ engine' = "stopped" /\ queued' = <<>>
  /\ UNCHANGED <<options, signaled, stopping, stored, streamVars, request, deliveryVars, taken, late,
                 history>>

(* LogEngine::stop writes what is queued.                                  *)
StopEngine ==
  /\ Go("engine", "return")
  /\ engine' = "stopped" /\ stored' = stored \o queued /\ queued' = <<>>
  /\ UNCHANGED <<options, signaled, stopping, streamVars, request, deliveryVars, taken, late, history>>

Return ==
  /\ Go("return", "exited") /\ Gone
  /\ UNCHANGED <<stored, torn, crashes>>

(* An exception leaves main: both pending files exist, or a source that    *)
(* main waits for has failed.  Nothing is stopped in order.                *)
MainThrows ==
  /\ \/ pending /\ Go("check", "failed_migration")
     \/ \E s \in Sources : source[s].at = "failed" /\ Go(s, "failed")
  /\ Gone /\ UNCHANGED <<stored, torn, crashes>>

MainStep ==
  \/ StartEngine \/ Listen \/ StartSources
  \/ LoadLegacy \/ CheckPending \/ StorePending \/ RemoveLegacy \/ StartScanners
  \/ StopAsked \/ AwaitScanners \/ (\E s \in Sources : AwaitSource(s)) \/ StopHttp \/ StopEngine \/ Return
  \/ MainThrows

-----------------------------------------------------------------------------
(* The world around the process.                                           *)

Outside == UNCHANGED <<options, stopping, engine, queued, stored, source, deliveryVars, late, torn, faults>>

Launch ==
  /\ ~Running /\ starts < options.starts
  /\ main' = "boot" /\ starts' = starts + 1 /\ taken' = <<>>
  /\ Outside /\ UNCHANGED <<signaled, conn, arrived, typed, request, crashes>>

Signal ==
  /\ Running /\ ~signaled /\ signaled' = TRUE
  /\ Outside /\ UNCHANGED <<main, conn, arrived, typed, request, taken, crashes, starts>>

Crash ==
  /\ Running /\ crashes < MaxCrashes /\ crashes' = crashes + 1
  /\ main' = "off" /\ torn' = (torn \/ main = "remove")
  /\ Gone /\ UNCHANGED stored

Connects(c) ==
  /\ conn[c].state = "none" /\ source[Via[c]].at \in {"accept", "read", "append"}
  /\ conn' = [conn EXCEPT ![c].state = "queued"]
  /\ Outside /\ UNCHANGED <<main, signaled, arrived, typed, request, taken, crashes, starts>>

Sends(c) ==
  /\ conn[c].state = "open" /\ conn[c].closed = "no"
  /\ conn[c].sent < Len(Wire[c])
  /\ conn' = [conn EXCEPT ![c].sent = Len(Wire[c])]
  /\ Outside /\ UNCHANGED <<main, signaled, arrived, typed, request, taken, crashes, starts>>

(* The peer closes when it has sent everything, or resets the connection.  *)
Closes(c, how) ==
  /\ conn[c].state = "open" /\ conn[c].closed = "no"
  /\ how = "end" => conn[c].sent = Len(Wire[c])
  /\ conn' = [conn EXCEPT ![c].closed = how]
  /\ Outside /\ UNCHANGED <<main, signaled, arrived, typed, request, taken, crashes, starts>>

(* A datagram arrives; those before it that did not are lost.              *)
Arrives(k) ==
  /\ source["udp"].at \in {"receive", "append"}
  /\ k >= arrived.next
  /\ arrived' = [queue |-> Append(arrived.queue, Datagram[k]), next |-> k + 1]
  /\ Outside /\ UNCHANGED <<main, signaled, conn, typed, request, taken, crashes, starts>>

Types ==
  /\ ~typed.ended /\ typed.next <= Len(Input)
  /\ typed' = [typed EXCEPT !.lines = Append(@, Input[typed.next]), !.next = @ + 1]
  /\ Outside /\ UNCHANGED <<main, signaled, conn, arrived, request, taken, crashes, starts>>

EndsInput ==
  /\ ~typed.ended /\ typed' = [typed EXCEPT !.ended = TRUE]
  /\ Outside /\ UNCHANGED <<main, signaled, conn, arrived, request, taken, crashes, starts>>

Posts(r, body) ==
  /\ request[r].at = "none"
  /\ Running /\ main \notin {"boot", "listen", "http", "engine", "return"}
  /\ request' = [request EXCEPT ![r] = [at |-> "sent", body |-> body, run |-> starts]]
  /\ Outside /\ UNCHANGED <<main, signaled, conn, arrived, typed, taken, crashes, starts>>

World ==
  \/ Launch \/ Signal \/ Crash \/ Types \/ EndsInput
  \/ \E c \in Conns : Connects(c) \/ Sends(c) \/ Closes(c, "end") \/ Closes(c, "reset")
  \/ \E k \in DOMAIN Datagram : Arrives(k)
  \/ \E r \in Requests : \E body \in options.bodies : Posts(r, body)

Init ==
  /\ options \in Options
  /\ main = "off" /\ signaled = FALSE /\ stopping = FALSE /\ engine = "down"
  /\ queued = <<>> /\ stored = <<>>
  /\ source = [s \in Sources |-> Off]
  /\ conn = [c \in Conns |-> [state |-> "none", sent |-> 0, read |-> 0, closed |-> "no"]]
  /\ arrived = [queue |-> <<>>, next |-> 1] /\ typed = [lines |-> <<>>, next |-> 1, ended |-> FALSE]
  /\ request = [r \in Requests |-> [at |-> "none", body |-> NoBody, run |-> 0]]
  /\ scanner = "off" /\ legacy \in {FALSE, options.sink} /\ pending = FALSE /\ delivered = ~legacy
  /\ taken = <<>> /\ late = 0
  /\ torn = FALSE /\ faults = 0 /\ crashes = 0 /\ starts = 0

Next ==
  \/ MainStep \/ Scan \/ Flush
  \/ \E s \in Sources : SourceStep(s)
  \/ \E r \in Requests : Answer(r)
  \/ World

(* The reactor gets to everything that is ready.                           *)
Fairness ==
  /\ WF_vars(MainStep) /\ WF_vars(Scan) /\ WF_vars(Flush)
  /\ \A s \in Sources : WF_vars(SourceStep(s))
  /\ \A r \in Requests : WF_vars(Answer(r))

Spec == Init /\ [][Next]_vars /\ Fairness

-----------------------------------------------------------------------------
Places == Stopped \cup Sources \cup {"boot", "listen", "sources", "load", "check", "store", "remove", "scan",
                                     "wait", "scanners", "http", "engine", "return"}
Stages == [file |-> {"done", "poll"}, stdin |-> {"done", "failed", "append", "getline"},
           tcp |-> {"done", "append", "accept", "read"}, unix |-> {"done", "append", "accept", "read"},
           udp |-> {"done", "failed", "append", "receive"}]
Served == [at : UNION {Stages[s] : s \in Sources}, conn : Conns \cup {0}, buffer : Text, lines : Seq(Text),
           served : Nat]

(* Type correctness; each source is at a place of its own loop, a socket   *)
(* source serves no more connections than it may, and none reads more      *)
(* lines than it may before an append.                                     *)
TypeOK ==
  /\ options \in Options /\ main \in Places /\ engine \in {"down", "up", "stopped"}
  /\ {signaled, stopping, legacy, pending, delivered, torn} \subseteq BOOLEAN
  /\ {queued, stored, taken} \subseteq Seq(Text)
  /\ source \in [Sources -> Served]
  /\ \A s \in Sources : /\ source[s].at \in Stages[s]
                        /\ options.limit > 0 => source[s].served <= options.limit
                        /\ Len(source[s].lines) <= options.max_lines
  /\ conn \in [Conns -> [state : {"none", "queued", "open", "left"}, sent : Nat, read : Nat,
                         closed : {"no", "end", "reset"}]]
  /\ \A c \in Conns : conn[c].read <= conn[c].sent /\ conn[c].sent <= Len(Wire[c])
  /\ arrived \in [queue : Seq(Text), next : Nat]
  /\ typed \in [lines : Seq(Text), next : Nat \ {0}, ended : BOOLEAN]
  /\ request \in [Requests -> [at : {"none", "sent", "append", "200", "400", "413", "503", "lost"}, body : Body,
                               run : Nat]]
  /\ scanner \in {"off", "idle", "sent", "done"}
  /\ {late, faults, crashes, starts} \subseteq Nat

(* What the log has of a connection, the lines that end within its first n *)
(* cells, and the order of what the log has: the connection's own, and     *)
(* each line once.                                                         *)
Held(c, log) == {i \in DOMAIN Wire[c] : <<Wire[c][i]>> \in ToSet(log)}
Ended(c, n) == {i \in DOMAIN Wire[c] : Wire[c][i] > 0 /\ \E j \in (i + 1)..n : Wire[c][j] = NL}
InOrder(c, log) ==
  \A k, l \in DOMAIN log : \A i, j \in DOMAIN Wire[c] :
    k < l /\ log[k] = <<Wire[c][i]>> /\ log[l] = <<Wire[c][j]>> => i < j

(* However a stream is cut into reads and batches, whatever append fails,  *)
(* and whenever the process stops or dies: what the engine has of a        *)
(* connection is a first part of its complete lines, in order, each once   *)
(* and without its CR.  After main has returned without an exception, if   *)
(* no append failed, it is all of them.                                    *)
StreamPrefix ==
  LET log == stored \o queued IN
  \A c \in Conns :
    /\ InOrder(c, log)
    /\ Held(c, log) \subseteq Ended(c, conn[c].read)
    /\ \A i \in Ended(c, conn[c].read) : \A j \in Held(c, log) : i < j => i \in Held(c, log)
    /\ main = "exited" /\ faults = 0 /\ crashes = 0 => Held(c, log) = Ended(c, conn[c].read)

(* How cells stand for lines: a line is its text, a CR or none, and the    *)
(* NL; no two lines have the same text, nor has a record of another source *)
(* the text of one.  It lets a record be told from the line it comes from. *)
Marked ==
  \A c \in Conns : c # 0 /\ \A i \in DOMAIN Wire[c] :
    /\ Wire[c][i] > 0 \/ Wire[c][i] \in {CR, NL}
    /\ i + 1 \in DOMAIN Wire[c] =>
         /\ Wire[c][i] > 0 => Wire[c][i + 1] \in {CR, NL}
         /\ Wire[c][i] = CR => Wire[c][i + 1] = NL
    /\ \A d \in Conns : \A j \in DOMAIN Wire[d] :
         Wire[c][i] > 0 /\ Wire[c][i] = Wire[d][j] => c = d /\ i = j
    /\ <<Wire[c][i]>> \notin ToSet(Datagram) \cup ToSet(Input)
    /\ \A o \in Options : \A body \in o.bodies : <<Wire[c][i]>> \notin ToSet(IngestMessages(body))

Messages(r) == ToSet(IngestMessages(request[r].body))

(* No source and no request hands records to an engine that is not there   *)
(* yet or not any more (AsyncWriter drops what reaches it when it stops);  *)
(* and after main has returned without an exception everything the engine  *)
(* took is written, and so is every record a client got a 200 for.         *)
CleanExit ==
  /\ late = 0
  /\ main = "exited" =>
       /\ IsSuffix(taken, stored)
       /\ \A r \in Requests :
            request[r].at = "200" /\ request[r].run = starts => Messages(r) \subseteq ToSet(stored)

(* The batch in the old pending file is not lost on its way to the shard's *)
(* file, wherever the process dies: it is in one of the files until it has *)
(* been delivered.  "both legacy and per-shard pending delivery files      *)
(* exist" stops the agent only after a crash between the two steps of the  *)
(* migration, never after a stop or another failure, and no delivered      *)
(* batch is left to be migrated once more.                                 *)
MigrationKeeps ==
  /\ ~delivered => legacy \/ pending
  /\ main = "failed_migration" => torn
  /\ delivered /\ options.sink /\ main \in {"wait", "exited"} => ~legacy

(* What only somebody else can end: a read from stdin, which holds the     *)
(* reactor, or the accept, read or receive of the source main waits for.   *)
StdinBlocks == source["stdin"].at = "getline" /\ typed.lines = <<>> /\ ~typed.ended
WaitsForPeer ==
  \/ StdinBlocks
  \/ main \in {"tcp", "unix"} /\ source[main].at = "accept"
  \/ main \in {"tcp", "unix"} /\ source[main].at = "read" /\ conn[source[main].conn].closed = "no"
  \/ main = "udp" /\ source["udp"].at = "receive"

(* A stop that was asked for ends the process, in order or with the error  *)
(* of a source, or waits for the peer of a source.                         *)
StopReturns == main = "wait" /\ signaled ~> ~Running \/ WaitsForPeer

=============================================================================
