------------------------------ MODULE FileSource ------------------------------
(***************************************************************************)
(* The file source of the agent: run_file_source_loop and                  *)
(* append_source_lines of agent.cc with the tailing, the multiline, limit, *)
(* quota and offset helpers of agent_support.cc, over the engine of module *)
(* LogEngine.  Other programs write, rotate, truncate and remove the       *)
(* tailed files meanwhile.                                                 *)
(*                                                                         *)
(* A file is a sequence of cells: numbered characters and newlines (NL).   *)
(* Offsets and sizes count cells.  A generation is one run of a file's     *)
(* content without truncation: the code knows the inode only, the model    *)
(* uses the generation to say what the code can not see.                   *)
(***************************************************************************)
EXTENDS LogEngine

CONSTANTS
  NL,             \* the newline cell
  Paths,          \* the tailed paths in sorted order
  Fixed,          \* file-source-path: tried whether or not it is there
  Inodes,         \* the inode numbers of the file system
  SourceMaxLines, \* source_max_lines
  Options,        \* the source options to explore: multiline_enabled,
                  \* multiline_max_lines, source_max_message_bytes and
                  \* source_max_buffer_bytes, 0: none
  Gauges,         \* the backpressure measures in the order they are looked at
  MaxCells,       \* bound: characters and empty lines written
  MaxChanges,     \* bound: rotations, truncations and removals
  MaxMishaps,     \* bound: crashes, and offset files that can not be stored
  MaxPressure     \* bound: changes of the measures

Source == CHOOSE c \in Callers : TRUE

ASSUME SourceAssumption ==
  /\ Callers = {Source}
  /\ SourceMaxLines \in Nat \ {0}
  /\ Options \subseteq [multiline : BOOLEAN, max_lines : Nat, max_message : Nat, max_buffer : Nat]
  /\ Paths \in Seq(ToSet(Paths)) /\ Fixed \subseteq ToSet(Paths)
  /\ Inodes # {} /\ Inodes \subseteq Nat \ {0}

VARIABLES
  options,    \* the options of this agent
  contents,   \* every generation so far: its inode and its cells
  file,       \* the file at each path: its inode and generation, or Absent
  offsets,    \* the loop's offset of each path, in memory
  stored,     \* the offset file of each path
  src,        \* where the loop is, with its locals
  over,       \* the measures above their threshold
  reason,     \* current_backpressure_reason
  taken,      \* History: characters that reached a shard's queue
  refused,    \* History: characters of records the limits dropped
  excused,    \* History: did an append or a store fail, the process die, or
              \* a file change between the look at it and the read?
  used        \* History: how much of each bound is used up

sourceVars == <<options, contents, file, offsets, stored, src, over, reason>>
historyVars == <<taken, refused, excused, used>>
vars == <<engineVars, sourceVars, historyVars>>

PathSet == ToSet(Paths)
Absent  == [inode |-> 0, gen |-> 0]
Nowhere == [inode |-> 0, offset |-> 0, gen |-> 0]   \* no offset known
Mixed   == -1     \* the generation of an offset that counts cells of two

Cell == Nat \cup {NL}

CellsAt(p) == contents[file[p].gen].cells

Chars(cells) == ToSet(cells) \ {NL}

(* The elements of a sequence at these positions, in order.                *)
Chosen(seq, set) == [k \in 1..Cardinality(set) |-> seq[Nth(set, k)]]

CharsOf(msgs) == UNION {Chars(msgs[i].cells) : i \in DOMAIN msgs}

(* Everything in the shards' queues: what becomes taken.                   *)
Queued == UNION {CharsOf(queue[s]) : s \in Shards}

Idle == [pc |-> "idle", todo |-> <<>>, inode |-> 0, start |-> 0, size |-> 0,
         lines |-> <<>>, next |-> Nowhere]

Use(what) == used' = [used EXCEPT ![what] = @ + 1]

-----------------------------------------------------------------------------
(* Lines and records.                                                      *)

(* The complete lines of a run of cells, without their newlines; the code  *)
(* leaves an unfinished last line for the next time.                       *)
Ends(cells) == {i \in DOMAIN cells : cells[i] = NL}

LineEnd(cells, n) == IF n = 0 THEN 0 ELSE Nth(Ends(cells), n)

(* Mutant of Lines: the rest after the last newline is taken as a line.    *)
LinesWithRest(cells, max) ==
  LET all == IF cells # <<>> /\ Last(cells) # NL THEN Append(cells, NL) ELSE cells
      n == Min({max, Cardinality(Ends(all))})
  IN  [k \in 1..n |-> SubSeq(all, LineEnd(all, k - 1) + 1, LineEnd(all, k) - 1)]

Lines(cells, max) ==
  LET n == Min({max, Cardinality(Ends(cells))})
  IN  [k \in 1..n |-> SubSeq(cells, LineEnd(cells, k - 1) + 1, LineEnd(cells, k) - 1)]

(* The cells the lines take in the file.                                   *)
Size(lines) ==
  LET upto[n \in 0..Len(lines)] == IF n = 0 THEN 0 ELSE upto[n - 1] + Len(lines[n]) + 1
  IN  upto[Len(lines)]

(* matches_multiline_start: odd characters start a record.                 *)
StartsRecord(line) == line # <<>> /\ line[1] % 2 = 1

(* One line of apply_multiline_records.                                    *)
Gather(line, acc) ==
  LET cut == acc.current # <<>> /\
               (StartsRecord(line) \/ (options.max_lines > 0 /\ acc.count >= options.max_lines))
      cur == IF cut THEN <<>> ELSE acc.current
  IN  [records |-> IF cut THEN Append(acc.records, acc.current) ELSE acc.records,
       current |-> IF cur = <<>> THEN line ELSE Append(cur, NL) \o line,
       count   |-> (IF cut THEN 0 ELSE acc.count) + 1]

ApplyMultiline(lines) ==
  LET upto[n \in 0..Len(lines)] ==
        IF n = 0 THEN [records |-> <<>>, current |-> <<>>, count |-> 0]
        ELSE Gather(lines[n], upto[n - 1])
      acc == upto[Len(lines)]
  IN  IF ~options.multiline THEN lines
      ELSE IF acc.current = <<>> THEN acc.records ELSE Append(acc.records, acc.current)

(* evaluate_source_limits for the k-th record: the bytes of the records    *)
(* before it count, the dropped ones too.                                  *)
WithinLimits(records, k) ==
  LET bytes == Size(SubSeq(records, 1, k)) - k
  IN  /\ options.max_message > 0 => Len(records[k]) <= options.max_message
      /\ options.max_buffer > 0 => bytes <= options.max_buffer

(* evaluate_backpressure: the first measure that is over.                  *)
Decision(gauges) ==
  LET on == {i \in DOMAIN Gauges : Gauges[i] \in gauges}
  IN  IF on = {} THEN "" ELSE Gauges[Min(on)]

(* lines_to_messages: the envelope's source_offset counts on from the      *)
(* first line over the accepted records.  gen is the model's.              *)
Messages(records, first, gen) ==
  [k \in DOMAIN records |->
     [key |-> NoKey, cells |-> records[k], at |-> first + Size(SubSeq(records, 1, k - 1)),
      gen |-> gen]]

-----------------------------------------------------------------------------
(* The other programs.                                                     *)

Others == <<engineVars, options, offsets, stored, src, over, reason, taken, refused, excused>>

(* A character is written,                                                 *)
WriteChar(p) ==
  /\ file[p] # Absent
  /\ used.cells < MaxCells /\ Use("cells")
  /\ contents' = [contents EXCEPT ![file[p].gen].cells = Append(@, used.cells + 1)]
  /\ UNCHANGED <<Others, file>>

(* or a newline, which ends a line or is an empty one.                     *)
EndLine(p) ==
  LET blank == CellsAt(p) = <<>> \/ Last(CellsAt(p)) = NL
  IN  /\ file[p] # Absent
      /\ IF blank THEN used.cells < MaxCells /\ Use("cells") ELSE UNCHANGED used
      /\ contents' = [contents EXCEPT ![file[p].gen].cells = Append(@, NL)]
      /\ UNCHANGED <<Others, file>>

(* A new generation appears at a path: a new file, or the old one cut to   *)
(* nothing.                                                                *)
Renew(p, inode) ==
  /\ contents' = Append(contents, [inode |-> inode, cells |-> <<>>])
  /\ file' = [file EXCEPT ![p] = [inode |-> inode, gen |-> Len(contents) + 1]]
  /\ UNCHANGED Others

Change(p) == file[p] # Absent /\ used.changes < MaxChanges /\ Use("changes")

Rotate(p, inode) == Change(p) /\ inode # file[p].inode /\ Renew(p, inode)

Truncate(p) == Change(p) /\ CellsAt(p) # <<>> /\ Renew(p, file[p].inode)

(* A file that was removed appears again.                                  *)
Create(p, inode) == file[p] = Absent /\ UNCHANGED used /\ Renew(p, inode)

Unlink(p) ==
  /\ Change(p)
  /\ file' = [file EXCEPT ![p] = Absent]
  /\ UNCHANGED <<Others, contents>>

(* Disk use, backlog, failures and latency move.                           *)
Pressure(gauges) ==
  /\ gauges # over
  /\ used.pressure < MaxPressure /\ Use("pressure")
  /\ over' = gauges
  /\ UNCHANGED <<engineVars, options, contents, file, offsets, stored, src, reason,
                 taken, refused, excused>>

-----------------------------------------------------------------------------
(* The loop.  Between two waits it runs alone.                             *)

Rest == <<engineVars, options, contents, file, over, taken, refused>>

Path == Head(src.todo)

(* This path is done: on to the next one; after the last the loop sleeps   *)
(* or starts over.                                                         *)
Onward == IF Len(src.todo) > 1 THEN [Idle EXCEPT !.pc = "stat", !.todo = Tail(src.todo)] ELSE Idle

(* An exception leaves the pass over the paths; the loop sleeps.           *)
Failed == src' = Idle

(* The top of the loop: the paths of this pass.  The stop flag, looked at  *)
(* here too, is module Agent's.                                            *)
Poll ==
  /\ started = "up" /\ src.pc = "idle"
  /\ src' = LET paths == Chosen(Paths, {i \in DOMAIN Paths : Paths[i] \in Fixed
                                                             \/ file[Paths[i]] # Absent})
            IN  IF paths = <<>> THEN Idle ELSE [Idle EXCEPT !.pc = "stat", !.todo = paths]
  /\ UNCHANGED <<Rest, offsets, stored, reason, excused, used>>

(* The path's first turn loads its stored offset; inode_of the path.       *)
Stat ==
  /\ src.pc = "stat"
  /\ offsets' = IF offsets[Path] = Nowhere THEN [offsets EXCEPT ![Path] = stored[Path]] ELSE offsets
  /\ IF file[Path] = Absent THEN Failed
     ELSE src' = [src EXCEPT !.pc = "size", !.inode = file[Path].inode]
  /\ UNCHANGED <<Rest, stored, reason, excused, used>>

(* Mutant of Resumes: the inode is not compared.                           *)
ResumesAnyInode(previous, size) ==
  previous # Nowhere /\ previous.offset <= size

(* Does the file continue where the offset says?                           *)
Resumes(previous, size) ==
  previous # Nowhere /\ previous.inode = src.inode /\ previous.offset <= size

(* The offset after a turn that found no complete line.                    *)
KeepOffset(start, gen) ==
  /\ offsets' = [offsets EXCEPT ![Path] = [inode |-> src.inode, offset |-> start, gen |-> gen]]
  /\ src' = Onward

(* file_size of the path, and where to start reading.                      *)
FileSize ==
  /\ src.pc = "size"
  /\ LET size  == Len(CellsAt(Path))
         start == IF Resumes(offsets[Path], size) THEN offsets[Path].offset ELSE 0
     IN  IF file[Path] = Absent THEN Failed /\ UNCHANGED offsets
         ELSE IF start >= size
         THEN KeepOffset(start, IF start = 0 THEN 0 ELSE offsets[Path].gen)
         ELSE /\ src' = [src EXCEPT !.pc = "read", !.start = start, !.size = size]
              /\ UNCHANGED offsets
  /\ UNCHANGED <<Rest, stored, reason, excused, used>>

(* Open the path and read from start to the size seen before.              *)
Read ==
  /\ src.pc = "read"
  /\ LET cells == SubSeq(CellsAt(Path), src.start + 1, Min({src.size, Len(CellsAt(Path))}))
         lines == Lines(cells, SourceMaxLines)
         gen   == IF src.start = 0 \/ offsets[Path].gen = file[Path].gen
                  THEN file[Path].gen ELSE Mixed
         next  == [inode |-> src.inode, offset |-> src.start + Size(lines), gen |-> gen]
     IN  IF file[Path] = Absent THEN Failed /\ UNCHANGED <<offsets, excused>>
         ELSE /\ excused' = (excused \/ gen = Mixed \/ src.inode # file[Path].inode)
              /\ IF lines = <<>> THEN KeepOffset(src.start, gen)
                 ELSE /\ src' = [src EXCEPT !.pc = "append", !.lines = lines, !.next = next]
                      /\ UNCHANGED offsets
  /\ UNCHANGED <<Rest, stored, reason, used>>

(* append_source_lines up to the wait for the engine.                      *)
AppendLines ==
  /\ src.pc = "append"
  /\ LET records  == ApplyMultiline(src.lines)
         fit      == {k \in DOMAIN records : WithinLimits(records, k)}
         accepted == Chosen(records, fit)
         pause    == Decision(over)
         first    == src.next.offset - Size(src.lines)
     IN  \/ /\ records = <<>>
            /\ src' = [src EXCEPT !.pc = "store"]
            /\ UNCHANGED <<engineVars, reason, refused>>
         \/ /\ records # <<>> /\ pause # ""
            /\ reason' = pause
            /\ Failed
            /\ UNCHANGED <<engineVars, refused>>
         \/ /\ records # <<>> /\ pause = ""
            /\ reason' = ""
            /\ refused' = refused \cup UNION {Chars(records[k]) : k \in DOMAIN records \ fit}
            /\ IF accepted = <<>>
               THEN src' = [src EXCEPT !.pc = "store"] /\ UNCHANGED engineVars
               ELSE /\ src' = [src EXCEPT !.pc = "wait"]
                    /\ \E msgs \in {Messages(accepted, first, src.next.gen)} :
                         AppendBatch(Source, msgs)
  /\ taken' = taken \cup Queued'
  /\ UNCHANGED <<options, contents, file, offsets, stored, over, excused, used>>

(* Mutant of Appended: the future of append_batch is not awaited.          *)
AppendedEarly ==
  /\ src.pc = "wait"
  /\ src' = [src EXCEPT !.pc = "store"]
  /\ UNCHANGED <<Rest, offsets, stored, reason, excused, used>>

(* append_batch returns or throws.                                         *)
Appended ==
  /\ src.pc = "wait" /\ call[Source].pc \in {"ok", "failed"}
  /\ IF call[Source].pc = "ok" THEN src' = [src EXCEPT !.pc = "store"] ELSE Failed
  /\ excused' = (excused \/ call[Source].pc = "failed")
  /\ UNCHANGED <<Rest, offsets, stored, reason, used>>

(* Mutant of Store: the offset in memory is left behind.                   *)
StoreForgets(fails) ==
  /\ src.pc = "store" /\ ~fails
  /\ stored' = [stored EXCEPT ![Path] = src.next]
  /\ src' = Onward
  /\ UNCHANGED <<Rest, offsets, reason, excused, used>>

(* store_source_offset: a temporary file renamed over the old one, so it   *)
(* is the new offset or, with an exception, the old one.                   *)
Store(fails) ==
  /\ src.pc = "store"
  /\ IF fails
     THEN /\ used.mishaps < MaxMishaps /\ Use("mishaps")
          /\ Failed
          /\ excused' = TRUE
          /\ UNCHANGED <<offsets, stored>>
     ELSE /\ stored' = [stored EXCEPT ![Path] = src.next]
          /\ offsets' = [offsets EXCEPT ![Path] = src.next]
          /\ src' = Onward
          /\ UNCHANGED <<excused, used>>
  /\ UNCHANGED <<Rest, reason>>

(* The process dies; it starts again with what is on disk.                 *)
Crash ==
  /\ used.mishaps < MaxMishaps /\ Use("mishaps")
  /\ EngineCrash
  /\ src' = Idle
  /\ offsets' = [p \in PathSet |-> Nowhere]
  /\ reason' = ""
  /\ excused' = TRUE
  /\ UNCHANGED <<options, contents, file, stored, over, taken, refused>>

Boot ==
  /\ Start("hash_modulo", "round_robin", points)
  /\ UNCHANGED <<sourceVars, historyVars>>

(* The shards go on with what they were sent; a flush takes all there is.  *)
EngineStep ==
  /\ \E s \in Shards :
       \/ Deliver(s)
       \/ \E failed \in BOOLEAN : Answer(Source, s, failed)
       \/ Flush(s, Len(queue[s]))
  /\ taken' = taken \cup Queued'
  /\ UNCHANGED <<sourceVars, refused, excused, used>>

SourceStep ==
  Poll \/ Stat \/ FileSize \/ Read \/ AppendLines \/ Appended \/ Store(FALSE)

Init ==
  /\ EngineInit
  /\ options \in Options
  /\ contents = [i \in DOMAIN Paths |-> [inode |-> Min(Inodes) + i - 1, cells |-> <<>>]]
  /\ file = [p \in PathSet |->
               LET i == CHOOSE i \in DOMAIN Paths : Paths[i] = p
               IN  [inode |-> Min(Inodes) + i - 1, gen |-> i]]
  /\ offsets = [p \in PathSet |-> Nowhere]
  /\ stored = [p \in PathSet |-> Nowhere]
  /\ src = Idle
  /\ over = ToSet(Gauges)
  /\ reason = ""
  /\ taken = {} /\ refused = {} /\ excused = FALSE
  /\ used = [cells |-> 0, changes |-> 0, mishaps |-> 0, pressure |-> 0]

Next ==
  \/ \E p \in PathSet :
       \/ WriteChar(p) \/ EndLine(p)
       \/ \E inode \in Inodes : Rotate(p, inode) \/ Create(p, inode)
       \/ Truncate(p) \/ Unlink(p)
  \/ \E gauges \in SUBSET ToSet(Gauges) : Pressure(gauges)
  \/ SourceStep \/ Store(TRUE)
  \/ EngineStep
  \/ Crash \/ Boot

(* The agent is restarted and its loop polls, and the shards go on; how    *)
(* often others write or fail is not assumed.                              *)
Fairness == WF_vars(SourceStep \/ Boot) /\ WF_vars(EngineStep)

Spec == Init /\ [][Next]_vars /\ Fairness

-----------------------------------------------------------------------------
Offset == [inode : Inodes \cup {0}, offset : 0..(2 * MaxCells), gen : Nat \cup {Mixed}]

SourceRecord == [key : {NoKey}, cells : Seq(Cell), at : Nat, gen : Nat \cup {Mixed}]

TypeOK ==
  /\ EngineTypeOK
  /\ options \in Options
  /\ contents \in Seq([inode : Inodes, cells : Seq(Cell)])
  /\ file \in [PathSet -> [inode : Inodes, gen : DOMAIN contents] \cup {Absent}]
  /\ offsets \in [PathSet -> Offset] /\ stored \in [PathSet -> Offset]
  /\ src.pc \in {"idle", "stat", "size", "read", "append", "wait", "store"}
  /\ src.lines \in Seq(Seq(Cell)) /\ src.next \in Offset
  /\ over \subseteq ToSet(Gauges) /\ reason \in ToSet(Gauges) \cup {""}
  /\ taken \subseteq 1..MaxCells /\ refused \subseteq 1..MaxCells

(* An offset on disk never runs ahead of the engine: every character of    *)
(* the file below it was accepted by a shard or dropped by the limits,     *)
(* over failed appends, failed stores, pauses and crashes, rotations and   *)
(* truncations.  What it can not promise is a file that was cut and grew   *)
(* past the offset unseen (the offset's generation is then not the         *)
(* file's).  agent.cc:404-405.                                             *)
StoredCovers ==
  \A p \in PathSet :
    file[p] # Absent /\ stored[p].gen = file[p].gen =>
      \A i \in 1..stored[p].offset : CellsAt(p)[i] # NL => CellsAt(p)[i] \in taken \cup refused

Everything == UNION {ToSet(log[s] \o queue[s]) : s \in Shards}

(* Is a line of this generation empty?                                     *)
HasBlank(gen) ==
  LET cells == contents[gen].cells
  IN  \E i \in DOMAIN cells : cells[i] = NL /\ (i = 1 \/ cells[i - 1] = NL)

(* A record is one or more whole lines of the file and its source_offset   *)
(* is where they start, unless the file was swapped under the read or the  *)
(* limits or the multiline rule dropped something before it: README.md:120,*)
(* only complete lines are submitted.                                      *)
WholeLines ==
  \A m \in Everything :
    m.gen # Mixed /\ refused = {} /\ (options.multiline => ~HasBlank(m.gen)) =>
      LET cells == contents[m.gen].cells
          end == m.at + Len(m.cells)
      IN  /\ end < Len(cells) /\ cells[end + 1] = NL
          /\ m.at > 0 => cells[m.at] = NL
          /\ SubSeq(cells, m.at + 1, end) = m.cells

Copies(c) ==
  LET at(s) == {i \in DOMAIN (log[s] \o queue[s]) : c \in Chars((log[s] \o queue[s])[i].cells)}
  IN  Cardinality(UNION {{s} \X at(s) : s \in Shards})

(* Nothing is collected twice as long as no append or store failed, the    *)
(* process lived and no file was swapped between the look at its inode     *)
(* and the read (agent_support.cc:1146-1161).                              *)
OnceUnlessExcused == ~excused => \A c \in 1..MaxCells : Copies(c) <= 1

CompleteChars(p) ==
  UNION {Chars(SubSeq(CellsAt(p), 1, i)) : i \in Ends(CellsAt(p))}

(* The offset counts cells of an earlier content and the inode does not    *)
(* tell: the file was cut in place, or its successor got its inode number. *)
Deceived(p) ==
  /\ offsets[p].inode = file[p].inode /\ offsets[p].offset > 0 /\ offsets[p].gen # file[p].gen
  /\ offsets[p].gen # Mixed => contents[offsets[p].gen].inode = file[p].inode

CaughtUp ==
  \A p \in PathSet :
    file[p] # Absent => CompleteChars(p) \subseteq taken \cup refused \/ Deceived(p)

Undisturbed == over = {} /\ \A p \in Fixed : file[p] # Absent

(* The loop catches up again and again with everything in complete lines,  *)
(* unless the pressure is on or the configured file missing: no pause,     *)
(* failure, rotation or crash leaves it stuck or past a line, except as    *)
(* Deceived says.                                                          *)
CatchesUp == []<>(Undisturbed => CaughtUp)
=============================================================================
