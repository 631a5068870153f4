---------------------------- MODULE AppendWriter ----------------------------
(***************************************************************************)
(* The byte writer of one shard (append_writer.cc).                        *)
(*                                                                         *)
(* A DMA file is written in whole blocks of Alignment bytes only.  The     *)
(* writer therefore keeps in memory the bytes after the last full block    *)
(* (_tail_chunks), writes full blocks at _write_offset, and, when a caller *)
(* wants the partial block on disk too (force_flush), writes it padded     *)
(* with NULs without advancing the offset, so that the next write of the   *)
(* block replaces it.                                                      *)
(*                                                                         *)
(* One action is one completed call.  A call changes the writer's own      *)
(* fields only when its write completes, so the only thing that can be     *)
(* seen half way through is the file; a call that fails leaves any set of  *)
(* the blocks it was writing behind (the chunks of a buffer are written    *)
(* concurrently), and a process that dies half way through a call is such  *)
(* a failure followed by Crash.                                            *)
(*                                                                         *)
(* What a chunk boundary is does not matter to any of this: a deque of     *)
(* chunks is the sequence of its bytes.                                    *)
(***************************************************************************)
EXTENDS Integers, Sequences

CONSTANTS
  Cells,       \* the bytes a record is made of
  NUL,         \* the byte that pads a partial block
  Alignment,   \* disk_write_dma_alignment(), _alignment
  Batches,     \* the byte strings a caller may append in one call
  MaxBytes     \* bound: bytes appended to one segment

ASSUME CellsAssumption == NUL \notin Cells
ASSUME AlignmentAssumption == Alignment \in Nat \ {0}
ASSUME BatchesAssumption == Batches \subseteq Seq(Cells)
ASSUME MaxBytesAssumption == MaxBytes \in Nat

VARIABLES
  file,          \* the bytes of the file at _file_path, <<>> when there is none
  present,       \* is there a file at _file_path?
  file_open,     \* _file_open
  tail,          \* _tail_chunks; its length is _tail_bytes
  write_offset,  \* _write_offset
  logical_size,  \* _logical_size
  \* History of the calls, for the properties only:
  stream,        \* the bytes this segment was given, in order
  flushed,       \* how many leading bytes of stream a call reported written
  misused        \* a batch was taken by a writer that was closed or sealed

diskVars   == <<file, present>>
memoryVars == <<file_open, tail, write_offset, logical_size>>
ghostVars  == <<stream, flushed, misused>>
vars == <<file, present, file_open, tail, write_offset, logical_size,
          stream, flushed, misused>>

-----------------------------------------------------------------------------
(* Block arithmetic and file contents.                                     *)

Larger(m, n) == IF m > n THEN m ELSE n

(* Mutant of AlignUp: no rounding.                                         *)
AlignUpIdentity(n) == n

AlignUp(n) == IF n % Alignment = 0 THEN n ELSE n + Alignment - (n % Alignment)

AlignDown(n) == (n \div Alignment) * Alignment

(* A buffer of whole blocks: the bytes, then NULs.                         *)
Padded(bytes) ==
  [i \in 1..AlignUp(Len(bytes)) |-> IF i <= Len(bytes) THEN bytes[i] ELSE NUL]

BlockOf(i) == ((i - 1) \div Alignment) + 1

(* The file f after the blocks `done' of buffer reached it at offset, the  *)
(* last of them being block number `last' (0: none did).                   *)
Overwrite(f, offset, buffer, done, last) ==
  LET size == IF last = 0 THEN Len(f)
              ELSE Larger(Len(f), offset + last * Alignment)
  IN  [i \in 1..size |->
         IF i > offset /\ i <= offset + Len(buffer) /\ BlockOf(i - offset) \in done
         THEN buffer[i - offset]
         ELSE IF i <= Len(f) THEN f[i] ELSE NUL]

(* ... after the whole buffer reached it.                                  *)
OverwriteAll(f, offset, buffer) ==
  LET blocks == Len(buffer) \div Alignment
  IN  Overwrite(f, offset, buffer, 1..blocks, blocks)

Truncated(f, size) ==
  [i \in 1..size |-> IF i <= Len(f) THEN f[i] ELSE NUL]

(* write_aligned_buffer when some attempt succeeds: every block is there.  *)
WriteBuffer(offset, buffer) == file' = OverwriteAll(file, offset, buffer)

(* write_aligned_buffer when the last attempt fails: any blocks are there. *)
WriteBufferFails(offset, buffer) ==
  \E last \in 0..(Len(buffer) \div Alignment) :
    \E done \in SUBSET (1..last) :
      /\ last > 0 => last \in done
      /\ file' = Overwrite(file, offset, buffer, done, last)

(* The file once the partial block has been written after the full ones.   *)
WithTail == OverwriteAll(file, write_offset, Padded(tail))

(* The writer can take bytes: it has a file, and its next write goes where *)
(* the segment ends.                                                       *)
Ready == file_open /\ write_offset + Len(tail) = logical_size

-----------------------------------------------------------------------------
Init ==
  /\ file = <<>>
  /\ present = FALSE
  /\ file_open = FALSE
  /\ tail = <<>>
  /\ write_offset = 0
  /\ logical_size = 0
  /\ stream = <<>>
  /\ flushed = 0
  /\ misused = FALSE

(* start: forget the previous segment and open the file, which is created  *)
(* when it is missing and emptied when `truncate' says so.                 *)
Start(truncate) ==
  /\ file_open' = TRUE
  /\ present' = TRUE
  /\ file' = IF truncate /\ ~file_open THEN <<>> ELSE file
  /\ tail' = <<>>
  /\ write_offset' = 0
  /\ logical_size' = 0
  /\ stream' = <<>>
  /\ flushed' = 0
  /\ misused' = FALSE

(* start when open_file fails: the fields are reset, the file is not open. *)
StartFails ==
  /\ ~file_open
  /\ tail' = <<>>
  /\ write_offset' = 0
  /\ logical_size' = 0
  /\ stream' = <<>>
  /\ flushed' = 0
  /\ misused' = FALSE
  /\ UNCHANGED <<diskVars, file_open>>

(* truncate_to: recovery found that the first `size' bytes of the file are *)
(* records.  The bytes after the last full block become the tail again.    *)
TruncateTo(size) ==
  LET kept == Truncated(file, size) IN
  /\ file_open
  /\ file' = kept
  /\ logical_size' = size
  /\ write_offset' = AlignDown(size)
  /\ tail' = SubSeq(kept, AlignDown(size) + 1, size)
  /\ stream' = kept
  /\ flushed' = size
  /\ misused' = FALSE
  /\ UNCHANGED <<present, file_open>>

(* append_batch: write the full blocks of tail and batch, keep the rest.   *)
(* With no full block nothing is written and the file is not even touched. *)
AppendBatch(batch) ==
  LET bytes    == tail \o batch
      writable == AlignDown(Len(bytes))
  IN
  /\ writable > 0 => file_open
  /\ logical_size' = logical_size + Len(batch)
  /\ IF writable > 0
     THEN WriteBuffer(write_offset, SubSeq(bytes, 1, writable))
     ELSE file' = file
  /\ write_offset' = write_offset + writable
  /\ tail' = SubSeq(bytes, writable + 1, Len(bytes))
  /\ stream' = stream \o batch
  /\ flushed' = IF writable > 0 THEN write_offset' ELSE flushed
  /\ misused' = (misused \/ ~Ready)
  /\ UNCHANGED <<present, file_open>>

(* Mutant of AppendBatchFails: the size of a batch that was never counted  *)
(* is taken off.                                                           *)
AppendBatchFailsUncounted(batch) ==
  LET bytes    == tail \o batch
      writable == AlignDown(Len(bytes))
  IN
  /\ writable > 0
  /\ file_open
  /\ WriteBufferFails(write_offset, SubSeq(bytes, 1, writable))
  /\ logical_size' = logical_size - Len(batch)
  /\ UNCHANGED <<present, file_open, tail, write_offset, ghostVars>>

(* Mutant of AppendBatchFails: offset and tail move before the write is    *)
(* known to have completed.                                                *)
AppendBatchFailsAdvanced(batch) ==
  LET bytes    == tail \o batch
      writable == AlignDown(Len(bytes))
  IN
  /\ writable > 0
  /\ file_open
  /\ WriteBufferFails(write_offset, SubSeq(bytes, 1, writable))
  /\ write_offset' = write_offset + writable
  /\ tail' = SubSeq(bytes, writable + 1, Len(bytes))
  /\ UNCHANGED <<present, file_open, logical_size, ghostVars>>

(* append_batch when the write fails: the batch stays with the caller.     *)
AppendBatchFails(batch) ==
  LET bytes    == tail \o batch
      writable == AlignDown(Len(bytes))
  IN
  /\ writable > 0
  /\ file_open
  /\ WriteBufferFails(write_offset, SubSeq(bytes, 1, writable))
  /\ UNCHANGED <<present, memoryVars, ghostVars>>

(* force_flush: write the partial block.  A closed writer reports success. *)
ForceFlush ==
  /\ file' = IF file_open THEN WithTail ELSE file
  /\ flushed' = Len(stream)
  /\ UNCHANGED <<present, memoryVars, stream, misused>>

ForceFlushFails ==
  /\ file_open
  /\ WriteBufferFails(write_offset, Padded(tail))
  /\ UNCHANGED <<present, memoryVars, ghostVars>>

(* flush_tail(closing = true): write the partial block, step over its      *)
(* padding, forget the tail, and cut the padding off the file.  Until the  *)
(* writer is started again it is sealed: its offset is past the end.       *)
FlushTail ==
  /\ file_open
  /\ file' = Truncated(WithTail, logical_size)
  /\ write_offset' = write_offset + AlignUp(Len(tail))
  /\ tail' = <<>>
  /\ flushed' = Len(stream)
  /\ UNCHANGED <<present, file_open, logical_size, stream, misused>>

(* flush_tail(true) failing in its write: only the file may have changed.  *)
FlushTailWriteFails ==
  /\ file_open
  /\ tail # <<>>
  /\ WriteBufferFails(write_offset, Padded(tail))
  /\ UNCHANGED <<present, memoryVars, ghostVars>>

(* flush_tail(true) failing in truncate: the tail has already been         *)
(* forgotten and the offset moved.                                         *)
FlushTailTruncateFails ==
  /\ file_open
  /\ file' = WithTail
  /\ write_offset' = write_offset + AlignUp(Len(tail))
  /\ tail' = <<>>
  /\ UNCHANGED <<present, file_open, logical_size, ghostVars>>

(* Mutant of Close: the tail is not written.                               *)
CloseDropsTail ==
  /\ file_open
  /\ file' = Truncated(file, AlignDown(logical_size))
  /\ tail' = <<>>
  /\ flushed' = Len(stream)
  /\ file_open' = FALSE
  /\ UNCHANGED <<present, write_offset, logical_size, stream, misused>>

(* close: flush_tail(true) once more, then close the file.  When closing   *)
(* the file fails the writer is left sealed (FlushTail).                   *)
Close ==
  /\ file_open
  /\ file' = Truncated(WithTail, logical_size)
  /\ write_offset' = write_offset + AlignUp(Len(tail))
  /\ tail' = <<>>
  /\ flushed' = Len(stream)
  /\ file_open' = FALSE
  /\ UNCHANGED <<present, logical_size, stream, misused>>

(* reset_after_rotation: the next segment starts empty.                    *)
ResetAfterRotation ==
  /\ write_offset' = 0
  /\ logical_size' = 0
  /\ tail' = <<>>
  /\ stream' = <<>>
  /\ flushed' = 0
  /\ misused' = FALSE
  /\ UNCHANGED <<diskVars, file_open>>

(* rotate_active_file renames a closed file away; the segment goes with it. *)
RenameAway ==
  /\ ~file_open
  /\ present
  /\ file' = <<>>
  /\ present' = FALSE
  /\ stream' = <<>>
  /\ flushed' = 0
  /\ UNCHANGED <<memoryVars, misused>>

(* The process dies: its memory is gone, only the file is left.            *)
ProcessForgets ==
  /\ file_open' = FALSE
  /\ tail' = <<>>
  /\ write_offset' = 0
  /\ logical_size' = 0
  /\ stream' = <<>>
  /\ flushed' = 0
  /\ misused' = FALSE

Crash == ProcessForgets /\ UNCHANGED diskVars

Next ==
  \/ \E truncate \in BOOLEAN : Start(truncate)
  \/ StartFails
  \/ \E size \in 0..Len(file) : TruncateTo(size)
  \/ \E batch \in Batches : /\ Len(stream) + Len(batch) <= MaxBytes
                            /\ AppendBatch(batch)
  \/ \E batch \in Batches : /\ Len(stream) + Len(batch) <= MaxBytes
                            /\ AppendBatchFails(batch)
  \/ ForceFlush
  \/ ForceFlushFails
  \/ FlushTail
  \/ FlushTailWriteFails
  \/ FlushTailTruncateFails
  \/ Close
  \/ ResetAfterRotation
  \/ RenameAway
  \/ Crash

Spec == Init /\ [][Next]_vars

-----------------------------------------------------------------------------
TypeOK ==
  /\ file \in Seq(Cells \cup {NUL})
  /\ present \in BOOLEAN
  /\ file_open \in BOOLEAN
  /\ tail \in Seq(Cells \cup {NUL})
  /\ write_offset \in Nat
  /\ logical_size \in Nat
  /\ stream \in Seq(Cells \cup {NUL})
  /\ flushed \in Nat
  /\ misused \in BOOLEAN

(* Every dma_write starts on a block boundary and what is kept in memory   *)
(* is less than a block, however calls succeed, fail and follow each       *)
(* other.  The second part is why flush_tail never takes its chunked path, *)
(* which needs at least two stream buffers of tail.                        *)
OffsetsAligned ==
  /\ write_offset % Alignment = 0
  /\ Len(tail) < Alignment

(* While a file is open, the file up to the write offset followed by the   *)
(* tail is exactly the sequence of bytes appended to the segment: a failed *)
(* append, a padded partial block or a retry neither loses, repeats nor    *)
(* moves a byte.                                                           *)
StreamIntact ==
  ~misused /\ file_open =>
    /\ logical_size = Len(stream)
    /\ Len(tail) <= logical_size
    /\ \A i \in 1..Len(stream) :
         IF i <= write_offset
         THEN i <= Len(file) /\ file[i] = stream[i]
         ELSE i - write_offset <= Len(tail) /\ tail[i - write_offset] = stream[i]

(* What a call reported written is in the file and stays there: rewriting  *)
(* a partial block, even when the rewrite fails half way, never damages    *)
(* the bytes an earlier flush put on disk.                                 *)
ReportedInFile ==
  ~misused =>
    /\ flushed <= Len(stream)
    /\ \A i \in 1..flushed : i <= Len(file) /\ file[i] = stream[i]
=============================================================================
