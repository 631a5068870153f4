------------------------- MODULE AppendWriterProofs -------------------------
(***************************************************************************)
(* Proofs about the byte writer: AppendWriter's invariants hold for every  *)
(* alignment, every set of batches and every order in which its calls      *)
(* succeed, fail and follow each other.                                    *)
(***************************************************************************)
EXTENDS AppendWriter, TLAPS

Bytes == Cells \cup {NUL}

-----------------------------------------------------------------------------
(* Block arithmetic.                                                       *)

(* Dividing by the alignment leaves a quotient and a remainder smaller     *)
(* than a block (append_pending_batch, align_up).                          *)
LEMMA Division ==
  ASSUME NEW n \in Nat
  PROVE  /\ n \div Alignment \in Nat
         /\ n % Alignment \in 0..(Alignment - 1)
         /\ n = (n \div Alignment) * Alignment + (n % Alignment)
BY AlignmentAssumption

(* A number of whole blocks is aligned.                                    *)
LEMMA WholeBlocks ==
  ASSUME NEW k \in Nat
  PROVE  /\ k * Alignment \in Nat
         /\ (k * Alignment) % Alignment = 0
         /\ (k * Alignment) \div Alignment = k
BY AlignmentAssumption

(* The next write offset is aligned when this one and what was written     *)
(* are (flush_chunks_prefix).                                              *)
LEMMA AlignedSum ==
  ASSUME NEW m \in Nat, NEW n \in Nat, m % Alignment = 0, n % Alignment = 0
  PROVE  (m + n) % Alignment = 0
<1> DEFINE j == m \div Alignment
           k == n \div Alignment
<1>1. j \in Nat /\ k \in Nat /\ m = j * Alignment /\ n = k * Alignment
  BY Division, AlignmentAssumption
<1>2. m + n = (j + k) * Alignment
  BY <1>1, AlignmentAssumption
<1>3. j + k \in Nat
  BY <1>1
<1> QED
  BY <1>2, <1>3, WholeBlocks

(* align_up returns whole blocks, and less than one more than was asked.   *)
LEMMA AlignUpBlocks ==
  ASSUME NEW n \in Nat
  PROVE  /\ AlignUp(n) \in Nat
         /\ AlignUp(n) >= n
         /\ AlignUp(n) % Alignment = 0
<1> DEFINE q == n \div Alignment
           r == n % Alignment
<1>1. q \in Nat /\ r \in 0..(Alignment - 1) /\ n = q * Alignment + r
  BY Division
<1>2. CASE r = 0
  BY <1>2 DEF AlignUp
<1>3. CASE r # 0
  <2>1. AlignUp(n) = n + Alignment - r
    BY <1>3 DEF AlignUp
  <2>2. AlignUp(n) = (q + 1) * Alignment
    BY <2>1, <1>1, AlignmentAssumption
  <2>3. AlignUp(n) % Alignment = 0
    BY <2>2, <1>1, WholeBlocks
  <2> QED
    BY <2>1, <2>3, <1>1, AlignmentAssumption
<1> QED
  BY <1>2, <1>3

(* The full blocks of n bytes leave less than a block.                     *)
LEMMA AlignDownBlocks ==
  ASSUME NEW n \in Nat
  PROVE  /\ AlignDown(n) \in Nat
         /\ AlignDown(n) <= n
         /\ n - AlignDown(n) < Alignment
         /\ AlignDown(n) % Alignment = 0
<1>1. n \div Alignment \in Nat /\ AlignDown(n) = (n \div Alignment) * Alignment
  BY Division DEF AlignDown
<1>2. AlignDown(n) \in Nat /\ AlignDown(n) % Alignment = 0
  BY <1>1, WholeBlocks
<1>3. n = AlignDown(n) + (n % Alignment) /\ n % Alignment \in 0..(Alignment - 1)
  BY <1>1, Division
<1> QED
  BY <1>2, <1>3, AlignmentAssumption

(* A positive number of whole blocks is at least one block.                *)
LEMMA AtLeastOneBlock ==
  ASSUME NEW n \in Nat, n % Alignment = 0, n > 0
  PROVE  n >= Alignment
<1>1. n \div Alignment \in Nat /\ n = (n \div Alignment) * Alignment
  BY Division, AlignmentAssumption
<1>2. n \div Alignment # 0
  BY <1>1, AlignmentAssumption
<1> QED
  BY <1>1, <1>2, AlignmentAssumption

(* Each byte of whole blocks is in one of them.                            *)
LEMMA BlockOfByte ==
  ASSUME NEW m \in Nat, NEW i \in 1..(m * Alignment)
  PROVE  BlockOf(i) \in 1..m
BY AlignmentAssumption DEF BlockOf

-----------------------------------------------------------------------------
(* File contents.                                                          *)

(* g is the file f with the blocks `done' of buffer written at offset: no  *)
(* byte before the offset differs, and one after it that does is the       *)
(* buffer's.                                                               *)
WrittenOver(g, f, offset, buffer, done, last) ==
  /\ g \in Seq(Bytes)
  /\ Len(g) >= Len(f)
  /\ last > 0 => Len(g) >= offset + last * Alignment
  /\ \A i \in 1..Len(f) :
       \/ g[i] = f[i]
       \/ i > offset /\ i <= offset + Len(buffer) /\ g[i] = buffer[i - offset]
  /\ \A i \in 1..Len(g) :
       i > offset /\ i <= offset + Len(buffer) /\ BlockOf(i - offset) \in done
       => g[i] = buffer[i - offset]

(* That is what a write leaves behind, whole or interrupted                *)
(* (write_aligned_buffer).                                                 *)
LEMMA OverwriteKeeps ==
  ASSUME NEW f \in Seq(Bytes), NEW offset \in Nat, NEW buffer \in Seq(Bytes),
         NEW last \in Nat, NEW done
  PROVE  WrittenOver(Overwrite(f, offset, buffer, done, last), f, offset, buffer, done, last)
<1> DEFINE size == IF last = 0 THEN Len(f) ELSE Larger(Len(f), offset + last * Alignment)
           byte(i) == IF i > offset /\ i <= offset + Len(buffer)
                         /\ BlockOf(i - offset) \in done
                      THEN buffer[i - offset]
                      ELSE IF i <= Len(f) THEN f[i] ELSE NUL
           g == Overwrite(f, offset, buffer, done, last)
<1>1. last * Alignment \in Nat
  BY WholeBlocks
<1>2. /\ size \in Nat
      /\ size >= Len(f)
      /\ last > 0 => size >= offset + last * Alignment
  BY <1>1 DEF Larger
<1>3. ASSUME NEW i \in 1..size
      PROVE  byte(i) \in Bytes
  BY <1>2 DEF Bytes
<1> HIDE DEF size, byte
<1>4. g = [i \in 1..size |-> byte(i)]
  BY DEF Overwrite, size, byte
<1> HIDE DEF g
<1>5. g \in Seq(Bytes) /\ Len(g) = size
  BY <1>2, <1>3, <1>4
<1>6. \A i \in 1..size : g[i] = byte(i)
  BY <1>4
<1>7. \A i \in 1..Len(f) :
        \/ g[i] = f[i]
        \/ i > offset /\ i <= offset + Len(buffer) /\ g[i] = buffer[i - offset]
  BY <1>2, <1>6 DEF byte
<1>8. \A i \in 1..Len(g) :
        i > offset /\ i <= offset + Len(buffer) /\ BlockOf(i - offset) \in done
        => g[i] = buffer[i - offset]
  BY <1>5, <1>6 DEF byte
<1> QED
  BY <1>2, <1>5, <1>7, <1>8 DEF WrittenOver, g

(* When every block is written, the buffer is in the file at its offset.   *)
WrittenWhole(g, offset, buffer) ==
  \A j \in 1..Len(buffer) : offset + j <= Len(g) /\ g[offset + j] = buffer[j]

(* A write that succeeds writes every block (write_aligned_buffer).        *)
LEMMA OverwriteWhole ==
  ASSUME NEW f \in Seq(Bytes), NEW offset \in Nat, NEW buffer \in Seq(Bytes),
         Len(buffer) % Alignment = 0
  PROVE  LET g == OverwriteAll(f, offset, buffer) IN
         /\ WrittenWhole(g, offset, buffer)
         /\ \E done, last : WrittenOver(g, f, offset, buffer, done, last)
<1> DEFINE blocks == Len(buffer) \div Alignment
           done   == 1..blocks
           g      == OverwriteAll(f, offset, buffer)
<1>1. Len(buffer) \in Nat
  OBVIOUS
<1>2. blocks \in Nat /\ Len(buffer) = blocks * Alignment + 0
  BY <1>1, Division
<1>a. g = Overwrite(f, offset, buffer, done, blocks)
  BY DEF OverwriteAll
<1> HIDE DEF blocks, done, g
<1>3. WrittenOver(g, f, offset, buffer, done, blocks)
  BY <1>2, <1>a, OverwriteKeeps
<1> SUFFICES ASSUME NEW j \in 1..Len(buffer)
             PROVE  offset + j <= Len(g) /\ g[offset + j] = buffer[j]
  BY <1>3 DEF WrittenWhole, g
<1>4. Len(buffer) = blocks * Alignment
  BY <1>2, WholeBlocks
<1>5. BlockOf(j) \in done /\ BlockOf(j) \in 1..blocks
  BY <1>2, <1>4, BlockOfByte DEF done
<1>6. blocks > 0
  BY <1>5, <1>2
<1>7. Len(g) \in Nat /\ Len(g) >= offset + blocks * Alignment
  BY <1>3, <1>6 DEF WrittenOver
<1>8. Len(g) >= offset + Len(buffer)
  BY <1>4, <1>7
<1> DEFINE i == offset + j
<1>9. i \in 1..Len(g) /\ i > offset /\ i <= offset + Len(buffer) /\ i - offset = j
  BY <1>1, <1>7, <1>8
<1> HIDE DEF i
<1>10. g[i] = buffer[j]
  BY <1>3, <1>5, <1>9 DEF WrittenOver
<1> QED
  BY <1>9, <1>10 DEF i

(* A padded buffer starts with its bytes and fills whole blocks.           *)
LEMMA PaddedBytes ==
  ASSUME NEW bytes \in Seq(Bytes)
  PROVE  /\ Padded(bytes) \in Seq(Bytes)
         /\ Len(Padded(bytes)) = AlignUp(Len(bytes))
         /\ Len(Padded(bytes)) % Alignment = 0
         /\ \A j \in 1..Len(bytes) : j <= Len(Padded(bytes)) /\ Padded(bytes)[j] = bytes[j]
<1>1. AlignUp(Len(bytes)) \in Nat /\ AlignUp(Len(bytes)) >= Len(bytes)
      /\ AlignUp(Len(bytes)) % Alignment = 0
  BY AlignUpBlocks
<1> QED
  BY <1>1 DEF Padded, Bytes

(* truncate keeps the bytes before the new end.                            *)
LEMMA TruncatedBytes ==
  ASSUME NEW f \in Seq(Bytes), NEW size \in Nat
  PROVE  /\ Truncated(f, size) \in Seq(Bytes)
         /\ Len(Truncated(f, size)) = size
         /\ \A i \in 1..size : i <= Len(f) => Truncated(f, size)[i] = f[i]
BY DEF Truncated, Bytes

-----------------------------------------------------------------------------
(* The inductive invariant.                                                *)

(* StreamIntact with what makes it inductive: the writer's next write goes *)
(* where the segment ends, unless it is sealed; then it has no tail.       *)
OpenIntact ==
  ~misused /\ file_open =>
    /\ logical_size = Len(stream)
    /\ logical_size <= write_offset + Len(tail)
    /\ tail # <<>> => logical_size = write_offset + Len(tail)
    /\ \A i \in 1..Len(stream) :
         /\ i <= write_offset => i <= Len(file) /\ file[i] = stream[i]
         /\ i > write_offset => tail[i - write_offset] = stream[i]

(* A closed writer has written all it was given: force_flush may say so.   *)
ClosedWritten == ~misused /\ ~file_open => flushed = Len(stream)

IndInv == TypeOK /\ OffsetsAligned /\ OpenIntact /\ ClosedWritten /\ ReportedInFile

(* The inductive invariant implies the properties.                         *)
LEMMA IndInvImplies ==
  IndInv => TypeOK /\ OffsetsAligned /\ StreamIntact /\ ReportedInFile
<1> SUFFICES ASSUME IndInv, ~misused, file_open
             PROVE  /\ logical_size = Len(stream)
                    /\ Len(tail) <= logical_size
                    /\ \A i \in 1..Len(stream) :
                         IF i <= write_offset
                         THEN i <= Len(file) /\ file[i] = stream[i]
                         ELSE /\ i - write_offset <= Len(tail)
                              /\ tail[i - write_offset] = stream[i]
  BY DEF IndInv, StreamIntact
<1>1. write_offset \in Nat /\ logical_size \in Nat /\ Len(tail) \in Nat /\ Len(stream) \in Nat
  BY DEF IndInv, TypeOK
<1>2. tail = <<>> => Len(tail) = 0
  OBVIOUS
<1> QED
  BY <1>1, <1>2 DEF IndInv, OpenIntact

(* A file that differs from the old one only in bytes of the tail, where   *)
(* they belong, keeps every part of the invariant: why a failed write does *)
(* no harm (write_aligned_buffer after its last attempt).                  *)
LEMMA HarmlessWrite ==
  ASSUME IndInv,
         NEW buffer \in Seq(Bytes),
         Len(buffer) >= Len(tail),
         \A j \in 1..Len(tail) : buffer[j] = tail[j],
         file_open,
         WriteBufferFails(write_offset, buffer),
         UNCHANGED <<present, memoryVars, ghostVars>>
  PROVE  IndInv'
<1>1. /\ file \in Seq(Bytes) /\ tail \in Seq(Bytes) /\ stream \in Seq(Bytes)
      /\ write_offset \in Nat /\ logical_size \in Nat /\ flushed \in Nat
      /\ Len(tail) \in Nat /\ Len(stream) \in Nat /\ Len(file) \in Nat
      /\ Len(buffer) \in Nat
  BY DEF IndInv, TypeOK, Bytes
<1>a. PICK last \in 0..(Len(buffer) \div Alignment) :
        \E done \in SUBSET (1..last) :
          file' = Overwrite(file, write_offset, buffer, done, last)
  BY DEF WriteBufferFails
<1>2. PICK done \in SUBSET (1..last) :
        file' = Overwrite(file, write_offset, buffer, done, last)
  BY <1>a
<1>3. last \in Nat
  BY <1>1, Division
<1>4. WrittenOver(file', file, write_offset, buffer, done, last)
  BY <1>1, <1>2, <1>3, OverwriteKeeps
<1>5. file' \in Seq(Bytes) /\ Len(file') \in Nat /\ Len(file') >= Len(file)
  BY <1>4 DEF WrittenOver
<1>6. ASSUME NEW i \in 1..Len(file), i <= write_offset
      PROVE  file'[i] = file[i]
  BY <1>1, <1>4, <1>6 DEF WrittenOver
<1>7. UNCHANGED <<present, file_open, tail, write_offset, logical_size, stream, flushed, misused>>
  BY DEF memoryVars, ghostVars
<1>8. TypeOK' /\ OffsetsAligned' /\ ClosedWritten'
  BY <1>5, <1>7 DEF IndInv, TypeOK, OffsetsAligned, ClosedWritten, Bytes
<1>9. OpenIntact'
  BY <1>1, <1>5, <1>6, <1>7 DEF IndInv, OpenIntact
<1>10. ReportedInFile'
  <2> SUFFICES ASSUME ~misused, NEW i \in 1..flushed
               PROVE  i <= Len(file') /\ file'[i] = stream[i]
    BY <1>1, <1>7 DEF IndInv, ReportedInFile
  <2>1. i \in 1..Len(file) /\ file[i] = stream[i] /\ i \in 1..Len(stream)
    BY <1>1 DEF IndInv, ReportedInFile
  <2>2. CASE file'[i] = file[i]
    BY <2>1, <2>2, <1>1, <1>5
  <2>3. CASE i > write_offset /\ file'[i] = buffer[i - write_offset]
    <3>1. tail[i - write_offset] = stream[i] /\ i <= write_offset + Len(tail)
      BY <2>1, <2>3, <1>1 DEF IndInv, OpenIntact
    <3>2. i - write_offset \in 1..Len(tail)
      BY <3>1, <2>3, <1>1
    <3> QED
      BY <3>1, <3>2, <2>1, <2>3, <1>1, <1>5
  <2> QED
    BY <2>1, <2>2, <2>3, <1>4 DEF WrittenOver
<1> QED
  BY <1>8, <1>9, <1>10 DEF IndInv

(* The file with the partial block written holds the tail where it belongs *)
(* and is otherwise as it was (force_flush, flush_tail).                   *)
LEMMA WithTailBytes ==
  ASSUME TypeOK
  PROVE  /\ WithTail \in Seq(Bytes)
         /\ Len(WithTail) >= Len(file)
         /\ \A i \in 1..Len(file) : i <= write_offset => WithTail[i] = file[i]
         /\ \A j \in 1..Len(tail) :
              /\ write_offset + j <= Len(WithTail)
              /\ WithTail[write_offset + j] = tail[j]
<1> DEFINE buffer == Padded(tail)
<1>1. /\ file \in Seq(Bytes) /\ tail \in Seq(Bytes) /\ write_offset \in Nat
      /\ Len(tail) \in Nat /\ Len(file) \in Nat
  BY DEF TypeOK, Bytes
<1>2. /\ buffer \in Seq(Bytes) /\ Len(buffer) % Alignment = 0
      /\ \A j \in 1..Len(tail) : j <= Len(buffer) /\ buffer[j] = tail[j]
  BY <1>1, PaddedBytes
<1>3. WithTail = OverwriteAll(file, write_offset, buffer)
  BY DEF WithTail
<1> HIDE DEF buffer
<1>4. WrittenWhole(WithTail, write_offset, buffer)
  BY <1>1, <1>2, <1>3, OverwriteWhole
<1>5. PICK done, last : WrittenOver(WithTail, file, write_offset, buffer, done, last)
  BY <1>1, <1>2, <1>3, OverwriteWhole
<1>6. \A j \in 1..Len(tail) :
        write_offset + j <= Len(WithTail) /\ WithTail[write_offset + j] = tail[j]
  BY <1>1, <1>2, <1>4 DEF WrittenWhole
<1>7. \A i \in 1..Len(file) : i <= write_offset => WithTail[i] = file[i]
  BY <1>1, <1>5 DEF WrittenOver
<1> QED
  BY <1>5, <1>6, <1>7 DEF WrittenOver

(* Where an unmisused writer has a file, that file has the whole segment   *)
(* once the partial block is written.                                      *)
LEMMA WithTailComplete ==
  ASSUME IndInv, ~misused, file_open
  PROVE  \A i \in 1..Len(stream) : i <= Len(WithTail) /\ WithTail[i] = stream[i]
<1>1. /\ write_offset \in Nat /\ Len(tail) \in Nat /\ Len(stream) \in Nat
      /\ Len(file) \in Nat /\ TypeOK
  BY DEF IndInv, TypeOK
<1> SUFFICES ASSUME NEW i \in 1..Len(stream)
             PROVE  i <= Len(WithTail) /\ WithTail[i] = stream[i]
  OBVIOUS
<1>2. Len(WithTail) \in Nat /\ Len(WithTail) >= Len(file)
  BY <1>1, WithTailBytes
<1>3. CASE i <= write_offset
  <2>1. i \in 1..Len(file) /\ file[i] = stream[i]
    BY <1>1, <1>3 DEF IndInv, OpenIntact
  <2> QED
    BY <2>1, <1>1, <1>2, <1>3, WithTailBytes
<1>4. CASE i > write_offset
  <2> DEFINE j == i - write_offset
  <2>1. tail[j] = stream[i] /\ Len(stream) <= write_offset + Len(tail)
    BY <1>1, <1>4 DEF IndInv, OpenIntact
  <2>2. j \in 1..Len(tail) /\ write_offset + j = i
    BY <2>1, <1>1, <1>4
  <2> HIDE DEF j
  <2> QED
    BY <2>1, <2>2, <1>1, WithTailBytes
<1> QED
  BY <1>1, <1>3, <1>4

-----------------------------------------------------------------------------
(* Each call preserves the invariant.                                      *)

(* The calls that begin a segment anew leave nothing to be wrong.          *)
LEMMA FreshSegment ==
  ASSUME file' \in Seq(Bytes), present' \in BOOLEAN, file_open' \in BOOLEAN,
         tail' = <<>>, write_offset' = 0, logical_size' = 0,
         stream' = <<>>, flushed' = 0, misused' = FALSE
  PROVE  IndInv'
<1>1. TypeOK'
  <2>1. <<>> \in Seq(Bytes)
    OBVIOUS
  <2> QED
    BY <2>1 DEF TypeOK, Bytes
<1>2. OffsetsAligned'
  BY AlignmentAssumption DEF OffsetsAligned
<1>3. OpenIntact' /\ ClosedWritten' /\ ReportedInFile'
  BY DEF OpenIntact, ClosedWritten, ReportedInFile
<1> QED
  BY <1>1, <1>2, <1>3 DEF IndInv

(* start(reset) on a closed writer opens the file and forgets the tail.    *)
LEMMA StartInv ==
  ASSUME IndInv, NEW truncate \in BOOLEAN, Start(truncate)
  PROVE  IndInv'
<1>1. file' \in Seq(Bytes)
  BY DEF IndInv, TypeOK, Start, Bytes
<1> QED
  BY <1>1, FreshSegment DEF Start

(* start whose open fails leaves a closed writer.                          *)
LEMMA StartFailsInv == IndInv /\ StartFails => IndInv'
BY FreshSegment DEF IndInv, TypeOK, StartFails, diskVars, Bytes

(* reset_after_rotation sets the offsets of an empty segment.              *)
LEMMA ResetAfterRotationInv == IndInv /\ ResetAfterRotation => IndInv'
BY FreshSegment DEF IndInv, TypeOK, ResetAfterRotation, diskVars, Bytes

(* A crash forgets the tail; the file's bytes stay.                        *)
LEMMA CrashInv == IndInv /\ Crash => IndInv'
BY FreshSegment DEF IndInv, TypeOK, Crash, ProcessForgets, diskVars, Bytes

(* append_batch that throws has changed only blocks beyond the offset.     *)
LEMMA AppendBatchFailsInv ==
  ASSUME IndInv, NEW batch \in Seq(Cells), AppendBatchFails(batch)
  PROVE  IndInv'
<1> DEFINE bytes    == tail \o batch
           writable == AlignDown(Len(bytes))
           buffer   == SubSeq(bytes, 1, writable)
<1>1. tail \in Seq(Bytes) /\ batch \in Seq(Bytes) /\ Len(tail) < Alignment
  BY DEF IndInv, TypeOK, OffsetsAligned, Bytes
<1>2. /\ bytes \in Seq(Bytes) /\ Len(bytes) \in Nat
      /\ \A j \in 1..Len(tail) : bytes[j] = tail[j]
  BY <1>1
<1>3. writable \in Nat /\ writable <= Len(bytes) /\ writable % Alignment = 0 /\ writable > 0
  BY <1>2, AlignDownBlocks DEF AppendBatchFails
<1>4. writable >= Alignment
  BY <1>3, AtLeastOneBlock
<1>5. /\ WriteBufferFails(write_offset, buffer) /\ file_open
      /\ UNCHANGED <<present, memoryVars, ghostVars>>
  BY DEF AppendBatchFails
<1> HIDE DEF bytes, writable
<1>6. buffer \in Seq(Bytes) /\ Len(buffer) = writable
      /\ \A j \in 1..writable : buffer[j] = bytes[j]
  BY <1>2, <1>3
<1>7. Len(buffer) >= Len(tail)
  BY <1>1, <1>4, <1>6, AlignmentAssumption
<1>8. \A j \in 1..Len(tail) : buffer[j] = tail[j]
  BY <1>1, <1>2, <1>6, <1>7
<1> HIDE DEF buffer
<1> QED
  BY <1>5, <1>6, <1>7, <1>8, HarmlessWrite

(* Writing the padded tail fails: force_flush or flush_tail.               *)
LEMMA TailWriteFailsInv ==
  ASSUME IndInv, file_open, WriteBufferFails(write_offset, Padded(tail)),
         UNCHANGED <<present, memoryVars, ghostVars>>
  PROVE  IndInv'
<1>1. tail \in Seq(Bytes)
  BY DEF IndInv, TypeOK, Bytes
<1>2. /\ Padded(tail) \in Seq(Bytes)
      /\ Len(Padded(tail)) >= Len(tail)
      /\ \A j \in 1..Len(tail) : Padded(tail)[j] = tail[j]
  BY <1>1, PaddedBytes, AlignUpBlocks
<1> QED
  BY <1>2, HarmlessWrite

(* force_flush writes the tail padded and keeps it for the next batch.     *)
LEMMA ForceFlushInv == IndInv /\ ForceFlush => IndInv'
<1> SUFFICES ASSUME IndInv, ForceFlush
             PROVE  IndInv'
  OBVIOUS
<1>1. /\ write_offset \in Nat /\ Len(stream) \in Nat /\ Len(file) \in Nat /\ TypeOK
      /\ UNCHANGED <<present, file_open, tail, write_offset, logical_size, stream, misused>>
      /\ flushed' = Len(stream)
  BY DEF IndInv, TypeOK, ForceFlush, memoryVars
<1>2. CASE ~file_open
  <2>1. file' = file
    BY <1>2 DEF ForceFlush
  <2>2. TypeOK' /\ OffsetsAligned' /\ OpenIntact' /\ ClosedWritten'
    BY <2>1, <1>1, <1>2 DEF IndInv, TypeOK, OffsetsAligned, OpenIntact, ClosedWritten
  <2>3. ReportedInFile'
    BY <2>1, <1>1, <1>2 DEF IndInv, ReportedInFile, ClosedWritten
  <2> QED
    BY <2>2, <2>3 DEF IndInv
<1>3. CASE file_open
  <2>1. file' = WithTail
    BY <1>3 DEF ForceFlush
  <2>2. TypeOK' /\ OffsetsAligned' /\ ClosedWritten'
    BY <2>1, <1>1, <1>3, WithTailBytes
    DEF IndInv, TypeOK, OffsetsAligned, ClosedWritten, Bytes
  <2>3. OpenIntact' /\ ReportedInFile'
    BY <2>1, <1>1, <1>3, WithTailComplete DEF IndInv, OpenIntact, ReportedInFile
  <2> QED
    BY <2>2, <2>3 DEF IndInv
<1> QED
  BY <1>2, <1>3

(* A writer that has written its tail and moved its offset past it keeps   *)
(* the invariant, whatever is left of the padding (flush_tail(true)).      *)
LEMMA SealedInv ==
  ASSUME IndInv, file_open,
         file' \in Seq(Bytes),
         ~misused => \A i \in 1..Len(stream) : i <= Len(file') /\ file'[i] = stream[i],
         present' = present, file_open' \in BOOLEAN,
         write_offset' = write_offset + AlignUp(Len(tail)), tail' = <<>>,
         logical_size' = logical_size, stream' = stream, misused' = misused,
         flushed' \in {flushed, Len(stream)},
         ~file_open' => flushed' = Len(stream)
  PROVE  IndInv'
<1>a. /\ write_offset \in Nat /\ Len(tail) \in Nat /\ Len(stream) \in Nat
      /\ logical_size \in Nat /\ flushed \in Nat
  BY DEF IndInv, TypeOK
<1>1. /\ write_offset \in Nat /\ Len(tail) \in Nat /\ Len(stream) \in Nat
      /\ logical_size \in Nat /\ flushed \in Nat
      /\ AlignUp(Len(tail)) \in Nat /\ AlignUp(Len(tail)) >= Len(tail)
  BY <1>a, AlignUpBlocks
<1>2. TypeOK'
  <2>1. <<>> \in Seq(Bytes)
    OBVIOUS
  <2> QED
    BY <2>1, <1>1 DEF IndInv, TypeOK, Bytes
<1>3. OffsetsAligned'
  <2>1. Len(tail) \in Nat /\ AlignUp(Len(tail)) % Alignment = 0 /\ write_offset % Alignment = 0
    BY <1>1, AlignUpBlocks DEF IndInv, OffsetsAligned
  <2>2. write_offset' % Alignment = 0
    BY <2>1, <1>1, AlignedSum
  <2>3. Len(tail') = 0
    OBVIOUS
  <2> QED
    BY <2>2, <2>3, AlignmentAssumption DEF OffsetsAligned
<1>4. ~misused => logical_size = Len(stream) /\ Len(stream) <= write_offset'
  BY <1>1 DEF IndInv, OpenIntact
<1>5. write_offset' \in Nat /\ Len(tail') = 0
  BY <1>1
<1>6. OpenIntact'
  BY <1>1, <1>4, <1>5 DEF OpenIntact
<1>7. ClosedWritten'
  BY DEF ClosedWritten
<1>8. ReportedInFile'
  <2>1. ~misused => flushed' \in Nat /\ flushed' <= Len(stream)
    BY <1>1 DEF IndInv, ReportedInFile
  <2> QED
    BY <2>1, <1>1 DEF ReportedInFile
<1> QED
  BY <1>2, <1>3, <1>6, <1>7, <1>8 DEF IndInv

(* Cutting the padding off leaves the segment.                             *)
LEMMA TailTruncated ==
  ASSUME IndInv, file_open, file' = Truncated(WithTail, logical_size)
  PROVE  /\ file' \in Seq(Bytes)
         /\ ~misused => \A i \in 1..Len(stream) : i <= Len(file') /\ file'[i] = stream[i]
<1>1. logical_size \in Nat /\ TypeOK /\ Len(stream) \in Nat
  BY DEF IndInv, TypeOK
<1>2. WithTail \in Seq(Bytes)
  BY <1>1, WithTailBytes
<1>3. /\ file' \in Seq(Bytes) /\ Len(file') = logical_size
      /\ \A i \in 1..logical_size : i <= Len(WithTail) => file'[i] = WithTail[i]
  BY <1>1, <1>2, TruncatedBytes
<1>4. ~misused => logical_size = Len(stream)
  BY DEF IndInv, OpenIntact
<1> QED
  BY <1>1, <1>3, <1>4, WithTailComplete

(* flush_tail writes the tail and truncates the padding away.              *)
LEMMA FlushTailInv == IndInv /\ FlushTail => IndInv'
BY SealedInv, TailTruncated DEF FlushTail, IndInv, TypeOK

(* close seals the segment and forgets the file.                           *)
LEMMA CloseInv == IndInv /\ Close => IndInv'
BY SealedInv, TailTruncated DEF Close

(* flush_tail whose truncate throws leaves a sealed segment.               *)
LEMMA FlushTailTruncateFailsInv == IndInv /\ FlushTailTruncateFails => IndInv'
<1> SUFFICES ASSUME IndInv, FlushTailTruncateFails
             PROVE  IndInv'
  OBVIOUS
<1>1. TypeOK /\ file_open
  BY DEF IndInv, FlushTailTruncateFails
<1>2. /\ file' \in Seq(Bytes)
      /\ ~misused => \A i \in 1..Len(stream) : i <= Len(file') /\ file'[i] = stream[i]
  BY <1>1, WithTailBytes, WithTailComplete DEF FlushTailTruncateFails
<1> QED
  BY <1>1, <1>2, SealedInv DEF FlushTailTruncateFails, ghostVars, IndInv, TypeOK

(* The rename of a rotation takes the bytes of a closed file away.         *)
LEMMA RenameAwayInv == IndInv /\ RenameAway => IndInv'
<1> SUFFICES ASSUME IndInv, RenameAway
             PROVE  IndInv'
  OBVIOUS
<1>1. <<>> \in Seq(Bytes) /\ Len(<<>>) = 0
  OBVIOUS
<1>2. TypeOK' /\ OffsetsAligned'
  BY <1>1 DEF RenameAway, IndInv, TypeOK, OffsetsAligned, memoryVars, Bytes
<1>3. OpenIntact' /\ ClosedWritten' /\ ReportedInFile'
  BY <1>1 DEF RenameAway, OpenIntact, ClosedWritten, ReportedInFile, memoryVars
<1> QED
  BY <1>2, <1>3 DEF IndInv

(* truncate_to cuts the file at the size that recovery found.              *)
LEMMA TruncateToInv ==
  ASSUME IndInv, NEW size \in Nat, TruncateTo(size)
  PROVE  IndInv'
<1> DEFINE kept == Truncated(file, size)
           full == AlignDown(size)
<1>1. kept \in Seq(Bytes) /\ Len(kept) = size
  BY TruncatedBytes DEF IndInv, TypeOK, Bytes
<1>2. full \in Nat /\ full <= size /\ size - full < Alignment /\ full % Alignment = 0
  BY AlignDownBlocks
<1>3. /\ file' = kept /\ stream' = kept /\ tail' = SubSeq(kept, full + 1, size)
      /\ logical_size' = size /\ write_offset' = full /\ flushed' = size /\ misused' = FALSE
      /\ file_open' = file_open /\ present' = present /\ file_open
  BY DEF TruncateTo
<1> HIDE DEF kept, full
<1>4. /\ tail' \in Seq(Bytes) /\ Len(tail') = size - full
      /\ \A j \in 1..(size - full) : tail'[j] = kept[full + j]
  BY <1>1, <1>2, <1>3
<1>5. TypeOK'
  BY <1>1, <1>2, <1>3, <1>4 DEF IndInv, TypeOK, Bytes
<1>6. OffsetsAligned'
  BY <1>2, <1>3, <1>4 DEF OffsetsAligned
<1>7. ASSUME NEW i \in 1..size, i > full
      PROVE  tail'[i - full] = kept[i]
  <2>1. i - full \in 1..(size - full) /\ full + (i - full) = i
    BY <1>2, <1>7
  <2> QED
    BY <2>1, <1>4
<1>8. OpenIntact'
  BY <1>1, <1>2, <1>3, <1>4, <1>7 DEF OpenIntact
<1>9. ClosedWritten' /\ ReportedInFile'
  BY <1>1, <1>3 DEF ClosedWritten, ReportedInFile
<1> QED
  BY <1>5, <1>6, <1>8, <1>9 DEF IndInv

(* append_batch writes the full blocks and keeps the rest as tail.         *)
LEMMA AppendBatchInv ==
  ASSUME IndInv, NEW batch \in Seq(Cells), AppendBatch(batch)
  PROVE  IndInv'
<1> DEFINE bytes    == tail \o batch
           writable == AlignDown(Len(bytes))
           buffer   == SubSeq(bytes, 1, writable)
<1>1. /\ file \in Seq(Bytes) /\ tail \in Seq(Bytes) /\ stream \in Seq(Bytes)
      /\ batch \in Seq(Bytes)
      /\ write_offset \in Nat /\ logical_size \in Nat /\ flushed \in Nat
      /\ present \in BOOLEAN /\ file_open \in BOOLEAN /\ misused \in BOOLEAN
      /\ write_offset % Alignment = 0
  BY DEF IndInv, TypeOK, OffsetsAligned, Bytes
<1>2. /\ Len(file) \in Nat /\ Len(tail) \in Nat /\ Len(stream) \in Nat /\ Len(batch) \in Nat
  BY <1>1
<1>3. /\ bytes \in Seq(Bytes) /\ Len(bytes) = Len(tail) + Len(batch)
      /\ \A j \in 1..Len(tail) : bytes[j] = tail[j]
      /\ \A j \in 1..Len(batch) : bytes[Len(tail) + j] = batch[j]
  BY <1>1
<1>a. Len(bytes) \in Nat
  BY <1>2, <1>3
<1> HIDE DEF bytes
<1>4. /\ writable \in Nat /\ writable <= Len(bytes) /\ Len(bytes) - writable < Alignment
      /\ writable % Alignment = 0
  BY <1>a, AlignDownBlocks
<1>5. /\ logical_size' = logical_size + Len(batch)
      /\ write_offset' = write_offset + writable
      /\ tail' = SubSeq(bytes, writable + 1, Len(bytes))
      /\ stream' = stream \o batch
      /\ flushed' = IF writable > 0 THEN write_offset' ELSE flushed
      /\ misused' = (misused \/ ~Ready)
      /\ present' = present /\ file_open' = file_open
      /\ writable > 0 => file' = OverwriteAll(file, write_offset, buffer)
      /\ ~(writable > 0) => file' = file
  BY DEF AppendBatch, WriteBuffer, bytes
<1> HIDE DEF writable
<1>6. /\ tail' \in Seq(Bytes) /\ Len(tail') = Len(bytes) - writable
      /\ \A j \in 1..(Len(bytes) - writable) : tail'[j] = bytes[writable + j]
  <2>1. tail' = SubSeq(bytes, writable + 1, Len(bytes))
    BY <1>5
  <2>2. bytes \in Seq(Bytes) /\ Len(bytes) \in Nat /\ writable \in Nat /\ writable <= Len(bytes)
    BY <1>3, <1>4, <1>a
  <2> QED
    BY <2>1, <2>2
<1>7. /\ stream' \in Seq(Bytes) /\ Len(stream') = Len(stream) + Len(batch)
      /\ \A i \in 1..Len(stream) : stream'[i] = stream[i]
      /\ \A j \in 1..Len(batch) : stream'[Len(stream) + j] = batch[j]
  BY SMTT(30), <1>1, <1>5
<1>8. /\ buffer \in Seq(Bytes) /\ Len(buffer) = writable
      /\ \A j \in 1..writable : buffer[j] = bytes[j]
  BY <1>3, <1>4
<1> HIDE DEF buffer
<1>9. /\ file' \in Seq(Bytes) /\ Len(file') \in Nat /\ Len(file') >= Len(file)
      /\ \A i \in 1..Len(file) : i <= write_offset => file'[i] = file[i]
      /\ \A j \in 1..writable :
           write_offset + j <= Len(file') /\ file'[write_offset + j] = bytes[j]
  <2>1. CASE writable > 0
    <3>1. WrittenWhole(file', write_offset, buffer)
      BY <2>1, <1>1, <1>4, <1>5, <1>8, OverwriteWhole
    <3>2. PICK done, last : WrittenOver(file', file, write_offset, buffer, done, last)
      BY <2>1, <1>1, <1>4, <1>5, <1>8, OverwriteWhole
    <3>3. \A j \in 1..writable :
            write_offset + j <= Len(file') /\ file'[write_offset + j] = bytes[j]
      BY <3>1, <1>8 DEF WrittenWhole
    <3> QED
      BY <3>2, <3>3, <1>1, <1>2 DEF WrittenOver
  <2>2. CASE ~(writable > 0)
    BY <2>2, <1>1, <1>2, <1>4, <1>5
  <2> QED
    BY <2>1, <2>2
<1>10. TypeOK'
  <2>1. misused' \in BOOLEAN
    BY <1>5
  <2> QED
    BY SMTT(30), <2>1, <1>1, <1>2, <1>4, <1>5, <1>6, <1>7, <1>9 DEF TypeOK, Bytes
<1>11. OffsetsAligned'
  BY <1>1, <1>4, <1>5, <1>6, AlignedSum DEF OffsetsAligned
<1>12. SUFFICES ASSUME ~misused'
                PROVE  OpenIntact' /\ ClosedWritten' /\ ReportedInFile'
  BY <1>10, <1>11 DEF IndInv, OpenIntact, ClosedWritten, ReportedInFile
<1>13. ~misused /\ file_open /\ write_offset + Len(tail) = logical_size
  BY <1>5, <1>12 DEF Ready
<1>14. /\ logical_size = Len(stream)
       /\ \A i \in 1..Len(stream) :
            /\ i <= write_offset => i <= Len(file) /\ file[i] = stream[i]
            /\ i > write_offset => tail[i - write_offset] = stream[i]
  BY <1>13 DEF IndInv, OpenIntact
<1>b. /\ Len(stream) = write_offset + Len(tail)
      /\ Len(stream') = write_offset + Len(bytes)
      /\ Len(stream') \in Nat
  <2>1. Len(stream) = write_offset + Len(tail)
    BY <1>13, <1>14
  <2>2. Len(bytes) = Len(tail) + Len(batch)
    BY <1>3
  <2>3. Len(stream') = Len(stream) + Len(batch)
    BY <1>7
  <2>4. write_offset \in Nat /\ Len(tail) \in Nat /\ Len(batch) \in Nat
    BY <1>1, <1>2
  <2> QED
    BY <2>1, <2>2, <2>3, <2>4
<1>15. ASSUME NEW i \in 1..Len(stream'), i > write_offset
       PROVE  i - write_offset \in 1..Len(bytes) /\ bytes[i - write_offset] = stream'[i]
  <2>1. i - write_offset \in 1..Len(bytes)
    BY <1>1, <1>2, <1>3, <1>7, <1>13, <1>14, <1>15
  <2>2. CASE i <= Len(stream)
    <3>1. i \in 1..Len(stream) /\ i - write_offset \in 1..Len(tail)
      BY <2>2, <1>1, <1>2, <1>7, <1>13, <1>14, <1>15
    <3> QED
      BY <3>1, <2>1, <1>3, <1>7, <1>14, <1>15
  <2>3. CASE i > Len(stream)
    <3> DEFINE k == i - Len(stream)
    <3>1. /\ k \in 1..Len(batch) /\ Len(stream) + k = i
          /\ Len(tail) + k = i - write_offset
      BY <2>3, <1>1, <1>2, <1>3, <1>b
    <3> HIDE DEF k
    <3>2. bytes[Len(tail) + k] = batch[k] /\ stream'[Len(stream) + k] = batch[k]
      BY <3>1, <1>3, <1>7
    <3> QED
      BY <3>1, <3>2, <2>1
  <2> QED
    BY <2>1, <2>2, <2>3, <1>2, <1>7
<1>16. ASSUME NEW i \in 1..Len(stream'), i <= write_offset'
       PROVE  i <= Len(file') /\ file'[i] = stream'[i]
  <2>1. CASE i <= write_offset
    <3>1. i \in 1..Len(stream) /\ i \in 1..Len(file)
      BY <2>1, <1>1, <1>2, <1>7, <1>13, <1>14
    <3> QED
      BY <3>1, <2>1, <1>2, <1>7, <1>9, <1>14
  <2>2. CASE i > write_offset
    <3> DEFINE j == i - write_offset
    <3>1. j \in 1..writable /\ write_offset + j = i
      BY <2>2, <1>1, <1>2, <1>4, <1>5, <1>7, <1>16
    <3>2. bytes[j] = stream'[i]
      BY <2>2, <1>15
    <3> HIDE DEF j
    <3> QED
      BY <3>1, <3>2, <1>9
  <2> QED
    BY <2>1, <2>2, <1>1, <1>2, <1>7
<1>17. ASSUME NEW i \in 1..Len(stream'), i > write_offset'
       PROVE  tail'[i - write_offset'] = stream'[i]
  <2> DEFINE j == i - write_offset'
  <2>1. i > write_offset
    BY <1>1, <1>2, <1>4, <1>5, <1>7, <1>17
  <2>2. i - write_offset \in 1..Len(bytes) /\ bytes[i - write_offset] = stream'[i]
    BY <2>1, <1>15
  <2>3. j \in 1..(Len(bytes) - writable) /\ writable + j = i - write_offset
    BY <2>2, <1>1, <1>2, <1>3, <1>4, <1>5, <1>7, <1>17
  <2>4. tail'[j] = bytes[writable + j]
    BY <2>3, <1>6
  <2> QED
    BY <2>2, <2>3, <2>4
<1>18. /\ logical_size' = Len(stream')
       /\ write_offset' + Len(tail') = logical_size'
  <2>1. logical_size' = Len(stream) + Len(batch)
    BY <1>5, <1>14
  <2>2. Len(stream') = Len(stream) + Len(batch)
    BY <1>7
  <2>3. write_offset' = write_offset + writable /\ Len(tail') = Len(bytes) - writable
    BY <1>5, <1>6
  <2>4. write_offset \in Nat /\ writable \in Nat /\ Len(bytes) \in Nat
    BY <1>1, <1>4, <1>a
  <2>5. Len(stream') = write_offset + Len(bytes)
    BY <1>b
  <2> QED
    BY <2>1, <2>2, <2>3, <2>4, <2>5
<1>19. OpenIntact'
  <2>1. logical_size' \in Nat
    BY <1>b, <1>18
  <2>2. /\ logical_size' <= write_offset' + Len(tail')
        /\ tail' # <<>> => logical_size' = write_offset' + Len(tail')
    BY <2>1, <1>18
  <2> QED
    BY <2>2, <1>16, <1>17, <1>18 DEF OpenIntact
<1>20. ClosedWritten'
  BY <1>5, <1>13 DEF ClosedWritten
<1>21. ReportedInFile'
  <2>1. write_offset' \in Nat /\ write_offset' <= Len(stream')
    BY <1>1, <1>2, <1>3, <1>4, <1>5, <1>7, <1>13, <1>14
  <2>2. CASE writable > 0
    <3>1. flushed' = write_offset'
      BY <2>2, <1>5
    <3>2. \A i \in 1..flushed' : i \in 1..Len(stream') /\ i <= write_offset'
      BY <3>1, <2>1, <1>2, <1>7
    <3> QED
      BY <3>1, <3>2, <2>1, <1>16 DEF ReportedInFile
  <2>3. CASE ~(writable > 0)
    <3>1. flushed' = flushed /\ file' = file
      BY <2>3, <1>5
    <3>2. /\ flushed <= Len(stream)
          /\ \A i \in 1..flushed : i <= Len(file) /\ file[i] = stream[i]
      BY <1>13 DEF IndInv, ReportedInFile
    <3>3. \A i \in 1..flushed : i \in 1..Len(stream) /\ stream'[i] = stream[i]
      BY <3>2, <1>1, <1>2, <1>7
    <3> QED
      BY <3>1, <3>2, <3>3, <1>1, <1>2, <1>7 DEF ReportedInFile
  <2> QED
    BY <2>2, <2>3
<1> QED
  BY <1>19, <1>20, <1>21

-----------------------------------------------------------------------------
(* The theorems.                                                           *)

(* A writer that was just constructed has nothing to keep.                 *)
LEMMA InitInv == Init => IndInv
<1> SUFFICES ASSUME Init
             PROVE  IndInv
  OBVIOUS
<1>1. <<>> \in Seq(Bytes) /\ Len(<<>>) = 0
  OBVIOUS
<1>2. TypeOK
  BY <1>1 DEF Init, TypeOK, Bytes
<1>3. OffsetsAligned
  BY <1>1, AlignmentAssumption DEF Init, OffsetsAligned
<1>4. OpenIntact /\ ClosedWritten /\ ReportedInFile
  BY <1>1 DEF Init, OpenIntact, ClosedWritten, ReportedInFile
<1> QED
  BY <1>2, <1>3, <1>4 DEF IndInv

(* A step outside the writer changes nothing of it.                        *)
LEMMA StutterInv == IndInv /\ UNCHANGED vars => IndInv'
BY DEF IndInv, vars, TypeOK, OffsetsAligned, OpenIntact, ClosedWritten, ReportedInFile

(* Every call of the writer, failed or not, keeps the invariant.           *)
LEMMA NextInv == IndInv /\ [Next]_vars => IndInv'
<1> SUFFICES ASSUME IndInv, [Next]_vars
             PROVE  IndInv'
  OBVIOUS
<1>1. ASSUME NEW truncate \in BOOLEAN, Start(truncate)
      PROVE  IndInv'
  BY <1>1, StartInv
<1>2. ASSUME NEW size \in 0..Len(file), TruncateTo(size)
      PROVE  IndInv'
  <2>1. size \in Nat
    OBVIOUS
  <2> QED
    BY <1>2, <2>1, TruncateToInv
<1>3. ASSUME NEW batch \in Batches, AppendBatch(batch)
      PROVE  IndInv'
  <2>1. batch \in Seq(Cells)
    BY BatchesAssumption
  <2> QED
    BY <1>3, <2>1, AppendBatchInv
<1>4. ASSUME NEW batch \in Batches, AppendBatchFails(batch)
      PROVE  IndInv'
  <2>1. batch \in Seq(Cells)
    BY BatchesAssumption
  <2> QED
    BY <1>4, <2>1, AppendBatchFailsInv
<1>5. CASE ForceFlush
  BY <1>5, ForceFlushInv
<1>6. CASE ForceFlushFails \/ FlushTailWriteFails
  BY <1>6, TailWriteFailsInv DEF ForceFlushFails, FlushTailWriteFails
<1>7. CASE FlushTail
  BY <1>7, FlushTailInv
<1>8. CASE FlushTailTruncateFails
  BY <1>8, FlushTailTruncateFailsInv
<1>9. CASE Close
  BY <1>9, CloseInv
<1>10. CASE StartFails \/ ResetAfterRotation \/ Crash
  BY <1>10, StartFailsInv, ResetAfterRotationInv, CrashInv
<1>11. CASE RenameAway
  BY <1>11, RenameAwayInv
<1>12. CASE UNCHANGED vars
  BY <1>12, StutterInv
<1> QED
  BY <1>1, <1>2, <1>3, <1>4, <1>5, <1>6, <1>7, <1>8, <1>9, <1>10, <1>11, <1>12 DEF Next

(* The inductive invariant holds in every reachable state of the writer.   *)
THEOREM Invariance == Spec => []IndInv
<1>1. Init => IndInv
  BY InitInv
<1>2. IndInv /\ [Next]_vars => IndInv'
  BY NextInv
<1> QED
  BY <1>1, <1>2, PTL DEF Spec

(* The fields of AppendWriter keep their types through every call.         *)
THEOREM TypeCorrect == Spec => []TypeOK
BY Invariance, IndInvImplies, PTL

(* Every dma_write is aligned and the tail stays below one block, whatever *)
(* the alignment the disk asks for: flush_tail's chunked path is dead.     *)
THEOREM AlignedWrites == Spec => []OffsetsAligned
BY Invariance, IndInvImplies, PTL

(* File and tail together are the bytes appended, in order, through failed *)
(* appends, partial-block rewrites and reopened files.                     *)
THEOREM NoByteLostOrMoved == Spec => []StreamIntact
BY Invariance, IndInvImplies, PTL

(* Bytes a call reported written stay in the file.                         *)
THEOREM ReportedStays == Spec => []ReportedInFile
BY Invariance, IndInvImplies, PTL
=============================================================================
