------------------------- MODULE AsyncWriterProofs --------------------------
(****************************************************************************)
(* Proofs about one shard, for every configuration, every number of         *)
(* submitters, any faults and crashes at any point: the types, the order of *)
(* the records on disk (DiskOrder) and, as long as a checkpoint that fails  *)
(* does not leave an older sidecar behind, the sequence numbers after a     *)
(* restart (SequenceResumes). IndInv is the inductive invariant: its        *)
(* central part, Placed, says where the records of the file, of the tail,   *)
(* of the batch and of the queue stand to each other, which is what keeps a *)
(* batch that is written twice from repeating a record.                     *)
(*                                                                          *)
(* The second part proves that a shard loses nothing: a batch only meets a  *)
(* writer that can take it (WriterReady), what a flush reported written     *)
(* stays (CommittedKept), every accepted record is somewhere (NothingLost), *)
(* a clean stop leaves nothing behind (StopKeepsAcked), and what is on disk *)
(* and what is queued, as sequences, change only as a ShardLog allows       *)
(* (ImplementsShardLog).  It rests on the byte writer's own theorems        *)
(* (AppendWriterProofs), instantiated for the shard's writer: the flush,    *)
(* the rotation and the recovery keep the conditions under which that       *)
(* writer promises anything.  Its hypotheses name the faults after which    *)
(* the code gives these promises up: for each of them TLC finds a behaviour *)
(* that breaks the property.                                                *)
(****************************************************************************)
EXTENDS AsyncWriter, SequenceTheorems, FiniteSetTheorems, TLAPS

(* A cell of the file.                                                      *)
Cell == Record \cup {NUL}

(* What the assumptions say of the options.                                 *)
LEMMA Options ==
  /\ NUL \notin Record /\ Alignment \in Nat \ {0} /\ MaxArchived \in Nat \ {0}
  /\ MaxRecords \in Nat /\ BatchSize \in Nat \ {0}
BY PaddingAssumption, ConfigAssumption

(* The keys of a record are numbers.                                        *)
LEMMA RecordKeys ==
  ASSUME NEW x \in Cell, IsRecord(x)
  PROVE  /\ x \in Record /\ x.id \in Nat /\ x.seq \in Nat
         /\ \A k \in {"id", "seq"} : x[k] \in Nat
BY DEF Cell, IsRecord, Record

-----------------------------------------------------------------------------
(* The records among some cells have a key below b.                         *)
Under(k, cells, b) == \A i \in DOMAIN cells : IsRecord(cells[i]) => cells[i][k] < b

(* The file f and the cells v that go to it from offset wo on: both in      *)
(* order of k, everything before wo is older than v, and what stands after  *)
(* wo is a copy of one of the first n cells of v, at the place v has for    *)
(* it.                                                                      *)
Fits(k, f, wo, v, n) ==
  /\ Increasing(k, f) /\ Increasing(k, v)
  /\ \A i \in DOMAIN f : \A j \in DOMAIN v :
       i <= wo /\ IsRecord(f[i]) /\ IsRecord(v[j]) => f[i][k] < v[j][k]
  /\ \A i \in DOMAIN f : i > wo /\ IsRecord(f[i]) =>
       i - wo <= n /\ i - wo \in DOMAIN v /\ f[i] = v[i - wo]

(* f and v fit, and with the segment's records s stay below the next key b. *)
Placed(k, f, wo, v, n, s, b) ==
  /\ Fits(k, f, wo, v, n) /\ Increasing(k, s)
  /\ Under(k, f, b) /\ Under(k, v, b) /\ Under(k, s, b)

(* g is the file f after a write that put any of the first n cells of v at  *)
(* their places.                                                            *)
Wrote(g, f, wo, v, n) ==
  /\ g \in Seq(Cell)
  /\ \A i \in DOMAIN g : IsRecord(g[i]) =>
       \/ i \in DOMAIN f /\ g[i] = f[i]
       \/ i > wo /\ i - wo <= n /\ i - wo \in DOMAIN v /\ g[i] = v[i - wo]

(* w is what is left of v after its first m cells.                          *)
Shifted(w, v, m) ==
  /\ w \in Seq(Cell) /\ m <= Len(v) /\ Len(w) = Len(v) - m
  /\ \A j \in DOMAIN w : m + j \in DOMAIN v /\ w[j] = v[m + j]

(* A write, complete or not, keeps the cells in their places.               *)
LEMMA WritePlaces ==
  ASSUME NEW k \in {"id", "seq"}, NEW f \in Seq(Cell), NEW g, NEW v \in Seq(Cell),
         NEW wo \in Nat, NEW n \in Nat, NEW m \in Nat, NEW s, NEW b, n <= m,
         Placed(k, f, wo, v, n, s, b), Wrote(g, f, wo, v, m)
  PROVE  Placed(k, g, wo, v, m, s, b)
<1>0. DOMAIN g \subseteq Nat /\ DOMAIN f \subseteq Nat /\ DOMAIN v \subseteq Nat
  BY DEF Wrote
<1>1. ASSUME NEW i \in DOMAIN g, IsRecord(g[i]), i <= wo
      PROVE  i \in DOMAIN f /\ g[i] = f[i]
  BY <1>0, <1>1 DEF Wrote
<1>2. ASSUME NEW i \in DOMAIN g, IsRecord(g[i]), i > wo
      PROVE  i - wo <= m /\ i - wo \in DOMAIN v /\ g[i] = v[i - wo]
  <2>1. CASE i \in DOMAIN f /\ g[i] = f[i]
    <3>1. i - wo <= n /\ i - wo \in DOMAIN v /\ g[i] = v[i - wo]
      BY <1>2, <2>1 DEF Placed, Fits
    <3> QED
      BY <1>0, <3>1
  <2>2. CASE ~(i \in DOMAIN f /\ g[i] = f[i])
    BY <1>2, <2>2 DEF Wrote
  <2> QED
    BY <2>1, <2>2
<1>3. ASSUME NEW i \in DOMAIN g, NEW j \in DOMAIN v, i <= wo, IsRecord(g[i]), IsRecord(v[j])
      PROVE  g[i][k] < v[j][k]
  BY <1>1, <1>3 DEF Placed, Fits
<1>4. ASSUME NEW i \in DOMAIN g, NEW j \in DOMAIN g, i < j, IsRecord(g[i]), IsRecord(g[j])
      PROVE  g[i][k] < g[j][k]
  <2>1. CASE j <= wo
    <3>1. i <= wo
      BY <1>0, <1>4, <2>1
    <3> QED
      BY <1>1, <1>4, <2>1, <3>1 DEF Placed, Fits, Increasing
  <2>2. CASE j > wo /\ i <= wo
    BY <1>2, <1>3, <1>4, <2>2
  <2>3. CASE j > wo /\ i > wo
    <3>1. /\ i - wo \in DOMAIN v /\ g[i] = v[i - wo] /\ j - wo \in DOMAIN v /\ g[j] = v[j - wo]
          /\ i - wo < j - wo
      BY <1>0, <1>2, <1>4, <2>3
    <3> QED
      BY <1>4, <3>1 DEF Placed, Fits, Increasing
  <2> QED
    BY <1>0, <2>1, <2>2, <2>3
<1>5. Fits(k, g, wo, v, m)
  BY <1>2, <1>3, <1>4 DEF Fits, Increasing, Placed
<1>6. Under(k, g, b)
  <2>1. ASSUME NEW i \in DOMAIN g, IsRecord(g[i]) PROVE g[i][k] < b
    BY <1>1, <1>2, <1>0, <2>1 DEF Placed, Under
  <2> QED
    BY <2>1 DEF Under
<1> QED
  BY <1>5, <1>6 DEF Placed

(* So does moving the offset past the first m cells.                        *)
LEMMA AdvancePlaces ==
  ASSUME NEW k \in {"id", "seq"}, NEW f \in Seq(Cell), NEW v \in Seq(Cell), NEW w,
         NEW wo \in Nat, NEW n \in Nat, NEW m \in Nat, NEW p \in Nat, NEW s, NEW b, n <= m + p,
         Placed(k, f, wo, v, n, s, b), Shifted(w, v, m)
  PROVE  Placed(k, f, wo + m, w, p, s, b)
<1>0. DOMAIN f \subseteq Nat /\ DOMAIN v \subseteq Nat /\ DOMAIN w \subseteq Nat \ {0}
      /\ Len(v) \in Nat
      /\ DOMAIN w = 1..Len(w) /\ DOMAIN v = 1..Len(v)
  BY DEF Shifted
<1>1. ASSUME NEW i \in DOMAIN f, NEW j \in DOMAIN w, i <= wo + m, IsRecord(f[i]), IsRecord(w[j])
      PROVE  f[i][k] < w[j][k]
  <2>1. m + j \in DOMAIN v /\ w[j] = v[m + j]
    BY DEF Shifted
  <2>2. CASE i <= wo
    BY <1>1, <2>1, <2>2 DEF Placed, Fits
  <2>3. CASE i > wo
    <3>1. i - wo \in DOMAIN v /\ f[i] = v[i - wo]
      BY <1>1, <2>3 DEF Placed, Fits
    <3>2. i - wo < m + j
      BY <1>0, <1>1, <2>3
    <3> QED
      BY <1>1, <2>1, <3>1, <3>2 DEF Placed, Fits, Increasing
  <2> QED
    BY <1>0, <2>2, <2>3
<1>2. ASSUME NEW i \in DOMAIN f, i > wo + m, IsRecord(f[i])
      PROVE  i - (wo + m) <= p /\ i - (wo + m) \in DOMAIN w /\ f[i] = w[i - (wo + m)]
  <2>1. i > wo
    BY <1>0, <1>2
  <2>2. i - wo <= n /\ i - wo \in DOMAIN v /\ f[i] = v[i - wo]
    BY <1>2, <2>1 DEF Placed, Fits
  <2>3. i - (wo + m) \in 1..(Len(v) - m) /\ m + (i - (wo + m)) = i - wo
    BY <1>0, <1>2, <2>2
  <2>4. i - (wo + m) \in DOMAIN w
    BY <1>0, <2>3 DEF Shifted
  <2>5. w[i - (wo + m)] = v[m + (i - (wo + m))]
    BY <2>4 DEF Shifted
  <2>6. i - (wo + m) <= p
    BY <1>0, <2>2
  <2> QED
    BY <2>2, <2>3, <2>4, <2>5, <2>6
<1>3. Increasing(k, w) /\ Under(k, w, b)
  <2>1. \A j \in DOMAIN w : m + j \in DOMAIN v /\ w[j] = v[m + j]
    BY DEF Shifted
  <2>2. \A i, j \in DOMAIN w : i < j => m + i < m + j
    BY <1>0
  <2> QED
    BY <2>1, <2>2 DEF Placed, Fits, Increasing, Under
<1> QED
  BY <1>1, <1>2, <1>3 DEF Placed, Fits

(* So does moving it further than that when no record stands after them.    *)
LEMMA SealPlaces ==
  ASSUME NEW k \in {"id", "seq"}, NEW f \in Seq(Cell), NEW v \in Seq(Cell), NEW w,
         NEW wo \in Nat, NEW n \in Nat, NEW m \in Nat, NEW to \in Nat, NEW p \in Nat, NEW s, NEW b,
         to >= wo + m, Placed(k, f, wo, v, n, s, b), Shifted(w, v, m),
         \A i \in DOMAIN f : IsRecord(f[i]) => i <= wo + m
  PROVE  Placed(k, f, to, w, p, s, b)
<1>0. DOMAIN f \subseteq Nat
  OBVIOUS
<1> DEFINE q == n
<1>1. n <= m + q
  OBVIOUS
<1>2. Placed(k, f, wo + m, w, q, s, b)
  BY <1>1, AdvancePlaces
<1>3. \A i \in DOMAIN f : IsRecord(f[i]) => i <= wo + m /\ ~(i > to) /\ i <= to
  BY <1>0
<1> QED
  BY <1>2, <1>3 DEF Placed, Fits

(* So does queueing newer records behind the others.                        *)
LEMMA GrowPlaces ==
  ASSUME NEW k \in {"id", "seq"}, NEW f \in Seq(Cell), NEW v \in Seq(Cell), NEW s \in Seq(Cell),
         NEW new \in Seq(Cell),
         NEW wo \in Nat, NEW n \in Nat, NEW p \in Nat, n <= p, NEW b \in Nat, NEW d \in Nat, b <= d,
         Placed(k, f, wo, v, n, s, b), Increasing(k, new), Under(k, new, d),
         \A j \in DOMAIN new : new[j][k] \in Nat /\ new[j][k] >= b
  PROVE  Placed(k, f, wo, v \o new, p, s \o new, d)
<1>0. /\ \A c \in Seq(Cell) : \A i \in DOMAIN c : IsRecord(c[i]) => c[i][k] \in Nat
      /\ \A c \in Seq(Cell) : DOMAIN c \subseteq Nat
  BY SMTT(30), RecordKeys
<1>1. ASSUME NEW c \in Seq(Cell), Under(k, c, b), Increasing(k, c)
      PROVE  Increasing(k, c \o new) /\ Under(k, c \o new, d)
  <2>1. /\ DOMAIN (c \o new) = 1..(Len(c) + Len(new)) /\ Len(c) \in Nat /\ Len(new) \in Nat
        /\ DOMAIN c = 1..Len(c) /\ DOMAIN new = 1..Len(new)
        /\ \A i \in DOMAIN (c \o new) : (c \o new)[i] = IF i
             <= Len(c) THEN c[i] ELSE new[i - Len(c)]
    OBVIOUS
  <2> DEFINE e == c \o new
  <2> HIDE DEF e
  <2>2. /\ DOMAIN e = 1..(Len(c) + Len(new))
        /\ \A i \in DOMAIN e : i <= Len(c) => i \in DOMAIN c /\ e[i] = c[i]
        /\ \A i \in DOMAIN e : i > Len(c) => i - Len(c) \in DOMAIN new /\ e[i] = new[i - Len(c)]
    BY SMTT(30), <2>1 DEF e
  <2>3. ASSUME NEW i \in DOMAIN e, NEW j \in DOMAIN e, i < j, IsRecord(e[i]), IsRecord(e[j])
        PROVE  e[i][k] < e[j][k]
    <3>1. CASE j <= Len(c)
      <4>1. i <= Len(c)
        BY <2>1, <2>2, <2>3, <3>1
      <4> QED
        BY <1>1, <2>2, <2>3, <3>1, <4>1 DEF Increasing
    <3>2. CASE j > Len(c) /\ i <= Len(c)
      <4>1. e[i][k] < b /\ e[i][k] \in Nat
        BY <1>0, <1>1, <2>2, <2>3, <3>2 DEF Under
      <4>2. e[j][k] >= b /\ e[j][k] \in Nat
        BY <2>2, <3>2
      <4> QED
        BY <4>1, <4>2
    <3>3. CASE j > Len(c) /\ i > Len(c)
      <4>1. i - Len(c) < j - Len(c)
        BY <2>1, <2>2, <2>3
      <4> QED
        BY <2>2, <2>3, <3>3, <4>1 DEF Increasing
    <3> QED
      BY <2>1, <2>2, <3>1, <3>2, <3>3
  <2>4. ASSUME NEW i \in DOMAIN e, IsRecord(e[i]) PROVE e[i][k] < d
    <3>1. CASE i <= Len(c)
      <4>1. e[i][k] < b /\ e[i][k] \in Nat
        BY <1>0, <1>1, <2>2, <2>4, <3>1 DEF Under
      <4> QED
        BY <4>1
    <3>2. CASE i > Len(c)
      BY <2>2, <2>4, <3>2 DEF Under
    <3> QED
      BY <2>1, <2>2, <3>1, <3>2
  <2> QED
    BY <2>3, <2>4 DEF Increasing, Under, e
<1>2. /\ Increasing(k, v \o new) /\ Under(k, v \o new, d)
      /\ Increasing(k, s \o new) /\ Under(k, s \o new, d)
  BY <1>1 DEF Placed, Fits
<1>3. Under(k, f, d)
  <2>1. \A i \in DOMAIN f : IsRecord(f[i]) => f[i][k] \in Nat /\ f[i][k] < b
    BY <1>0 DEF Placed, Under
  <2> QED
    BY <2>1 DEF Under
<1> DEFINE w == v \o new
<1>4. /\ DOMAIN v \subseteq DOMAIN w /\ \A j \in DOMAIN v : w[j] = v[j]
      /\ \A j \in DOMAIN w : j \notin DOMAIN v => j - Len(v) \in DOMAIN new
         /\ w[j] = new[j - Len(v)]
  <2>1. /\ DOMAIN w = 1..(Len(v) + Len(new)) /\ Len(v) \in Nat /\ Len(new) \in Nat
        /\ DOMAIN v = 1..Len(v) /\ DOMAIN new = 1..Len(new)
        /\ \A i \in DOMAIN w : w[i] = IF i <= Len(v) THEN v[i] ELSE new[i - Len(v)]
    OBVIOUS
  <2> HIDE DEF w
  <2> QED
    BY <2>1
<1> HIDE DEF w
<1>5. ASSUME NEW i \in DOMAIN f, NEW j \in DOMAIN w, i <= wo, IsRecord(f[i]), IsRecord(w[j])
      PROVE  f[i][k] < w[j][k]
  <2>1. CASE j \in DOMAIN v
    BY <1>4, <1>5, <2>1 DEF Placed, Fits
  <2>2. CASE j \notin DOMAIN v
    <3>1. f[i][k] \in Nat /\ f[i][k] < b
      BY <1>0, <1>5 DEF Placed, Under
    <3>2. w[j][k] \in Nat /\ w[j][k] >= b
      BY <1>4, <2>2
    <3> QED
      BY <3>1, <3>2
  <2> QED
    BY <2>1, <2>2
<1>6. ASSUME NEW i \in DOMAIN f, i > wo, IsRecord(f[i])
      PROVE  i - wo <= p /\ i - wo \in DOMAIN w /\ f[i] = w[i - wo]
  <2>1. i - wo <= n /\ i - wo \in DOMAIN v /\ f[i] = v[i - wo]
    BY <1>6 DEF Placed, Fits
  <2> QED
    BY <1>0, <1>4, <2>1
<1> QED
  BY <1>2, <1>3, <1>5, <1>6 DEF Placed, Fits, w

-----------------------------------------------------------------------------
(* Writing some blocks of a buffer puts no record anywhere but at its       *)
(* place.                                                                   *)
LEMMA OverwriteCells ==
  ASSUME NEW f \in Seq(Cell), NEW wo \in Nat, NEW buffer \in Seq(Cell), NEW last \in Nat, NEW done
  PROVE  LET g == AW!Overwrite(f, wo, buffer, done, last) IN
         /\ g \in Seq(Cell) /\ Len(g) >= Len(f)
         /\ \A i \in DOMAIN g : IsRecord(g[i]) =>
              \/ i \in DOMAIN f /\ g[i] = f[i]
              \/ i > wo /\ i - wo <= Len(buffer) /\ i - wo \in DOMAIN buffer
                 /\ g[i] = buffer[i - wo]
<1> DEFINE size == IF last = 0 THEN Len(f) ELSE AW!Larger(Len(f), wo + last * Alignment)
           cell(i) == IF i > wo /\ i <= wo + Len(buffer) /\ AW!BlockOf(i - wo) \in done
                      THEN buffer[i - wo] ELSE IF i <= Len(f) THEN f[i] ELSE NUL
           g == AW!Overwrite(f, wo, buffer, done, last)
<1>1. last * Alignment \in Nat
  BY Options
<1>2. size \in Nat /\ size >= Len(f) /\ Len(f) \in Nat /\ Len(buffer) \in Nat
  BY <1>1 DEF AW!Larger
<1>3. g = [i \in 1..size |-> cell(i)]
  BY DEF AW!Overwrite
<1> HIDE DEF size, g
<1>4. \A i \in 1..size : cell(i) \in Cell
  BY <1>2 DEF Cell
<1>5. \A i \in 1..size : IsRecord(cell(i)) =>
              \/ i \in DOMAIN f /\ cell(i) = f[i]
              \/ i > wo /\ i - wo <= Len(buffer) /\ i - wo \in DOMAIN buffer
                 /\ cell(i) = buffer[i - wo]
  BY <1>2 DEF IsRecord
<1> HIDE DEF cell
<1>6. g \in Seq(Cell) /\ Len(g) = size /\ DOMAIN g = 1..size /\ \A i \in 1..size : g[i] = cell(i)
  BY <1>2, <1>3, <1>4
<1> QED
  BY <1>2, <1>5, <1>6 DEF g

(* Padding a block adds no record.                                          *)
LEMMA PaddedCells ==
  ASSUME NEW bytes \in Seq(Cell)
  PROVE  /\ AW!Padded(bytes) \in Seq(Cell) /\ AW!AlignUp(Len(bytes)) \in Nat
            /\ AW!AlignUp(Len(bytes)) >= Len(bytes)
         /\ \A j \in DOMAIN AW!Padded(bytes) : IsRecord(AW!Padded(bytes)[j]) =>
              j \in DOMAIN bytes /\ AW!Padded(bytes)[j] = bytes[j]
<1>1. Len(bytes) \in Nat /\ Len(bytes) % Alignment \in 0..(Alignment - 1)
  BY Options
<1>2. AW!AlignUp(Len(bytes)) \in Nat /\ AW!AlignUp(Len(bytes)) >= Len(bytes)
  BY <1>1, Options DEF AW!AlignUp
<1> QED
  BY <1>1, <1>2 DEF AW!Padded, Cell, IsRecord

(* truncate adds no record, whichever size it is called with.               *)
LEMMA TruncatedCells ==
  ASSUME NEW f \in Seq(Cell), NEW size \in Nat
  PROVE  LET g == AW!Truncated(f, size) IN
         /\ g \in Seq(Cell) /\ Len(g) = size
         /\ \A i \in DOMAIN g : IsRecord(g[i]) => i <= size /\ i \in DOMAIN f /\ g[i] = f[i]
         /\ \A i \in DOMAIN f : i <= size => i \in DOMAIN g /\ g[i] = f[i]
BY DEF AW!Truncated, Cell, IsRecord

(* Alignment down stays below the size.                                     *)
LEMMA DownCells ==
  ASSUME NEW n \in Nat
  PROVE  AW!AlignDown(n) \in Nat /\ AW!AlignDown(n) <= n
<1>1. /\ n \div Alignment \in Nat /\ n % Alignment \in 0..(Alignment - 1)
      /\ n = (n \div Alignment) * Alignment + (n % Alignment)
  BY Options
<1> DEFINE q == (n \div Alignment) * Alignment
<1>2. q \in Nat
  BY <1>1, Options
<1> HIDE DEF q
<1>3. n = q + (n % Alignment) /\ n % Alignment \in Nat
  BY <1>1, Options DEF q
<1> QED
  BY <1>2, <1>3 DEF AW!AlignDown, q

-----------------------------------------------------------------------------
(* The types of the byte writer's state.                                    *)
LEMMA WriterTypes ==
  AW!TypeOK <=> /\ file \in Seq(Cell) /\ tail \in Seq(Cell) /\ stream \in Seq(Cell)
                /\ present \in BOOLEAN /\ file_open \in BOOLEAN /\ misused \in BOOLEAN
                /\ write_offset \in Nat /\ logical_size \in Nat /\ flushed \in Nat
BY DEF AW!TypeOK, Cell

(* A write of a prefix of v is a write of v.                                *)
LEMMA PrefixWrote ==
  ASSUME NEW g, NEW f, NEW wo \in Nat, NEW t \in Seq(Cell), NEW v \in Seq(Cell), NEW n
           \in Nat, NEW m \in Nat,
         m <= n, Wrote(g, f, wo, t, m), Len(t) <= Len(v), \A j \in DOMAIN t : v[j] = t[j]
  PROVE  Wrote(g, f, wo, v, n)
<1>1. DOMAIN t \subseteq DOMAIN v /\ DOMAIN t \subseteq Nat
  OBVIOUS
<1>2. \A i \in Nat : i - wo <= m => i - wo <= n
  OBVIOUS
<1>3. DOMAIN g \subseteq Nat
  BY DEF Wrote
<1> QED
  BY <1>1, <1>2, <1>3 DEF Wrote

(* write_aligned_buffer when it fails.                                      *)
LEMMA WriteFailsCells ==
  ASSUME AW!TypeOK, NEW buffer \in Seq(Cell), AW!WriteBufferFails(write_offset, buffer)
  PROVE  Wrote(file', file, write_offset, buffer, Len(buffer)) /\ Len(file') >= Len(file)
<1>1. PICK last \in 0..(Len(buffer) \div Alignment) : \E done \in SUBSET (1..last) :
         file' = AW!Overwrite(file, write_offset, buffer, done, last)
  BY DEF AW!WriteBufferFails
<1>2. PICK done \in SUBSET (1..last) : file' = AW!Overwrite(file, write_offset, buffer, done, last)
  BY <1>1
<1>3. last \in Nat
  OBVIOUS
<1> QED
  BY <1>2, <1>3, OverwriteCells, WriterTypes DEF Wrote

(* write_aligned_buffer when it succeeds.                                   *)
LEMMA OverwriteAllCells ==
  ASSUME AW!TypeOK, NEW buffer \in Seq(Cell)
  PROVE  Wrote(AW!OverwriteAll(file, write_offset, buffer), file, write_offset, buffer, Len(buffer))
<1>1. Len(buffer) \div Alignment \in Nat
  BY Options
<1> QED
  BY <1>1, OverwriteCells, WriterTypes DEF Wrote, AW!OverwriteAll

(* The padding of the partial block writes no record.                       *)
LEMMA PaddedWrote ==
  ASSUME AW!TypeOK, NEW g, Wrote(g, file, write_offset, AW!Padded(tail), Len(AW!Padded(tail)))
  PROVE  Wrote(g, file, write_offset, tail, Len(tail))
<1>1. tail \in Seq(Cell) /\ write_offset \in Nat
  BY WriterTypes
<1>2. \A j \in DOMAIN AW!Padded(tail) : IsRecord(AW!Padded(tail)[j]) =>
        j \in DOMAIN tail /\ AW!Padded(tail)[j] = tail[j]
  BY <1>1, PaddedCells
<1>3. \A j \in DOMAIN tail : j <= Len(tail)
  BY <1>1
<1> QED
  BY <1>2, <1>3 DEF Wrote

(* The write of the partial block.                                          *)
LEMMA WithTailCells ==
  ASSUME AW!TypeOK
  PROVE  Wrote(AW!WithTail, file, write_offset, tail, Len(tail))
<1>1. AW!Padded(tail) \in Seq(Cell)
  BY PaddedCells, WriterTypes
<1> QED
  BY <1>1, OverwriteAllCells, PaddedWrote DEF AW!WithTail

(* No write at all.                                                         *)
LEMMA UnchangedWrote ==
  ASSUME AW!TypeOK, file' = file, NEW v, NEW n
  PROVE  Wrote(file', file, write_offset, v, n)
BY WriterTypes DEF Wrote

(* force_flush writes the tail at its place and changes nothing else.       *)
LEMMA ForceFlushCells ==
  ASSUME AW!TypeOK, AW!ForceFlush
  PROVE  /\ AW!TypeOK' /\ Wrote(file', file, write_offset, tail, Len(tail))
         /\ ~file_open => file' = file
         /\ UNCHANGED <<present, file_open, tail, write_offset, logical_size, stream>>
<1>1. /\ file' = IF file_open THEN AW!WithTail ELSE file
      /\ flushed' = Len(stream)
      /\ UNCHANGED <<present, file_open, tail, write_offset, logical_size, stream,
                     misused>>
  BY DEF AW!ForceFlush, AW!memoryVars
<1>2. Wrote(file', file, write_offset, tail, Len(tail))
  BY <1>1, WithTailCells, UnchangedWrote
<1>3. file' \in Seq(Cell) /\ flushed' \in Nat
  BY <1>1, <1>2, WriterTypes DEF Wrote
<1> QED
  BY <1>1, <1>2, <1>3, WriterTypes DEF AW!TypeOK, Cell

(* The write of the partial block failing, in force_flush or in flush_tail. *)
LEMMA TailWriteFailsCells ==
  ASSUME AW!TypeOK, AW!ForceFlushFails \/ AW!FlushTailWriteFails
  PROVE  /\ AW!TypeOK' /\ Wrote(file', file, write_offset, tail, Len(tail))
         /\ file_open
         /\ UNCHANGED <<present, file_open, tail, write_offset, logical_size, stream>>
<1>1. /\ file_open /\ AW!WriteBufferFails(write_offset, AW!Padded(tail))
      /\ UNCHANGED <<present, file_open, tail, write_offset, logical_size, stream,
                     flushed, misused>>
  BY DEF AW!ForceFlushFails, AW!FlushTailWriteFails, AW!memoryVars, AW!ghostVars
<1>2. Wrote(file', file, write_offset, tail, Len(tail))
  BY <1>1, WriteFailsCells, PaddedWrote, PaddedCells, WriterTypes
<1>3. file' \in Seq(Cell)
  BY <1>2 DEF Wrote
<1> QED
  BY <1>1, <1>2, <1>3, WriterTypes DEF AW!TypeOK, Cell

(* append_batch failing: any blocks of tail and batch are there, the writer *)
(* is as before.                                                            *)
LEMMA AppendFailsCells ==
  ASSUME AW!TypeOK, NEW b \in Seq(Record), AW!AppendBatchFails(b)
  PROVE  /\ AW!TypeOK' /\ Wrote(file', file, write_offset, tail \o b, Len(tail) + Len(b))
         /\ file_open
         /\ UNCHANGED <<present, file_open, tail, write_offset, logical_size, stream>>
<1> DEFINE bytes == tail \o b
           writable == AW!AlignDown(Len(bytes))
           buffer == SubSeq(bytes, 1, writable)
<1>1. /\ file_open /\ AW!WriteBufferFails(write_offset, buffer)
      /\ UNCHANGED <<present, file_open, tail, write_offset, logical_size, stream,
                     flushed, misused>>
  BY DEF AW!AppendBatchFails, AW!memoryVars, AW!ghostVars
<1>2. bytes \in Seq(Cell) /\ Len(bytes) = Len(tail) + Len(b) /\ Len(bytes) \in Nat
  BY WriterTypes DEF Cell
<1> HIDE DEF bytes
<1>3. writable \in Nat /\ writable <= Len(bytes)
  BY <1>2, DownCells
<1> HIDE DEF writable
<1>4. buffer \in Seq(Cell) /\ Len(buffer) = writable
      /\ \A j \in DOMAIN buffer : bytes[j] = buffer[j]
  BY <1>2, <1>3
<1> HIDE DEF buffer
<1>5. Wrote(file', file, write_offset, buffer, Len(buffer))
  BY <1>1, <1>4, WriteFailsCells
<1>6. write_offset \in Nat
  BY WriterTypes
<1>7. Wrote(file', file, write_offset, bytes, Len(bytes))
  BY <1>2, <1>3, <1>4, <1>5, <1>6, PrefixWrote
<1>8. file' \in Seq(Cell)
  BY <1>5 DEF Wrote
<1> QED
  BY <1>1, <1>2, <1>7, <1>8, WriterTypes DEF AW!TypeOK, Cell, bytes

(* append_batch: the offset moves past the full blocks, the rest is the     *)
(* tail.                                                                    *)
LEMMA AppendCells ==
  ASSUME AW!TypeOK, NEW b \in Seq(Record), AW!AppendBatch(b)
  PROVE  /\ AW!TypeOK'
         /\ \E writable \in Nat :
              /\ writable <= Len(tail) + Len(b)
              /\ writable > 0 => file_open
              /\ file_open \/ file' = file
              /\ Wrote(file', file, write_offset, tail \o b, Len(tail) + Len(b))
              /\ write_offset' = write_offset + writable
              /\ tail' = SubSeq(tail \o b, writable + 1, Len(tail) + Len(b))
              /\ stream' = stream \o b
              /\ logical_size' = logical_size + Len(b)
              /\ UNCHANGED <<present, file_open>>
<1> DEFINE bytes == tail \o b
           writable == AW!AlignDown(Len(bytes))
           buffer == SubSeq(bytes, 1, writable)
<1>1. /\ writable > 0 => file_open
      /\ logical_size' = logical_size + Len(b)
      /\ writable > 0 => file' = AW!OverwriteAll(file, write_offset, buffer)
      /\ ~(writable > 0) => file' = file
      /\ write_offset' = write_offset + writable
      /\ tail' = SubSeq(bytes, writable + 1, Len(bytes))
      /\ stream' = stream \o b
      /\ flushed' = (IF writable > 0 THEN write_offset' ELSE flushed)
      /\ misused' = (misused \/ ~AW!Ready)
      /\ UNCHANGED <<present, file_open>>
  BY DEF AW!AppendBatch, AW!WriteBuffer
<1>2. bytes \in Seq(Cell) /\ Len(bytes) = Len(tail) + Len(b) /\ Len(bytes) \in Nat /\ Len(b) \in Nat
  BY WriterTypes DEF Cell
<1> HIDE DEF bytes
<1>3. writable \in Nat /\ writable <= Len(bytes)
  BY <1>2, DownCells
<1> HIDE DEF writable
<1>4. buffer \in Seq(Cell) /\ Len(buffer) = writable
      /\ \A j \in DOMAIN buffer : bytes[j] = buffer[j]
  BY <1>2, <1>3
<1> HIDE DEF buffer
<1>5. Wrote(file', file, write_offset, bytes, Len(bytes))
  <2>1. CASE writable > 0
    <3>1. Wrote(file', file, write_offset, buffer, Len(buffer))
      BY <1>1, <1>4, <2>1, OverwriteAllCells
    <3>2. write_offset \in Nat
      BY WriterTypes
    <3> QED
      BY <1>2, <1>3, <1>4, <3>1, <3>2, PrefixWrote
  <2>2. CASE ~(writable > 0)
    BY <1>1, <2>2, UnchangedWrote
  <2> QED
    BY <2>1, <2>2
<1>6. file' \in Seq(Cell)
  BY <1>5 DEF Wrote
<1>7. /\ tail' \in Seq(Cell) /\ stream' \in Seq(Cell) /\ write_offset' \in Nat
         /\ logical_size' \in Nat
      /\ flushed' \in Nat /\ misused' \in BOOLEAN
  <2>1. b \in Seq(Cell) /\ stream \in Seq(Cell) /\ write_offset \in Nat /\ logical_size \in Nat
        /\ flushed \in Nat
    BY WriterTypes DEF Cell
  <2>2. tail' \in Seq(Cell)
    BY <1>1, <1>2, <1>3
  <2>3. misused' \in BOOLEAN
    BY <1>1
  <2> QED
    BY <1>1, <1>2, <1>3, <2>1, <2>2, <2>3
<1>8. AW!TypeOK'
  BY <1>1, <1>6, <1>7, WriterTypes DEF AW!TypeOK, Cell
<1>9. file_open \/ file' = file
  BY <1>1
<1>10. tail' = SubSeq(tail \o b, writable + 1, Len(tail) + Len(b))
  BY <1>1, <1>2 DEF bytes
<1> QED
  BY <1>1, <1>2, <1>3, <1>5, <1>8, <1>9, <1>10 DEF bytes

(* flush_tail and close: the file ends where the segment ends.              *)
LEMMA SealCells ==
  ASSUME AW!TypeOK, logical_size <= write_offset + Len(tail), AW!FlushTail \/ AW!Close
  PROVE  /\ AW!TypeOK' /\ Wrote(file', file, write_offset, tail, Len(tail))
         /\ \A i \in DOMAIN file' : i <= write_offset + Len(tail)
         /\ file_open /\ tail' = <<>> /\ write_offset' >= write_offset + Len(tail)
         /\ UNCHANGED <<present, logical_size, stream>>
         /\ AW!FlushTail => file_open' = file_open
         /\ AW!Close => ~file_open'
<1>0. /\ file \in Seq(Cell) /\ tail \in Seq(Cell) /\ stream \in Seq(Cell) /\ write_offset \in Nat
      /\ logical_size \in Nat /\ Len(tail) \in Nat
  BY WriterTypes
<1>1. /\ file_open /\ file' = AW!Truncated(AW!WithTail, logical_size)
      /\ write_offset' = write_offset + AW!AlignUp(Len(tail))
      /\ tail' = <<>> /\ flushed' = Len(stream)
      /\ UNCHANGED <<present, logical_size, stream, misused>>
      /\ file_open' \in BOOLEAN
      /\ AW!FlushTail => file_open' = file_open
      /\ AW!Close => ~file_open'
  BY WriterTypes DEF AW!FlushTail, AW!Close
<1>2. Wrote(AW!WithTail, file, write_offset, tail, Len(tail)) /\ AW!WithTail \in Seq(Cell)
  BY WithTailCells DEF Wrote
<1>3. /\ file' \in Seq(Cell) /\ Len(file') = logical_size
      /\ \A i \in DOMAIN file' : IsRecord(file'[i]) => i \in DOMAIN AW!WithTail
         /\ file'[i] = AW!WithTail[i]
  BY <1>0, <1>1, <1>2, TruncatedCells
<1>4. Wrote(file', file, write_offset, tail, Len(tail))
  BY <1>2, <1>3 DEF Wrote
<1>5. \A i \in DOMAIN file' : i <= write_offset + Len(tail)
  BY <1>0, <1>3
<1>6. AW!AlignUp(Len(tail)) \in Nat /\ AW!AlignUp(Len(tail)) >= Len(tail)
  BY <1>0, PaddedCells
<1>7. write_offset' \in Nat /\ write_offset' >= write_offset + Len(tail)
  BY <1>0, <1>1, <1>6
<1>8. AW!TypeOK'
  BY <1>0, <1>1, <1>3, <1>7, WriterTypes DEF AW!TypeOK, Cell
<1> QED
  BY <1>1, <1>4, <1>5, <1>7, <1>8

(* flush_tail when its truncate fails: the padding stays.                   *)
LEMMA TruncateFailsCells ==
  ASSUME AW!TypeOK, AW!FlushTailTruncateFails
  PROVE  /\ AW!TypeOK' /\ Wrote(file', file, write_offset, tail, Len(tail))
         /\ file_open /\ tail' = <<>> /\ write_offset' >= write_offset + Len(tail)
         /\ UNCHANGED <<present, file_open, logical_size, stream>>
<1>0. /\ file \in Seq(Cell) /\ tail \in Seq(Cell) /\ write_offset \in Nat /\ Len(tail) \in Nat
  BY WriterTypes
<1>1. /\ file_open /\ file' = AW!WithTail
      /\ write_offset' = write_offset + AW!AlignUp(Len(tail))
      /\ tail' = <<>>
      /\ UNCHANGED <<present, file_open, logical_size, stream, flushed, misused>>
  BY DEF AW!FlushTailTruncateFails, AW!ghostVars
<1>2. Wrote(file', file, write_offset, tail, Len(tail)) /\ file' \in Seq(Cell)
  BY <1>1, WithTailCells DEF Wrote
<1>6. AW!AlignUp(Len(tail)) \in Nat /\ AW!AlignUp(Len(tail)) >= Len(tail)
  BY <1>0, PaddedCells
<1>7. write_offset' \in Nat /\ write_offset' >= write_offset + Len(tail)
  BY <1>0, <1>1, <1>6
<1>8. AW!TypeOK'
  BY <1>0, <1>1, <1>2, <1>7, WriterTypes DEF AW!TypeOK, Cell
<1> QED
  BY <1>1, <1>2, <1>7, <1>8

(* The operations that forget the writer's fields.                          *)
LEMMA ResetTypes ==
  ASSUME AW!TypeOK,
         \/ AW!RenameAway \/ AW!StartFails \/ AW!Crash \/ AW!Start(TruncateOnStart)
  PROVE  AW!TypeOK'
<1>1. <<>> \in Seq(Cell) /\ 0 \in Nat
  OBVIOUS
<1>2. /\ file \in Seq(Cell) /\ present \in BOOLEAN /\ file_open \in BOOLEAN /\ misused \in BOOLEAN
      /\ tail \in Seq(Cell) /\ write_offset \in Nat /\ logical_size \in Nat
  BY WriterTypes
<1>3. CASE AW!RenameAway
  BY <1>1, <1>2, <1>3 DEF AW!RenameAway, AW!memoryVars, AW!TypeOK, Cell
<1>4. CASE AW!StartFails
  BY <1>1, <1>2, <1>4 DEF AW!StartFails, AW!diskVars, AW!TypeOK, Cell
<1>5. CASE AW!Crash
  BY <1>1, <1>2, <1>5 DEF AW!Crash, AW!ProcessForgets, AW!diskVars, AW!TypeOK, Cell
<1>6. CASE AW!Start(TruncateOnStart)
  BY <1>1, <1>2, <1>6 DEF AW!Start, AW!TypeOK, Cell
<1> QED
  BY <1>3, <1>4, <1>5, <1>6

-----------------------------------------------------------------------------
(* The records of the flush in progress and of the queue.                   *)
Waiting == batch \o pending
(* The cells that go to the file from write_offset on.                      *)
Ahead == tail \o Waiting
(* How many of them a write that is under way, or that failed before, may   *)
(* have put there: a failed batch is back in the queue.                     *)
InFlight == Len(tail) + (IF flush.pc = "idle" THEN Len(pending) ELSE Len(batch))
(* The writer's fields describe the active file: not while the process is   *)
(* down, nor between opening the file and recovery, nor once stop has       *)
(* thrown.                                                                  *)
Attached == life \notin {"down", "recover", "stopped", "failed"}
(* The keys in whose order the records stand: by sequence number only if no *)
(* checkpoint fails.                                                        *)
Keys == IF "checkpoint" \in Faults THEN {"id"} ELSE {"id", "seq"}
(* The next key to be given.                                                *)
Number(k) == IF k = "id" THEN submitted + 1 ELSE sequence

(* What the places of flush, start and stop say of the rest of the state.   *)
Control ==
  /\ flush.pc # "append" => batch = <<>>
  /\ life \notin {"up", "stopping", "gate"} => flush.pc = "idle"
  /\ life \in {"down", "recover", "start_checkpoint"} => pending = <<>>
  /\ life \in {"down", "stopped"} => ~file_open
  /\ ~present => file = <<>> /\ ~file_open
  /\ flush.pc = "rename" => ~file_open
  /\ flush.pc = "checkpoint"
     \/ life \in {"start_checkpoint", "stop_checkpoint"} => CheckpointEnabled
  /\ flush.pc \in {"cleanup", "reopen"} => file = <<>> /\ ~file_open
  /\ logical_size <= write_offset + Len(tail)
  /\ Attached /\ ~file_open => \A i \in DOMAIN file : IsRecord(file[i]) => i <= write_offset

(* The active file, the tail, the batch and the queue are in order.         *)
Order ==
  /\ \A k \in Keys : Increasing(k, file)
  /\ Under("id", file, submitted + 1)
  /\ Attached => \A k \in Keys :
       Placed(k, file, write_offset, Ahead, InFlight, stream \o Waiting, Number(k))

(* So are the archives, before everything else.                             *)
Archived ==
  \A a \in DOMAIN archives :
    /\ Increasing("id", archives[a]) /\ Under("id", archives[a], submitted + 1)
    /\ \A b \in DOMAIN archives : a < b => AllBefore(archives[a], archives[b])
    /\ AllBefore(archives[a], file)
    /\ Attached => AllBefore(archives[a], Ahead)

(* The sidecar speaks of the file as it is.                                 *)
Covered == Attached /\ file_open /\ life # "start_checkpoint" /\ flush.pc # "checkpoint"

(* The sidecar's number is above the numbers of the records before the      *)
(* offset it names, those still in the tail included: recovery need not     *)
(* look at them.                                                            *)
Sidecar ==
  "checkpoint" \notin Faults =>
  /\ ~CheckpointEnabled => checkpoint = {}
  /\ \A c \in checkpoint : \A i \in DOMAIN file :
       i <= c.size /\ IsRecord(file[i]) => file[i].seq < c.seq
  /\ Covered => \A c \in checkpoint :
       /\ c.size <= write_offset + Len(tail)
       /\ \A j \in DOMAIN tail : write_offset + j <= c.size
          /\ IsRecord(tail[j]) => tail[j].seq < c.seq

(* The inductive invariant.                                                 *)
IndInv == TypeOK /\ Control /\ Order /\ Archived /\ Sidecar

-----------------------------------------------------------------------------
(* The keys are id and seq.                                                 *)
LEMMA KeyKinds == "id" \in Keys /\ Keys \subseteq {"id", "seq"}
                  /\ ("checkpoint" \notin Faults => "seq" \in Keys)
BY DEF Keys

(* The types of the cells ahead.                                            *)
LEMMA ViewTypes ==
  ASSUME TypeOK
  PROVE  /\ AW!TypeOK
         /\ file \in Seq(Cell) /\ tail \in Seq(Cell) /\ stream \in Seq(Cell)
         /\ write_offset \in Nat /\ logical_size \in Nat /\ file_open \in BOOLEAN
         /\ batch \in Seq(Record) /\ pending \in Seq(Record) /\ batch \in Seq(Cell)
            /\ pending \in Seq(Cell)
         /\ Waiting \in Seq(Cell) /\ Ahead \in Seq(Cell)
         /\ Len(tail) \in Nat /\ Len(batch) \in Nat /\ Len(pending) \in Nat
         /\ Len(Waiting) = Len(batch) + Len(pending)
            /\ Len(Ahead) = Len(tail) + Len(batch) + Len(pending)
         /\ InFlight \in Nat
         /\ submitted \in Nat /\ sequence \in Nat /\ archives \in Seq(Seq(Cell))
         /\ \A k : Number(k) \in Nat
<1>1. /\ AW!TypeOK /\ batch \in Seq(Record) /\ pending \in Seq(Record)
      /\ submitted \in Nat /\ sequence \in Nat /\ archives \in Seq(Seq(Cell))
  BY DEF TypeOK, Cell
<1>2. /\ file \in Seq(Cell) /\ tail \in Seq(Cell) /\ stream \in Seq(Cell)
      /\ write_offset \in Nat /\ logical_size \in Nat /\ file_open \in BOOLEAN
  BY <1>1, WriterTypes
<1>3. batch \in Seq(Cell) /\ pending \in Seq(Cell)
  BY <1>1 DEF Cell
<1>4. /\ Len(tail) \in Nat /\ Len(batch) \in Nat /\ Len(pending) \in Nat
  BY <1>2, <1>3
<1>5. Waiting \in Seq(Cell) /\ Len(Waiting) = Len(batch) + Len(pending)
  BY <1>3 DEF Waiting
<1>6. Ahead \in Seq(Cell) /\ Len(Ahead) = Len(tail) + Len(batch) + Len(pending)
  BY SMTT(30), <1>2, <1>4, <1>5 DEF Ahead
<1>7. InFlight \in Nat
  BY <1>4 DEF InFlight
<1>8. \A k : Number(k) \in Nat
  BY <1>1 DEF Number
<1> QED
  BY <1>1, <1>2, <1>3, <1>4, <1>5, <1>6, <1>7, <1>8

(* The same in the next state.                                              *)
LEMMA NextViews ==
  ASSUME TypeOK'
  PROVE  /\ InFlight' \in Nat /\ write_offset' \in Nat /\ Waiting' \in Seq(Cell)
            /\ Ahead' \in Seq(Cell)
         /\ tail' \in Seq(Cell) /\ file' \in Seq(Cell)
         /\ batch' \in Seq(Cell) /\ pending' \in Seq(Cell)
         /\ Len(Waiting)' = Len(batch') + Len(pending')
         /\ Len(Ahead)' = Len(tail') + Len(batch') + Len(pending')
         /\ Len(tail') \in Nat /\ Len(batch') \in Nat /\ Len(pending') \in Nat
<1>1. /\ tail' \in Seq(Cell) /\ batch' \in Seq(Cell) /\ pending' \in Seq(Cell)
      /\ write_offset' \in Nat /\ file' \in Seq(Cell)
  BY SMTT(30) DEF TypeOK, AW!TypeOK, Cell
<1>2. Len(tail') \in Nat /\ Len(batch') \in Nat /\ Len(pending') \in Nat
  BY <1>1
<1>3. Waiting' \in Seq(Cell) /\ Len(Waiting)' = Len(batch') + Len(pending')
  BY <1>1 DEF Waiting
<1>4. Ahead' \in Seq(Cell) /\ Len(Ahead)' = Len(tail') + Len(batch') + Len(pending')
  <2>1. Ahead' = tail' \o Waiting'
    BY DEF Ahead
  <2>2. Waiting' \in Seq(Cell) /\ Len(Waiting') = Len(batch') + Len(pending')
    BY <1>3
  <2>3. Ahead' \in Seq(Cell) /\ Len(Ahead') = Len(tail') + Len(Waiting')
    BY ONLY <1>1, <2>1, <2>2, ConcatProperties
  <2> QED
    BY <1>2, <2>2, <2>3
<1> QED
  BY <1>1, <1>2, <1>3, <1>4 DEF InFlight

(* The tail comes first, then the batch, then the queue.                    *)
LEMMA AheadParts ==
  ASSUME TypeOK
  PROVE  /\ \A j \in DOMAIN tail : j \in DOMAIN Ahead /\ Ahead[j] = tail[j]
         /\ \A j \in DOMAIN (tail \o batch) : j \in DOMAIN Ahead /\ Ahead[j] = (tail \o batch)[j]
         /\ \A j \in DOMAIN Waiting : Len(tail) + j \in DOMAIN Ahead
            /\ Ahead[Len(tail) + j] = Waiting[j]
         /\ Shifted(Waiting, Ahead, Len(tail))
<1>1. /\ tail \in Seq(Cell) /\ batch \in Seq(Cell) /\ pending \in Seq(Cell)
      /\ Len(tail) \in Nat /\ Len(batch) \in Nat /\ Len(pending) \in Nat
      /\ Waiting \in Seq(Cell) /\ Len(Waiting) = Len(batch) + Len(pending)
  BY ViewTypes
<1>2. \A j \in DOMAIN tail : j \in DOMAIN Ahead /\ Ahead[j] = tail[j]
  BY <1>1 DEF Ahead
<1>3. \A j \in DOMAIN Waiting : Len(tail) + j \in DOMAIN Ahead /\ Ahead[Len(tail) + j] = Waiting[j]
  BY <1>1 DEF Ahead
<1>4. \A j \in DOMAIN (tail \o batch) : j \in DOMAIN Ahead /\ Ahead[j] = (tail \o batch)[j]
  BY <1>1 DEF Ahead, Waiting
<1>5. Len(Ahead) = Len(tail) + Len(Waiting)
  BY <1>1, ViewTypes
<1> QED
  BY <1>1, <1>2, <1>3, <1>4, <1>5 DEF Shifted

(* A write keeps the file in order.                                         *)
LEMMA FileOrder ==
  ASSUME IndInv, Attached, NEW n \in Nat, n >= InFlight, Wrote(file', file, write_offset, Ahead, n)
  PROVE  /\ \A k \in Keys : Placed(k, file', write_offset, Ahead, n, stream \o Waiting, Number(k))
         /\ \A a \in DOMAIN archives : AllBefore(archives[a], file')
<1>0. TypeOK /\ file \in Seq(Cell) /\ Ahead \in Seq(Cell) /\ write_offset \in Nat
      /\ InFlight \in Nat
  BY ViewTypes DEF IndInv
<1>1. ASSUME NEW k \in Keys
      PROVE  Placed(k, file', write_offset, Ahead, n, stream \o Waiting, Number(k))
  <2>1. Placed(k, file, write_offset, Ahead, InFlight, stream \o Waiting, Number(k))
    BY DEF IndInv, Order
  <2>2. k \in {"id", "seq"}
    BY KeyKinds
  <2> QED
    BY <1>0, <2>1, <2>2, WritePlaces
<1>2. ASSUME NEW a \in DOMAIN archives
      PROVE  AllBefore(archives[a], file')
  BY DEF IndInv, Archived, AllBefore, Wrote
<1> QED
  BY <1>1, <1>2

(* What Placed says of each of its sequences.                               *)
LEMMA PlacedParts ==
  ASSUME NEW k, NEW f, NEW wo, NEW v, NEW n, NEW s, NEW b, Placed(k, f, wo, v, n, s, b)
  PROVE  Increasing(k, f) /\ Under(k, f, b) /\ Increasing(k, v) /\ Increasing(k, s)
         /\ Under(k, v, b)
         /\ Under(k, s, b)
BY DEF Placed, Fits

(* Order after a step, from its parts.                                      *)
LEMMA OrderOf ==
  ASSUME Attached' => \A k \in Keys :
           Placed(k, file', write_offset', Ahead', InFlight', (stream \o Waiting)', Number(k)'),
         \A k \in Keys : Increasing(k, file'), Under("id", file', submitted' + 1)
  PROVE  Order'
BY DEF Order, Keys

(* A step that writes and moves nothing keeps the order.                    *)
LEMMA WriteOrder ==
  ASSUME IndInv, TypeOK', NEW n \in Nat, n >= InFlight,
         file' = file \/ Attached, Wrote(file', file, write_offset, Ahead, n),
         UNCHANGED <<archives, submitted>>,
         Attached' => /\ Attached /\ InFlight' >= n /\ Waiting' = Waiting
                      /\ UNCHANGED <<tail, write_offset, stream, sequence>>
  PROVE  Order' /\ Archived'
<1>1. Order'
  <2>1. CASE Attached
    <3>1. \A k \in Keys : Placed(k, file', write_offset, Ahead, n, stream \o Waiting, Number(k))
      BY <2>1, FileOrder
    <3>2. \A k \in Keys : Increasing(k, file')
      BY <3>1, PlacedParts
    <3>3. Under("id", file', submitted' + 1)
      BY <3>1, KeyKinds DEF Placed, Number
    <3>4. ASSUME Attached', NEW k \in Keys
          PROVE  Placed(k, file', write_offset', Ahead', InFlight', (stream \o Waiting)',
                   Number(k)')
      <4>1. /\ write_offset' = write_offset /\ Ahead' = Ahead
               /\ (stream \o Waiting)' = stream \o Waiting
            /\ Number(k)' = Number(k)
        BY <3>4 DEF Ahead, Number
      <4>2. file' \in Seq(Cell) /\ Ahead \in Seq(Cell) /\ write_offset \in Nat
        BY ViewTypes DEF IndInv, Wrote
      <4>3. InFlight' \in Nat /\ InFlight' >= n
        BY <3>4, NextViews
      <4>4. k \in {"id", "seq"}
        BY KeyKinds
      <4>5. Placed(k, file', write_offset, Ahead, n, stream \o Waiting, Number(k))
        BY <3>1
      <4>6. DOMAIN file' \subseteq Nat
        BY <4>2
      <4>7. \A i \in DOMAIN file' : i - write_offset <= n => i - write_offset <= InFlight'
        BY <4>2, <4>3, <4>6
      <4>8. Placed(k, file', write_offset, Ahead, InFlight', stream \o Waiting, Number(k))
        BY <4>5, <4>7 DEF Placed, Fits
      <4> QED
        BY <4>1, <4>8
    <3> QED
      BY <3>2, <3>3, <3>4, OrderOf
  <2>2. CASE ~Attached
    <3>1. file' = file /\ ~Attached' /\ submitted' = submitted
      BY <2>2
    <3> QED
      BY <3>1, OrderOf DEF IndInv, Order
  <2> QED
    BY <2>1, <2>2
<1>2. Archived'
  <2>1. \A a \in DOMAIN archives : AllBefore(archives[a], file')
    <3>1. CASE Attached
      BY <3>1, FileOrder
    <3>2. CASE file' = file
      BY <3>2 DEF IndInv, Archived
    <3> QED
      BY <3>1, <3>2
  <2>2. Attached' => Attached /\ Ahead' = Ahead
    BY DEF Ahead
  <2> QED
    BY <2>1, <2>2 DEF IndInv, Archived
<1> QED
  BY <1>1, <1>2

(* Taking cells from the front of a sequence takes them from the front of   *)
(* it and what follows.                                                     *)
LEMMA ConcatShifted ==
  ASSUME NEW x \in Seq(Cell), NEW p \in Seq(Cell), NEW u \in Seq(Cell), NEW m \in Nat, m <= Len(x),
         Len(u) = Len(x) - m, \A j \in 1..Len(u) : u[j] = x[m + j]
  PROVE  Shifted(u \o p, x \o p, m)
<1> DEFINE v == x \o p
           w == u \o p
<1>0. Len(x) \in Nat /\ Len(p) \in Nat /\ Len(u) \in Nat
  OBVIOUS
<1>5. /\ w \in Seq(Cell) /\ Len(w) = Len(u) + Len(p)
      /\ \A j \in 1..(Len(u) + Len(p)) : w[j] = IF j <= Len(u) THEN u[j] ELSE p[j - Len(u)]
  BY ConcatProperties
<1>6. /\ v \in Seq(Cell) /\ Len(v) = Len(x) + Len(p)
      /\ \A j \in 1..(Len(x) + Len(p)) : v[j] = IF j <= Len(x) THEN x[j] ELSE p[j - Len(x)]
  BY ConcatProperties
<1> HIDE DEF v, w
<1>7. DOMAIN w = 1..(Len(u) + Len(p)) /\ DOMAIN v = 1..(Len(x) + Len(p))
  BY <1>5, <1>6
<1>8. ASSUME NEW j \in DOMAIN w PROVE m + j \in DOMAIN v /\ w[j] = v[m + j]
  <2>1. j \in 1..(Len(u) + Len(p)) /\ m + j \in 1..(Len(x) + Len(p)) /\ j \in Nat
    BY <1>0, <1>7
  <2>2. CASE j <= Len(u)
    <3>1. j \in 1..Len(u) /\ m + j <= Len(x)
      BY <1>0, <2>1, <2>2
    <3>2. w[j] = u[j] /\ u[j] = x[m + j]
      BY <1>5, <2>1, <2>2, <3>1
    <3>3. v[m + j] = x[m + j]
      BY <1>6, <2>1, <3>1
    <3> QED
      BY <1>7, <2>1, <3>2, <3>3
  <2>3. CASE ~(j <= Len(u))
    <3>1. ~(m + j <= Len(x)) /\ (m + j) - Len(x) = j - Len(u)
      BY <1>0, <2>1, <2>3
    <3>2. w[j] = p[j - Len(u)]
      BY <1>5, <2>1, <2>3
    <3>3. v[m + j] = p[(m + j) - Len(x)]
      BY <1>6, <2>1, <3>1
    <3> QED
      BY <1>7, <2>1, <3>1, <3>2, <3>3
  <2> QED
    BY <2>2, <2>3
<1>9. m <= Len(v) /\ Len(w) = Len(v) - m
  BY <1>0, <1>5, <1>6
<1> QED
  BY <1>5, <1>8, <1>9 DEF Shifted, v, w

(* append_batch moves cells from the queue's side to the file's, in order.  *)
LEMMA AppendOrder ==
  ASSUME IndInv, TypeOK', Attached, flush.pc = "append", NEW m \in Nat, m <= Len(tail) + Len(batch),
         Wrote(file', file, write_offset, tail \o batch, Len(tail) + Len(batch)),
         write_offset' = write_offset + m,
         tail' = SubSeq(tail \o batch, m + 1, Len(tail) + Len(batch)),
         stream' = stream \o batch, batch' = <<>>,
         UNCHANGED <<archives, submitted, sequence, pending>>
  PROVE  Order' /\ Archived'
<1>0. /\ TypeOK /\ file \in Seq(Cell) /\ tail \in Seq(Cell) /\ stream \in Seq(Cell)
      /\ batch \in Seq(Cell) /\ pending \in Seq(Cell) /\ Ahead \in Seq(Cell)
      /\ Len(tail) \in Nat /\ Len(batch) \in Nat /\ Len(pending) \in Nat
      /\ Len(Ahead) = Len(tail) + Len(batch) + Len(pending)
      /\ write_offset \in Nat
  BY ViewTypes DEF IndInv
<1>1. InFlight = Len(tail) + Len(batch) /\ InFlight \in Nat
  BY <1>0 DEF InFlight
<1>2. /\ tail \o batch \in Seq(Cell) /\ Len(tail \o batch) = Len(tail) + Len(batch)
  BY <1>0
<1>3. \A j \in DOMAIN (tail \o batch) : j \in DOMAIN Ahead /\ Ahead[j] = (tail \o batch)[j]
  BY <1>0, AheadParts
<1>4. Wrote(file', file, write_offset, Ahead, InFlight)
  <2>1. \A i : i - write_offset <= Len(tail) + Len(batch) => i - write_offset <= InFlight
    BY <1>1
  <2> QED
    BY <1>3, <2>1 DEF Wrote
<1>5. /\ \A k \in Keys : Placed(k, file', write_offset, Ahead, InFlight, stream \o Waiting,
           Number(k))
      /\ \A a \in DOMAIN archives : AllBefore(archives[a], file')
  <2>1. InFlight >= InFlight
    BY <1>1
  <2> QED
    BY <1>1, <1>4, <2>1, FileOrder
<1>6. Waiting' = pending /\ Waiting = batch \o pending
  <2>1. <<>> \o pending = pending
    BY <1>0, ConcatEmptySeq
  <2> QED
    BY <2>1 DEF Waiting
<1>7. Shifted(Ahead', Ahead, m) /\ Len(tail') = Len(tail) + Len(batch) - m
  <2>1. Ahead' = tail' \o pending /\ Ahead = tail \o (batch \o pending)
    BY <1>6 DEF Ahead
  <2> DEFINE x == tail \o batch
  <2>2. x \in Seq(Cell) /\ Len(x) = Len(tail) + Len(batch) /\ Len(x) \in Nat
    BY <1>0
  <2>3. tail \o (batch \o pending) = x \o pending
    <3>1. tail \in Seq(Cell) /\ batch \in Seq(Cell) /\ pending \in Seq(Cell)
      BY <1>0
    <3> QED
      BY ONLY <3>1, ConcatAssociative
  <2>4. tail' = SubSeq(x, m + 1, Len(x))
    BY <2>2
  <2> HIDE DEF x
  <2>5. \A i \in (m + 1)..Len(x) : x[i] \in Cell
    BY <2>2
  <2>6. /\ Len(tail') = IF m + 1 <= Len(x) THEN Len(x) - (m + 1) + 1 ELSE 0
        /\ \A j \in 1..(Len(x) - (m + 1) + 1) : tail'[j] = x[m + 1 + j - 1]
    <3>1. m + 1 \in Int /\ Len(x) \in Int
      BY <2>2
    <3> QED
      BY ONLY <2>4, <2>5, <3>1, SubSeqProperties
  <2>7. m <= Len(x) /\ tail' \in Seq(Cell)
    BY <2>2, NextViews
  <2>8. Len(tail') = Len(x) - m
    BY <2>2, <2>6, <2>7
  <2>9. \A j \in 1..Len(tail') : tail'[j] = x[m + j]
    <3>1. \A j \in 1..Len(tail') : j \in 1..(Len(x) - (m + 1) + 1) /\ m + 1 + j - 1 = m + j
      BY <2>2, <2>8
    <3> QED
      BY <2>6, <3>1
  <2>10. Shifted(tail' \o pending, x \o pending, m)
    <3>1. pending \in Seq(Cell)
      BY <1>0
    <3> QED
      BY ONLY <2>2, <2>7, <2>8, <2>9, <3>1, ConcatShifted, m \in Nat
  <2> QED
    BY <2>1, <2>2, <2>3, <2>8, <2>10
<1>71. stream' \o Waiting' = stream \o Waiting
  <2>1. (stream \o batch) \o pending = stream \o (batch \o pending)
    <3>1. stream \in Seq(Cell) /\ batch \in Seq(Cell) /\ pending \in Seq(Cell)
      BY <1>0
    <3> QED
      BY ONLY <3>1, ConcatAssociative
  <2> QED
    BY <1>6, <2>1
<1>8. InFlight' \in Nat /\ InFlight <= m + InFlight'
  <2>1. InFlight' \in Nat /\ Len(tail') \in Nat /\ Len(batch') \in Nat /\ Len(pending') \in Nat
    BY NextViews
  <2>2. InFlight' = Len(tail') + (IF flush'.pc = "idle" THEN Len(pending') ELSE Len(batch'))
    BY DEF InFlight
  <2>3. InFlight' >= Len(tail')
    BY ONLY <2>1, <2>2
  <2> QED
    BY ONLY <1>0, <1>1, <1>7, <2>1, <2>3, m \in Nat
<1>9. \A k \in Keys : Placed(k, file', write_offset', Ahead', InFlight', (stream \o Waiting)',
        Number(k)')
  <2>1. ASSUME NEW k \in Keys
        PROVE  Placed(k, file', write_offset + m, Ahead', InFlight', stream \o Waiting, Number(k))
    <3>1. k \in {"id", "seq"} /\ file' \in Seq(Cell)
      BY KeyKinds, NextViews
    <3>2. Placed(k, file', write_offset, Ahead, InFlight, stream \o Waiting, Number(k))
      BY <1>5
    <3> QED
      BY <1>0, <1>1, <1>7, <1>8, <3>1, <3>2, AdvancePlaces
  <2>2. \A k \in Keys : Number(k)' = Number(k)
    BY DEF Number
  <2>3. (stream \o Waiting)' = stream \o Waiting
    BY <1>71
  <2> QED
    BY <2>1, <2>2, <2>3
<1>10. Order'
  <2>1. \A k \in Keys : Increasing(k, file')
    BY <1>9, PlacedParts
  <2>2. Under("id", file', submitted' + 1)
    BY <1>5, KeyKinds DEF Placed, Number
  <2> QED
    BY <1>9, <2>1, <2>2, OrderOf
<1>11. Archived'
  <2>1. \A a \in DOMAIN archives : AllBefore(archives[a], Ahead')
    <3>1. \A j \in DOMAIN Ahead' : m + j \in DOMAIN Ahead /\ Ahead'[j] = Ahead[m + j]
      BY <1>7 DEF Shifted
    <3> QED
      BY <3>1 DEF IndInv, Archived, AllBefore
  <2> QED
    BY <1>5, <2>1 DEF IndInv, Archived
<1> QED
  BY <1>10, <1>11

(* flush_tail moves the tail to the file, and the offset up to the end of   *)
(* the block.                                                               *)
LEMMA SealOrder ==
  ASSUME IndInv, TypeOK', Attached, Wrote(file', file, write_offset, tail, Len(tail)),
         tail' = <<>>, write_offset' >= write_offset + Len(tail),
         \A i \in DOMAIN file' : IsRecord(file'[i]) => i <= write_offset + Len(tail),
         Waiting' = Waiting,
         UNCHANGED <<archives, submitted, sequence, stream>>
  PROVE  Order' /\ Archived'
<1>0. /\ TypeOK /\ file \in Seq(Cell) /\ tail \in Seq(Cell) /\ Ahead \in Seq(Cell)
         /\ Waiting \in Seq(Cell)
      /\ Len(tail) \in Nat /\ Len(batch) \in Nat /\ Len(pending) \in Nat
      /\ Len(Ahead) = Len(tail) + Len(batch) + Len(pending)
      /\ write_offset \in Nat /\ write_offset' \in Nat /\ InFlight \in Nat /\ InFlight' \in Nat
      /\ file' \in Seq(Cell)
  BY ViewTypes, NextViews DEF IndInv
<1> DEFINE n == InFlight
<1>1. Len(tail) <= n
  BY <1>0 DEF InFlight
<1> HIDE DEF n
<1>2. n \in Nat /\ n >= InFlight
  BY <1>0 DEF n
<1>3. \A j \in DOMAIN tail : Ahead[j] = tail[j]
  BY <1>0, AheadParts
<1>4. Wrote(file', file, write_offset, Ahead, n)
  <2>1. Len(tail) <= Len(Ahead)
    BY <1>0
  <2> QED
    BY <1>0, <1>1, <1>2, <1>3, <2>1, PrefixWrote
<1>5. /\ \A k \in Keys : Placed(k, file', write_offset, Ahead, n, stream \o Waiting, Number(k))
      /\ \A a \in DOMAIN archives : AllBefore(archives[a], file')
  BY <1>0, <1>2, <1>4, FileOrder
<1>6. Ahead' = Waiting
  BY <1>0 DEF Ahead
<1>7. Shifted(Waiting, Ahead, Len(tail))
  BY <1>0, AheadParts
<1>8. \A k \in Keys : Placed(k, file', write_offset', Ahead', InFlight', (stream \o Waiting)',
        Number(k)')
  <2>1. ASSUME NEW k \in Keys
        PROVE  Placed(k, file', write_offset', Waiting, InFlight', stream \o Waiting, Number(k))
    <3>1. k \in {"id", "seq"}
      BY KeyKinds
    <3>2. Placed(k, file', write_offset, Ahead, n, stream \o Waiting, Number(k))
      BY <1>5
    <3> QED
      BY <1>0, <1>2, <1>7, <3>1, <3>2, SealPlaces
  <2>2. \A k \in Keys : Number(k)' = Number(k)
    BY DEF Number
  <2>3. (stream \o Waiting)' = stream \o Waiting
    OBVIOUS
  <2> QED
    BY <1>6, <2>1, <2>2, <2>3
<1>9. Order'
  <2>1. \A k \in Keys : Increasing(k, file')
    BY <1>8, PlacedParts
  <2>2. Under("id", file', submitted' + 1)
    BY <1>5, KeyKinds DEF Placed, Number
  <2> QED
    BY <1>8, <2>1, <2>2, OrderOf
<1>10. Archived'
  <2>1. \A a \in DOMAIN archives : AllBefore(archives[a], Ahead')
    <3>1. \A j \in DOMAIN Waiting : Len(tail) + j \in DOMAIN Ahead
          /\ Waiting[j] = Ahead[Len(tail) + j]
      BY <1>7 DEF Shifted
    <3> QED
      BY <1>6, <3>1 DEF IndInv, Archived, AllBefore
  <2> QED
    BY <1>5, <2>1 DEF IndInv, Archived
<1> QED
  BY <1>9, <1>10

(* Nothing is in order.                                                     *)
LEMMA EmptyCells ==
  /\ \A k : Increasing(k, <<>>)
  /\ \A k, b : Under(k, <<>>, b)
  /\ \A c : AllBefore(c, <<>>)
BY DEF Increasing, Under, AllBefore

(* Everything fits an empty file.                                           *)
LEMMA EmptyPlaces ==
  ASSUME NEW k, NEW f, NEW wo, NEW v, NEW n, NEW s, NEW b, f = <<>>,
         Increasing(k, v), Increasing(k, s), Under(k, v, b), Under(k, s, b)
  PROVE  Placed(k, f, wo, v, n, s, b)
<1>1. DOMAIN f = {}
  OBVIOUS
<1> QED
  BY <1>1 DEF Placed, Fits, Increasing, Under

(* What is left of cells in order is in order.                              *)
LEMMA SuffixCells ==
  ASSUME NEW k, NEW v \in Seq(Cell), NEW w, NEW m
           \in Nat, NEW b, Increasing(k, v), Under(k, v, b), Shifted(w, v, m)
  PROVE  Increasing(k, w) /\ Under(k, w, b)
<1>1. \A j \in DOMAIN w : m + j \in DOMAIN v /\ w[j] = v[m + j]
  BY DEF Shifted
<1>2. DOMAIN w \subseteq Nat
  BY DEF Shifted
<1>3. \A i, j \in DOMAIN w : i < j => m + i < m + j
  BY <1>2
<1> QED
  BY <1>1, <1>3 DEF Increasing, Under

(* The second of two sequences is what is left after the first.             *)
LEMMA ConcatSuffix ==
  ASSUME NEW p \in Seq(Cell), NEW q \in Seq(Cell)
  PROVE  Shifted(q, p \o q, Len(p))
<1>1. p \o q \in Seq(Cell) /\ Len(p \o q) = Len(p) + Len(q) /\ Len(p) \in Nat /\ Len(q) \in Nat
  OBVIOUS
<1>2. \A j \in DOMAIN q : Len(p) + j \in DOMAIN (p \o q) /\ q[j] = (p \o q)[Len(p) + j]
  OBVIOUS
<1> QED
  BY <1>1, <1>2 DEF Shifted

(* A new segment starts empty; the queue stays.                             *)
LEMMA ReopenOrder ==
  ASSUME IndInv, TypeOK', Attached, file' = <<>>, tail' = <<>>, stream' = <<>>, Waiting' = Waiting,
         UNCHANGED <<archives, submitted, sequence>>
  PROVE  Order' /\ Archived'
<1>0. TypeOK /\ Ahead \in Seq(Cell) /\ Waiting \in Seq(Cell) /\ Len(tail) \in Nat
  BY ViewTypes DEF IndInv
<1>1. Shifted(Waiting, Ahead, Len(tail))
  BY <1>0, AheadParts
<1>2. Ahead' = Waiting /\ (stream \o Waiting)' = Waiting
  <2>1. <<>> \o Waiting = Waiting
    BY ONLY <1>0, ConcatEmptySeq
  <2> QED
    BY <2>1 DEF Ahead
<1>3. \A k \in Keys : Increasing(k, Waiting) /\ Under(k, Waiting, Number(k))
  <2>1. ASSUME NEW k \in Keys PROVE Increasing(k, Waiting) /\ Under(k, Waiting, Number(k))
    <3>1. Increasing(k, Ahead) /\ Under(k, Ahead, Number(k))
      BY PlacedParts DEF IndInv, Order
    <3> QED
      BY <1>0, <1>1, <3>1, SuffixCells
  <2> QED
    BY <2>1
<1>4. \A k \in Keys : Placed(k, file', write_offset', Ahead', InFlight', (stream \o Waiting)',
        Number(k)')
  <2>1. \A k \in Keys : Number(k)' = Number(k)
    BY DEF Number
  <2> QED
    BY <1>2, <1>3, <2>1, EmptyPlaces
<1>5. Order'
  BY <1>4, EmptyCells, OrderOf
<1>6. Archived'
  <2>1. \A j \in DOMAIN Waiting : Len(tail) + j \in DOMAIN Ahead
        /\ Waiting[j] = Ahead[Len(tail) + j]
    BY <1>1 DEF Shifted
  <2>2. \A a \in DOMAIN archives : AllBefore(archives[a], Ahead')
    BY <1>2, <2>1 DEF IndInv, Archived, AllBefore
  <2> QED
    BY <2>2, EmptyCells DEF IndInv, Archived
<1> QED
  BY <1>5, <1>6

(* start either leaves the file to recovery or empties it.                  *)
LEMMA StartOrder ==
  ASSUME IndInv, TypeOK', UNCHANGED <<archives, submitted>>,
         \/ ~Attached' /\ file' = file
         \/ file' = <<>> /\ tail' = <<>> /\ batch' = <<>> /\ pending' = <<>> /\ stream' = <<>>
  PROVE  Order' /\ Archived'
<1>1. CASE ~Attached' /\ file' = file
  <2>1. Order'
    BY <1>1, OrderOf DEF IndInv, Order
  <2>2. Archived'
    BY <1>1 DEF IndInv, Archived
  <2> QED
    BY <2>1, <2>2
<1>2. CASE file' = <<>> /\ tail' = <<>> /\ batch' = <<>> /\ pending' = <<>> /\ stream' = <<>>
  <2>1. Waiting' = <<>> /\ Ahead' = <<>> /\ (stream \o Waiting)' = <<>>
    <3>1. <<>> \o <<>> = <<>>
      OBVIOUS
    <3> QED
      BY <1>2, <3>1 DEF Waiting, Ahead
  <2>2. \A k \in Keys : Placed(k, file', write_offset', Ahead', InFlight', (stream \o Waiting)',
          Number(k)')
    BY <1>2, <2>1, EmptyCells, EmptyPlaces
  <2>3. Order'
    BY <1>2, <2>2, EmptyCells, OrderOf
  <2>4. Archived'
    BY <1>2, <2>1, EmptyCells DEF IndInv, Archived
  <2> QED
    BY <2>3, <2>4
<1> QED
  BY <1>1, <1>2

(* One element taken out of a sequence: the others are there still, in the  *)
(* order they were in.                                                      *)
LEMMA OneRemoved ==
  ASSUME NEW S, NEW s \in Seq(S), NEW k \in DOMAIN s
  PROVE  /\ RemoveAt(s, k) \in Seq(S)
         /\ Len(RemoveAt(s, k)) = Len(s) - 1
         /\ \A a \in DOMAIN RemoveAt(s, k) : a < k => a \in DOMAIN s /\ RemoveAt(s, k)[a] = s[a]
         /\ \A a \in DOMAIN RemoveAt(s, k) :
              a >= k => a + 1 \in DOMAIN s /\ RemoveAt(s, k)[a] = s[a + 1]
<1> DEFINE front == SubSeq(s, 1, k - 1)
           back  == SubSeq(s, k + 1, Len(s))
           rest  == RemoveAt(s, k)
<1>1. Len(s) \in Nat /\ DOMAIN s = 1..Len(s) /\ k \in 1..Len(s)
  OBVIOUS
<1>2. \A i \in 1..Len(s) : s[i] \in S
  BY <1>1
<1>3. /\ front \in Seq(S) /\ Len(front) = k - 1
      /\ \A i \in 1..(k - 1) : front[i] = s[i]
  <2>1. 1 \in Int /\ k - 1 \in Int /\ \A i \in 1..(k - 1) : s[i] \in S
    BY <1>1, <1>2
  <2>2. /\ front \in Seq(S) /\ Len(front) = (IF 1 <= k - 1 THEN k - 1 - 1 + 1 ELSE 0)
        /\ \A i \in 1..(k - 1 - 1 + 1) : front[i] = s[1 + i - 1]
    BY ONLY <2>1, SubSeqProperties
  <2> HIDE DEF front
  <2>3. \A i \in 1..(k - 1) : front[i] = s[i]
    <3> SUFFICES ASSUME NEW i \in 1..(k - 1) PROVE front[i] = s[i]
      OBVIOUS
    <3>1. i \in 1..(k - 1 - 1 + 1) /\ 1 + i - 1 = i
      BY <1>1
    <3>2. front[i] = s[1 + i - 1]
      BY ONLY <2>2, <3>1
    <3> QED
      BY ONLY <3>1, <3>2
  <2> QED
    BY <1>1, <2>2, <2>3
<1>4. /\ back \in Seq(S) /\ Len(back) = Len(s) - k
      /\ \A i \in 1..(Len(s) - k) : back[i] = s[k + i]
  <2>1. k + 1 \in Int /\ Len(s) \in Int /\ \A i \in (k + 1)..Len(s) : s[i] \in S
    BY <1>1, <1>2
  <2>2. /\ back \in Seq(S) /\ Len(back) = (IF k + 1 <= Len(s) THEN Len(s) - (k + 1) + 1 ELSE 0)
        /\ \A i \in 1..(Len(s) - (k + 1) + 1) : back[i] = s[k + 1 + i - 1]
    BY ONLY <2>1, SubSeqProperties
  <2> HIDE DEF back
  <2>3. \A i \in 1..(Len(s) - k) : back[i] = s[k + i]
    <3> SUFFICES ASSUME NEW i \in 1..(Len(s) - k) PROVE back[i] = s[k + i]
      OBVIOUS
    <3>1. i \in 1..(Len(s) - (k + 1) + 1) /\ k + 1 + i - 1 = k + i
      BY <1>1
    <3>2. back[i] = s[k + 1 + i - 1]
      BY ONLY <2>2, <3>1
    <3> QED
      BY ONLY <3>1, <3>2
  <2> QED
    BY <1>1, <2>2, <2>3
<1>5. rest = front \o back
  BY DEF RemoveAt
<1> HIDE DEF front, back, rest
<1>6. /\ rest \in Seq(S) /\ Len(rest) = Len(front) + Len(back)
      /\ \A a \in 1..(Len(front) + Len(back)) :
           rest[a] = IF a <= Len(front) THEN front[a] ELSE back[a - Len(front)]
  BY <1>3, <1>4, <1>5, ConcatProperties
<1>7. Len(rest) = Len(s) - 1 /\ DOMAIN rest = 1..(Len(s) - 1)
  BY <1>1, <1>3, <1>4, <1>6
<1>8. ASSUME NEW a \in DOMAIN rest, a < k
      PROVE  a \in DOMAIN s /\ rest[a] = s[a]
  <2>1. a \in 1..(k - 1) /\ a \in 1..(Len(front) + Len(back)) /\ a <= Len(front) /\ a \in 1..Len(s)
    BY <1>1, <1>3, <1>4, <1>7, <1>8
  <2> QED
    BY <1>1, <1>3, <1>6, <2>1
<1>9. ASSUME NEW a \in DOMAIN rest, a >= k
      PROVE  a + 1 \in DOMAIN s /\ rest[a] = s[a + 1]
  <2>1. /\ a - Len(front) \in 1..(Len(s) - k) /\ a \in 1..(Len(front) + Len(back))
        /\ ~(a <= Len(front)) /\ a + 1 \in 1..Len(s) /\ k + (a - Len(front)) = a + 1
    BY <1>1, <1>3, <1>4, <1>7, <1>9
  <2>2. rest[a] = back[a - Len(front)]
    BY <1>6, <2>1
  <2>3. back[a - Len(front)] = s[k + (a - Len(front))]
    BY <1>4, <2>1
  <2> QED
    BY <1>1, <2>1, <2>2, <2>3
<1> QED
  BY <1>6, <1>7, <1>8, <1>9 DEF rest

(* ... every other element is among the rest.                               *)
LEMMA OthersStay ==
  ASSUME NEW S, NEW s \in Seq(S), NEW k \in DOMAIN s, NEW i \in DOMAIN s, i # k
  PROVE  \E a \in DOMAIN RemoveAt(s, k) : RemoveAt(s, k)[a] = s[i]
<1> DEFINE rest == RemoveAt(s, k)
<1>1. /\ Len(s) \in Nat /\ i \in 1..Len(s) /\ k \in 1..Len(s)
      /\ Len(rest) = Len(s) - 1 /\ rest \in Seq(S)
      /\ \A a \in DOMAIN rest : a < k => rest[a] = s[a]
      /\ \A a \in DOMAIN rest : a >= k => rest[a] = s[a + 1]
  BY OneRemoved
<1> HIDE DEF rest
<1>2. DOMAIN rest = 1..(Len(s) - 1)
  BY <1>1
<1>3. CASE i < k
  BY <1>1, <1>2, <1>3 DEF rest
<1>4. CASE i > k
  <2>1. i - 1 \in DOMAIN rest /\ i - 1 >= k /\ (i - 1) + 1 = i
    BY <1>1, <1>2, <1>4
  <2>2. rest[i - 1] = s[(i - 1) + 1]
    BY <1>1, <2>1
  <2> QED
    BY <2>1, <2>2 DEF rest
<1> QED
  BY <1>1, <1>3, <1>4

(* The sealed segment becomes the newest archive: its records are older     *)
(* than what is ahead.                                                      *)
LEMMA RenameOrder ==
  ASSUME IndInv, TypeOK', Attached, ~file_open, file' = <<>>, stream' = <<>>, Waiting' = Waiting,
         archives' = Append(archives, file),
         UNCHANGED <<tail, write_offset, submitted, sequence>>
  PROVE  Order' /\ Archived'
<1>0. /\ TypeOK /\ Ahead \in Seq(Cell) /\ Waiting \in Seq(Cell) /\ stream \in Seq(Cell)
         /\ file \in Seq(Cell)
      /\ archives \in Seq(Seq(Cell))
  BY ViewTypes DEF IndInv
<1>1. Ahead' = Ahead
  BY DEF Ahead
<1>2. \A k \in Keys : Number(k)' = Number(k)
  BY DEF Number
<1>3. Order'
  <2>1. ASSUME NEW k \in Keys
        PROVE  Increasing(k, Waiting) /\ Under(k, Waiting, Number(k))
    <3>1. Increasing(k, stream \o Waiting) /\ Under(k, stream \o Waiting, Number(k))
      BY PlacedParts DEF IndInv, Order
    <3>2. Shifted(Waiting, stream \o Waiting, Len(stream)) /\ Len(stream) \in Nat
          /\ stream \o Waiting \in Seq(Cell)
      BY <1>0, ConcatSuffix
    <3> QED
      BY <3>1, <3>2, SuffixCells
  <2>2. (stream \o Waiting)' = Waiting
    BY <1>0, ConcatEmptySeq
  <2>3. ASSUME NEW k \in Keys
        PROVE  Placed(k, file', write_offset', Ahead', InFlight', (stream \o Waiting)', Number(k)')
    <3>1. Increasing(k, Ahead) /\ Under(k, Ahead, Number(k))
      BY PlacedParts DEF IndInv, Order
    <3> QED
      BY <1>1, <1>2, <2>1, <2>2, <3>1, EmptyPlaces
  <2> QED
    BY <2>3, EmptyCells, OrderOf
<1> DEFINE segments == Append(archives, file)
<1>4. /\ segments \in Seq(Seq(Cell)) /\ Len(segments) = Len(archives) + 1 /\ Len(archives) \in Nat
      /\ DOMAIN segments = 1..(Len(archives) + 1)
      /\ \A a \in DOMAIN archives : segments[a] = archives[a]
      /\ segments[Len(archives) + 1] = file
      /\ DOMAIN archives = 1..Len(archives)
  BY <1>0
<1> HIDE DEF segments
<1>5. ASSUME NEW a \in DOMAIN segments
      PROVE  /\ Increasing("id", segments[a]) /\ Under("id", segments[a], submitted + 1)
             /\ AllBefore(segments[a], Ahead)
             /\ \A b \in DOMAIN segments : a < b => AllBefore(segments[a], segments[b])
  <2>1. CASE a \in DOMAIN archives
    <3>1. segments[a] = archives[a]
      BY <1>4, <2>1
    <3>2. /\ Increasing("id", archives[a]) /\ Under("id", archives[a], submitted + 1)
          /\ AllBefore(archives[a], Ahead) /\ AllBefore(archives[a], file)
          /\ \A b \in DOMAIN archives : a < b => AllBefore(archives[a], archives[b])
      BY <2>1 DEF IndInv, Archived
    <3>3. ASSUME NEW b \in DOMAIN segments, a < b PROVE AllBefore(segments[a], segments[b])
      <4>1. b \in DOMAIN archives \/ b = Len(archives) + 1
        BY <1>4
      <4> QED
        BY <1>4, <3>1, <3>2, <3>3, <4>1
    <3> QED
      BY <3>1, <3>2, <3>3
  <2>2. CASE a \notin DOMAIN archives
    <3>1. a = Len(archives) + 1 /\ segments[a] = file /\ \A b \in DOMAIN segments : ~(a < b)
      BY <1>4, <2>2
    <3>2. Placed("id", file, write_offset, Ahead, InFlight, stream \o Waiting, submitted + 1)
      BY KeyKinds DEF IndInv, Order, Number
    <3>3. Increasing("id", file) /\ Under("id", file, submitted + 1)
      BY <3>2, PlacedParts
    <3>4. AllBefore(file, Ahead)
      <4>1. \A i \in DOMAIN file : IsRecord(file[i]) => i <= write_offset
        BY DEF IndInv, Control
      <4> QED
        BY <3>2, <4>1 DEF Placed, Fits, AllBefore
    <3> QED
      BY <3>1, <3>3, <3>4
  <2> QED
    BY <2>1, <2>2
<1>6. archives' = segments
  BY DEF segments
<1>7. Archived'
  BY <1>1, <1>5, <1>6, EmptyCells DEF Archived
<1> QED
  BY <1>3, <1>7

(* The order stays when an archive goes.                                    *)
LEMMA CleanupOrder ==
  ASSUME IndInv, NEW k \in DOMAIN archives, archives' = RemoveAt(archives, k),
         UNCHANGED <<file, tail, write_offset, stream, pending, batch, life, submitted, sequence>>,
         flush' = flush
  PROVE  Order' /\ Archived'
<1>0. archives \in Seq(Seq(Cell))
  BY ViewTypes DEF IndInv
<1>1. /\ Ahead' = Ahead /\ Waiting' = Waiting /\ InFlight' = InFlight /\ (Attached' <=> Attached)
      /\ \A n \in Keys : Number(n)' = Number(n)
  BY DEF Ahead, Waiting, InFlight, Attached, Number
<1>2. Order'
  <2>1. (stream \o Waiting)' = stream \o Waiting
    BY <1>1
  <2> QED
    BY <1>1, <2>1, OrderOf DEF IndInv, Order
<1> DEFINE was(a) == IF a < k THEN a ELSE a + 1
<1>3. /\ \A a \in DOMAIN archives' : was(a) \in DOMAIN archives /\ archives'[a] = archives[was(a)]
      /\ \A a, b \in DOMAIN archives' : a < b => was(a) < was(b)
  <2>1. /\ RemoveAt(archives, k) \in Seq(Seq(Cell))
        /\ \A a \in DOMAIN RemoveAt(archives, k) :
             a < k => a \in DOMAIN archives /\ RemoveAt(archives, k)[a] = archives[a]
        /\ \A a \in DOMAIN RemoveAt(archives, k) :
             a >= k => a + 1 \in DOMAIN archives /\ RemoveAt(archives, k)[a] = archives[a + 1]
    BY ONLY <1>0, k \in DOMAIN archives, OneRemoved
  <2>2. DOMAIN archives' \subseteq Int /\ k \in Int
    BY <1>0, <2>1
  <2> QED
    BY <2>1, <2>2
<1>4. ASSUME NEW a \in DOMAIN archives'
      PROVE  /\ Increasing("id", archives'[a]) /\ Under("id", archives'[a], submitted + 1)
             /\ \A b \in DOMAIN archives' : a < b => AllBefore(archives'[a], archives'[b])
             /\ AllBefore(archives'[a], file)
             /\ Attached => AllBefore(archives'[a], Ahead)
  <2>1. was(a) \in DOMAIN archives /\ archives'[a] = archives[was(a)]
    BY <1>3
  <2>2. \A b \in DOMAIN archives' : a < b => /\ was(b) \in DOMAIN archives
                                             /\ archives'[b] = archives[was(b)] /\ was(a) < was(b)
    BY <1>3
  <2> HIDE DEF was
  <2> QED
    BY <2>1, <2>2 DEF IndInv, Archived
<1>5. Archived'
  BY <1>1, <1>4 DEF Archived
<1> QED
  BY <1>2, <1>5

(* Numbered records go to the end of the queue.                             *)
LEMMA SubmitOrder ==
  ASSUME IndInv, TypeOK', Attached, NEW new \in Seq(Record), NEW n \in Nat,
         \A k \in {"id", "seq"} : /\ Increasing(k, new) /\ Under(k, new, Number(k) + n)
                                  /\ \A j \in DOMAIN new : new[j][k] \in Nat
                                     /\ new[j][k] >= Number(k),
         Waiting' = Waiting \o new, InFlight' >= InFlight,
         UNCHANGED <<file, tail, write_offset, stream, archives>>,
         submitted' = submitted + n, sequence' = sequence + n
  PROVE  Order' /\ Archived'
<1>0. /\ TypeOK /\ Ahead \in Seq(Cell) /\ Waiting \in Seq(Cell) /\ stream \in Seq(Cell)
         /\ file \in Seq(Cell)
      /\ tail \in Seq(Cell) /\ write_offset \in Nat /\ InFlight \in Nat /\ InFlight' \in Nat
      /\ submitted \in Nat /\ sequence \in Nat
      /\ \A k : Number(k) \in Nat
  BY ViewTypes, NextViews DEF IndInv
<1>1. new \in Seq(Cell) /\ \A j \in DOMAIN new : IsRecord(new[j])
  BY Options DEF Cell, IsRecord
<1>2. Ahead' = Ahead \o new /\ (stream \o Waiting)' = (stream \o Waiting) \o new
  <2>1. Ahead' = tail \o (Waiting \o new) /\ (stream \o Waiting)' = stream \o (Waiting \o new)
    BY DEF Ahead
  <2>2. tail \o (Waiting \o new) = (tail \o Waiting) \o new
        /\ stream \o (Waiting \o new) = (stream \o Waiting) \o new
    <3>1. tail \in Seq(Cell) /\ Waiting \in Seq(Cell) /\ stream \in Seq(Cell) /\ new \in Seq(Cell)
      BY <1>0, <1>1
    <3>2. tail \o (Waiting \o new) = (tail \o Waiting) \o new
      BY ONLY SMTT(30), <3>1, ConcatAssociative
    <3>3. stream \o (Waiting \o new) = (stream \o Waiting) \o new
      BY ONLY SMTT(30), <3>1, ConcatAssociative
    <3> QED
      BY <3>2, <3>3
  <2> QED
    BY <2>1, <2>2 DEF Ahead
<1>3. \A k \in Keys : Number(k)' = Number(k) + n
  BY <1>0 DEF Number
<1>4. ASSUME NEW k \in Keys
      PROVE  Placed(k, file', write_offset', Ahead', InFlight', (stream \o Waiting)', Number(k)')
  <2>1. Placed(k, file, write_offset, Ahead, InFlight, stream \o Waiting, Number(k))
        /\ k \in {"id", "seq"}
    BY KeyKinds DEF IndInv, Order
  <2>2. stream \o Waiting \in Seq(Cell) /\ Number(k) \in Nat /\ Number(k) + n \in Nat
        /\ Number(k) <= Number(k) + n
    BY SMTT(30), <1>0
  <2> DEFINE s == stream \o Waiting
             b == Number(k)
             d == Number(k) + n
  <2> HIDE DEF s, b, d
  <2>3. Placed(k, file, write_offset, Ahead \o new, InFlight', s \o new, d)
    <3>1. Placed(k, file, write_offset, Ahead, InFlight, s, b) /\ s \in Seq(Cell) /\ b \in Nat
          /\ d \in Nat /\ b <= d
      BY <2>1, <2>2 DEF s, b, d
    <3>2. Increasing(k, new) /\ Under(k, new, d) /\ \A j \in DOMAIN new : new[j][k] \in Nat
          /\ new[j][k] >= b
      BY <2>1 DEF b, d
    <3>3. InFlight <= InFlight'
      BY <1>0
    <3> QED
      BY <1>0, <1>1, <2>1, <3>1, <3>2, <3>3, GrowPlaces
  <2>4. Number(k)' = d /\ (stream \o Waiting)' = s \o new
    BY <1>2, <1>3 DEF s, d
  <2> QED
    BY <1>2, <2>3, <2>4
<1>5. Order'
  <2>1. \A k \in Keys : Increasing(k, file') /\ Under(k, file', Number(k)')
    BY <1>4, PlacedParts
  <2>2. Under("id", file', submitted' + 1)
    BY <2>1, KeyKinds DEF Number
  <2> QED
    BY <1>4, <2>1, <2>2, OrderOf
<1>6. Archived'
  <2>1. ASSUME NEW a \in DOMAIN archives
        PROVE  /\ Increasing("id", archives[a]) /\ Under("id", archives[a], submitted + 1)
               /\ \A b \in DOMAIN archives : a < b => AllBefore(archives[a], archives[b])
               /\ AllBefore(archives[a], file) /\ AllBefore(archives[a], Ahead)
    BY DEF IndInv, Archived
  <2>2. ASSUME NEW a \in DOMAIN archives
        PROVE  Under("id", archives[a], submitted' + 1) /\ AllBefore(archives[a], Ahead \o new)
    <3>1. archives[a] \in Seq(Cell)
      <4>1. archives \in Seq(Seq(Cell))
        BY <1>0, ViewTypes
      <4> QED
        BY ONLY <4>1, a \in DOMAIN archives
    <3>2. \A i \in DOMAIN archives[a] : IsRecord(archives[a][i]) =>
             archives[a][i].id \in Nat /\ archives[a][i].id < submitted + 1
      <4>1. \A i \in DOMAIN archives[a] : archives[a][i] \in Cell
        BY <3>1
      <4>2. \A i \in DOMAIN archives[a] : IsRecord(archives[a][i])
              => archives[a][i].id < submitted + 1
        BY <2>1 DEF Under
      <4> QED
        BY <4>1, <4>2, RecordKeys
    <3>3. \A j \in DOMAIN new : new[j].id \in Nat /\ new[j].id >= submitted + 1
      BY DEF Number
    <3>4. \A j \in DOMAIN (Ahead \o new) : \/ j \in DOMAIN Ahead /\ (Ahead \o new)[j] = Ahead[j]
                                          \/ \E l \in DOMAIN new : (Ahead \o new)[j] = new[l]
      <4>1. Ahead \in Seq(Cell)
        BY <1>0
      <4>2. /\ DOMAIN (Ahead \o new) = 1..(Len(Ahead) + Len(new)) /\ Len(Ahead) \in Nat
               /\ Len(new) \in Nat
            /\ \A i \in 1 .. (Len(Ahead) + Len(new)) : (Ahead \o new)[i] =
                     IF i <= Len(Ahead) THEN Ahead[i] ELSE new[i - Len(Ahead)]
            /\ DOMAIN Ahead = 1..Len(Ahead) /\ DOMAIN new = 1..Len(new)
        BY ONLY <1>1, <4>1, ConcatProperties
      <4> DEFINE cells == Ahead \o new
      <4> HIDE DEF cells
      <4>3. ASSUME NEW j \in DOMAIN cells
            PROVE  \/ j \in DOMAIN Ahead /\ cells[j] = Ahead[j]
                   \/ \E l \in DOMAIN new : cells[j] = new[l]
        <5>1. CASE j <= Len(Ahead)
          BY <4>2, <5>1 DEF cells
        <5>2. CASE ~(j <= Len(Ahead))
          <6>1. j - Len(Ahead) \in DOMAIN new
            BY <4>2, <5>2 DEF cells
          <6> QED
            BY <4>2, <5>2, <6>1 DEF cells
        <5> QED
          BY <5>1, <5>2
      <4> QED
        BY <4>3 DEF cells
    <3>5. Under("id", archives[a], submitted' + 1)
      BY <1>0, <3>2 DEF Under
    <3>6. AllBefore(archives[a], Ahead \o new)
      <4> DEFINE cells == Ahead \o new
      <4>1. \A j \in DOMAIN cells : \/ j \in DOMAIN Ahead /\ cells[j] = Ahead[j]
                                    \/ \E l \in DOMAIN new : cells[j] = new[l]
        BY <3>4
      <4> HIDE DEF cells
      <4>2. ASSUME NEW i \in DOMAIN archives[a], NEW j
                     \in DOMAIN cells, IsRecord(archives[a][i]), IsRecord(cells[j])
            PROVE  archives[a][i].id < cells[j].id
        <5>1. CASE j \in DOMAIN Ahead /\ cells[j] = Ahead[j]
          BY <2>1, <4>2, <5>1 DEF AllBefore
        <5>2. CASE \E l \in DOMAIN new : cells[j] = new[l]
          <6>1. cells[j].id \in Nat /\ cells[j].id >= submitted + 1
            BY <3>3, <5>2
          <6>2. archives[a][i].id \in Nat /\ archives[a][i].id < submitted + 1
            BY <3>2, <4>2
          <6> QED
            BY SMTT(30), <1>0, <6>1, <6>2
        <5> QED
          BY <4>1, <5>1, <5>2
      <4> QED
        BY <4>2 DEF AllBefore, cells
    <3> QED
      BY <3>5, <3>6
  <2> QED
    BY <1>2, <2>1, <2>2 DEF Archived
<1> QED
  BY <1>5, <1>6

(* recover_active_file: file and tail are cut from the same cells.          *)
LEMMA RecoverOrder ==
  ASSUME IndInv, TypeOK', NEW size \in Nat, size <= Len(file),
         file' = AW!Truncated(file, size), write_offset' = AW!AlignDown(size),
         Len(tail') = size - AW!AlignDown(size),
         \A j \in 1..Len(tail') : tail'[j] = file'[AW!AlignDown(size) + j], stream' = file',
         batch' = <<>>, pending' = <<>>, UNCHANGED <<archives, submitted>>,
         "seq" \in Keys => Under("seq", file', sequence')
  PROVE  Order' /\ Archived'
<1>0. TypeOK /\ file \in Seq(Cell) /\ Len(file) \in Nat /\ file' \in Seq(Cell)
      /\ tail' \in Seq(Cell)
      /\ InFlight' \in Nat /\ Waiting' \in Seq(Cell)
  BY ViewTypes, NextViews DEF IndInv
<1> DEFINE kept == file'
           down == AW!AlignDown(size)
<1>1. /\ kept \in Seq(Cell) /\ Len(kept) = size
      /\ \A i \in DOMAIN kept : IsRecord(kept[i]) => i \in DOMAIN file /\ kept[i] = file[i]
  BY <1>0, TruncatedCells
<1>2. down \in Nat /\ down <= size
  BY DownCells
<1>3. Waiting' = <<>> /\ Ahead' = tail' /\ (stream \o Waiting)' = kept
  <2>1. Waiting' = <<>>
    BY DEF Waiting
  <2>2. tail' \o <<>> = tail' /\ file' \o <<>> = file'
    BY ONLY <1>0, ConcatEmptySeq
  <2> QED
    BY <2>1, <2>2 DEF Ahead
<1>4. InFlight' = Len(tail')
  <2>1. Len(pending') = 0 /\ Len(batch') = 0
    OBVIOUS
  <2>2. InFlight' = Len(tail') + (IF flush'.pc = "idle" THEN Len(pending') ELSE Len(batch'))
    BY DEF InFlight
  <2>3. Len(tail') \in Nat
    BY <1>0
  <2> QED
    BY ONLY <2>1, <2>2, <2>3
<1>5. Len(tail') = size - down /\ \A j \in 1..Len(tail') : tail'[j] = kept[down + j]
  OBVIOUS
<1> HIDE DEF kept, down
<1>6. ASSUME NEW k \in Keys PROVE Increasing(k, kept)
  BY <1>1 DEF IndInv, Order, Increasing
<1>7. ASSUME NEW k \in Keys PROVE Under(k, kept, Number(k)')
  <2>1. CASE k = "id"
    <3>1. Under("id", kept, submitted + 1)
      BY <1>1 DEF IndInv, Order, Under
    <3> QED
      BY <2>1, <3>1 DEF Number
  <2>2. CASE k = "seq"
    BY <2>2 DEF Number, kept
  <2> QED
    BY <2>1, <2>2, KeyKinds
<1>8. DOMAIN kept = 1..size /\ DOMAIN tail' = 1..(size - down) /\ 1..Len(tail') = 1..(size - down)
  BY <1>0, <1>1, <1>5
<1>9. ASSUME NEW k \in Keys
      PROVE  Placed(k, kept, down, tail', Len(tail'), kept, Number(k)')
  <2>1. \A j \in DOMAIN tail' : down + j \in DOMAIN kept /\ tail'[j] = kept[down + j] /\ j \in Nat
    BY <1>2, <1>5, <1>8
  <2>2. Increasing(k, tail')
    <3>1. \A i, j \in DOMAIN tail' : i < j => down + i < down + j
      BY <1>2, <1>8
    <3> QED
      BY <1>6, <2>1, <3>1 DEF Increasing
  <2>3. Under(k, tail', Number(k)')
    BY <1>7, <2>1 DEF Under
  <2>4. \A i \in DOMAIN kept : \A j \in DOMAIN tail' :
         i <= down /\ IsRecord(kept[i]) /\ IsRecord(tail'[j]) => kept[i][k] < tail'[j][k]
    <3>1. \A i \in DOMAIN kept : \A j \in DOMAIN tail' : i <= down => i < down + j
      BY <1>2, <1>8
    <3> QED
      BY <1>6, <2>1, <3>1 DEF Increasing
  <2>5. \A i \in DOMAIN kept : i > down =>
          /\ i - down <= Len(tail') /\ i - down \in DOMAIN tail' /\ kept[i] = tail'[i - down]
    <3>1. \A i \in DOMAIN kept : i > down => i - down \in 1..(size - down) /\ down + (i - down) = i
      BY <1>2, <1>8
    <3>2. \A i \in DOMAIN kept : i > down => i - down <= Len(tail')
      BY <1>2, <1>5, <1>8
    <3> QED
      BY <1>5, <1>8, <3>1, <3>2
  <2> QED
    BY <1>6, <1>7, <2>2, <2>3, <2>4, <2>5 DEF Placed, Fits
<1>10. \A k \in Keys : Placed(k, file', write_offset', Ahead', InFlight', (stream \o Waiting)',
         Number(k)')
  BY <1>3, <1>4, <1>9 DEF kept, down
<1>11. Order'
  <2>1. \A k \in Keys : Increasing(k, file') /\ Under(k, file', Number(k)')
    BY <1>10, PlacedParts
  <2>2. Under("id", file', submitted' + 1)
    BY <2>1, KeyKinds DEF Number
  <2> QED
    BY <1>10, <2>1, <2>2, OrderOf
<1>12. Archived'
  <2>1. \A a \in DOMAIN archives : AllBefore(archives[a], kept)
    BY <1>1 DEF IndInv, Archived, AllBefore
  <2>2. \A j \in DOMAIN tail' : down + j \in DOMAIN kept /\ tail'[j] = kept[down + j]
    BY <1>2, <1>5, <1>8
  <2>3. \A a \in DOMAIN archives : AllBefore(archives[a], Ahead')
    BY <1>3, <2>1, <2>2 DEF AllBefore
  <2> QED
    BY <2>1, <2>3 DEF IndInv, Archived, kept
<1> QED
  BY <1>11, <1>12

-----------------------------------------------------------------------------
(* The types of flush, life, sub, held and checkpoint.                      *)
FlushKind == [pc : {"idle", "append", "force", "seal", "close", "rename", "cleanup", "reopen",
                    "checkpoint"},
              owner : Submitters \cup {"timer", "stop"}, partial : BOOLEAN]
LifeKind == {"down", "recover", "start_checkpoint", "up", "stopping", "gate",
             "stop_tail", "stop_checkpoint", "stop_close", "stopped", "failed"}
SubKind == [Submitters -> {"idle", "flushing", "flushed", "waiting", "woken"}]
HeldKind == [Submitters -> SUBSET Nat]
SidecarKind == [size : Nat, seq : Nat, rotation : Nat]

(* TypeOK, by variable.                                                     *)
LEMMA TypeParts ==
  ASSUME TypeOK
  PROVE  /\ AW!TypeOK /\ pending \in Seq(Record) /\ batch \in Seq(Record)
         /\ sequence \in Nat /\ rotation_index \in Nat
         /\ flush \in FlushKind /\ life \in LifeKind /\ sub \in SubKind
         /\ archives \in Seq(Seq(Cell)) /\ checkpoint \in SUBSET SidecarKind
            /\ Cardinality(checkpoint) <= 1
         /\ submitted \in Nat /\ faults \in Nat /\ sessions \in Nat
         /\ held \in HeldKind /\ acked \in SUBSET Nat /\ committed \in SUBSET Nat
            /\ expired \in SUBSET Nat
         /\ crashed \in BOOLEAN
BY DEF TypeOK, FlushKind, LifeKind, SubKind, HeldKind, SidecarKind, Cell

(* TypeOK in the next state, by variable.                                   *)
LEMMA TypeNext ==
  ASSUME AW!TypeOK', pending' \in Seq(Record), batch' \in Seq(Record),
         sequence' \in Nat, rotation_index' \in Nat,
         flush' \in FlushKind, life' \in LifeKind, sub' \in SubKind,
         archives' \in Seq(Seq(Cell)), checkpoint' \in SUBSET SidecarKind, Cardinality(checkpoint')
           <= 1,
         submitted' \in Nat, faults' \in Nat, sessions' \in Nat,
         held' \in HeldKind, acked' \in SUBSET Nat, committed' \in SUBSET Nat, expired'
           \in SUBSET Nat,
         crashed' \in BOOLEAN
  PROVE  TypeOK'
BY DEF TypeOK, FlushKind, LifeKind, SubKind, HeldKind, SidecarKind, Cell

(* A step that leaves the sidecar alone and writes only at the places of    *)
(* the cells ahead.                                                         *)
LEMMA SidecarKept ==
  ASSUME IndInv, TypeOK', checkpoint' = checkpoint, NEW n,
         \/ \A i \in DOMAIN file' : IsRecord(file'[i]) => i \in DOMAIN file /\ file'[i] = file[i]
         \/ Covered /\ Wrote(file', file, write_offset, Ahead, n),
         "checkpoint" \notin Faults /\ Covered' /\ checkpoint # {} =>
           /\ Covered
           /\ write_offset + Len(tail) <= write_offset' + Len(tail')
           /\ \A j \in DOMAIN tail' : write_offset' + j <= write_offset + Len(tail) =>
                \E l \in DOMAIN tail : tail'[j] = tail[l] /\ write_offset + l = write_offset' + j
  PROVE  Sidecar'
<1> SUFFICES ASSUME "checkpoint" \notin Faults
             PROVE  Sidecar'
  BY DEF Sidecar
<1>00. TypeOK
  BY DEF IndInv
<1>01. /\ write_offset \in Nat /\ Len(tail) \in Nat /\ tail \in Seq(Cell) /\ Ahead \in Seq(Cell)
  BY ONLY <1>00, ViewTypes
<1>02. /\ write_offset' \in Nat /\ tail' \in Seq(Cell) /\ Len(tail') \in Nat /\ file' \in Seq(Cell)
  BY ONLY TypeOK', NextViews
<1>03. DOMAIN tail = 1..Len(tail) /\ DOMAIN tail' \subseteq Nat /\ DOMAIN file' \subseteq Nat
  BY ONLY <1>01, <1>02
<1>0. /\ TypeOK /\ write_offset \in Nat /\ Len(tail) \in Nat /\ tail \in Seq(Cell)
         /\ Ahead \in Seq(Cell)
      /\ DOMAIN tail = 1..Len(tail)
      /\ write_offset' \in Nat /\ tail' \in Seq(Cell) /\ Len(tail') \in Nat /\ file' \in Seq(Cell)
      /\ DOMAIN tail' \subseteq Nat /\ DOMAIN file' \subseteq Nat
  BY <1>00, <1>01, <1>02, <1>03
<1>1. \A c \in checkpoint : c.size \in Nat
  BY <1>0, TypeParts DEF SidecarKind
<1>2. ASSUME NEW c \in checkpoint, NEW i \in DOMAIN file', i <= c.size, IsRecord(file'[i])
      PROVE  file'[i].seq < c.seq
  <2>1. CASE i \in DOMAIN file /\ file'[i] = file[i]
    BY <1>2, <2>1 DEF IndInv, Sidecar
  <2>2. CASE Covered /\ i > write_offset /\ i - write_offset \in DOMAIN Ahead
             /\ file'[i] = Ahead[i - write_offset]
    <3>1. c.size <= write_offset + Len(tail)
      BY <2>2 DEF IndInv, Sidecar
    <3>2. i - write_offset \in DOMAIN tail
      BY <1>0, <1>1, <1>2, <2>2, <3>1
    <3>3. Ahead[i - write_offset] = tail[i - write_offset]
      BY <1>0, <3>2, AheadParts
    <3>4. write_offset + (i - write_offset) = i
      BY <1>0
    <3>5. \A j \in DOMAIN tail : write_offset + j <= c.size
          /\ IsRecord(tail[j]) => tail[j].seq < c.seq
      BY <2>2 DEF IndInv, Sidecar
    <3> QED
      BY <1>2, <2>2, <3>2, <3>3, <3>4, <3>5
  <2> QED
    BY <1>2, <2>1, <2>2 DEF Wrote
<1>3. ASSUME Covered', NEW c \in checkpoint
      PROVE  /\ c.size <= write_offset' + Len(tail')
             /\ \A j \in DOMAIN tail' : write_offset' + j <= c.size
                /\ IsRecord(tail'[j]) => tail'[j].seq < c.seq
  <2>1. /\ Covered
        /\ write_offset + Len(tail) <= write_offset' + Len(tail')
        /\ \A j \in DOMAIN tail' : write_offset' + j <= write_offset + Len(tail) =>
             \E l \in DOMAIN tail : tail'[j] = tail[l] /\ write_offset + l = write_offset' + j
    BY <1>3
  <2>2. /\ c.size <= write_offset + Len(tail)
        /\ \A l \in DOMAIN tail : write_offset + l <= c.size
           /\ IsRecord(tail[l]) => tail[l].seq < c.seq
    BY <2>1 DEF IndInv, Sidecar
  <2>3. c.size <= write_offset' + Len(tail')
    BY <1>0, <1>1, <2>1, <2>2
  <2>4. ASSUME NEW j \in DOMAIN tail', write_offset' + j <= c.size, IsRecord(tail'[j])
        PROVE  tail'[j].seq < c.seq
    <3>1. write_offset' + j <= write_offset + Len(tail)
      BY <1>0, <1>1, <2>2, <2>4
    <3> QED
      BY <2>1, <2>2, <2>4, <3>1
  <2> QED
    BY <2>3, <2>4
<1>4. ~CheckpointEnabled => checkpoint' = {}
  BY DEF IndInv, Sidecar
<1> QED
  BY <1>2, <1>3, <1>4 DEF Sidecar

(* A new sidecar is true of the file.                                       *)
LEMMA SidecarFresh ==
  ASSUME IndInv, TypeOK', Attached, CheckpointEnabled,
         checkpoint' = {[size |-> logical_size, seq |-> sequence, rotation |-> rotation_index]},
         Wrote(file', file, write_offset, tail, Len(tail)), UNCHANGED <<tail,
                                                                        write_offset>>
  PROVE  Sidecar'
<1> SUFFICES ASSUME "checkpoint" \notin Faults
             PROVE  Sidecar'
  BY DEF Sidecar
<1>0. /\ TypeOK /\ write_offset \in Nat /\ Len(tail) \in Nat /\ tail \in Seq(Cell)
         /\ Ahead \in Seq(Cell)
      /\ InFlight \in Nat /\ Len(Ahead) = Len(tail) + Len(batch) + Len(pending)
      /\ Len(batch) \in Nat /\ Len(pending) \in Nat
  BY ViewTypes DEF IndInv
<1>1. Wrote(file', file, write_offset, Ahead, InFlight)
  <2>1. Len(tail) <= InFlight
    BY <1>0 DEF InFlight
  <2>2. Len(tail) <= Len(Ahead) /\ \A j \in DOMAIN tail : Ahead[j] = tail[j]
    BY <1>0, AheadParts
  <2> QED
    BY <1>0, <2>1, <2>2, PrefixWrote
<1>2. InFlight >= InFlight
  BY <1>0
<1>3. Placed("seq", file', write_offset, Ahead, InFlight, stream \o Waiting, sequence)
  BY <1>0, <1>1, <1>2, FileOrder, KeyKinds DEF Number
<1>4. Under("seq", file', sequence) /\ Under("seq", Ahead, sequence)
  BY <1>3, PlacedParts
<1>5. \A j \in DOMAIN tail : IsRecord(tail[j]) => tail[j].seq < sequence
  BY <1>0, <1>4, AheadParts DEF Under
<1>6. logical_size <= write_offset' + Len(tail')
  BY DEF IndInv, Control
<1>7. \A c \in checkpoint' : c.size = logical_size /\ c.seq = sequence
  OBVIOUS
<1> QED
  BY <1>4, <1>5, <1>6, <1>7 DEF Sidecar, Under

(* A write of the tail keeps the order.                                     *)
LEMMA TailOrder ==
  ASSUME IndInv, TypeOK', Attached, Wrote(file', file, write_offset, tail, Len(tail)),
         UNCHANGED <<archives, submitted>>,
         Attached' => /\ InFlight' >= InFlight /\ Waiting' = Waiting
                      /\ UNCHANGED <<tail, write_offset, stream, sequence>>
  PROVE  Order' /\ Archived' /\ Wrote(file', file, write_offset, Ahead, InFlight)
<1>0. /\ TypeOK /\ write_offset \in Nat /\ Len(tail) \in Nat /\ tail \in Seq(Cell)
         /\ Ahead \in Seq(Cell)
      /\ InFlight \in Nat /\ Len(Ahead) = Len(tail) + Len(batch) + Len(pending)
      /\ Len(batch) \in Nat /\ Len(pending) \in Nat
  BY ViewTypes DEF IndInv
<1>1. Wrote(file', file, write_offset, Ahead, InFlight)
  <2>1. Len(tail) <= InFlight
    BY <1>0 DEF InFlight
  <2>2. Len(tail) <= Len(Ahead) /\ \A j \in DOMAIN tail : Ahead[j] = tail[j]
    BY <1>0, AheadParts
  <2> QED
    BY <1>0, <2>1, <2>2, PrefixWrote
<1>2. InFlight >= InFlight
  BY <1>0
<1> QED
  BY <1>0, <1>1, <1>2, WriteOrder

(* A step that touches no file.                                             *)
LEMMA QuietStep ==
  ASSUME IndInv, TypeOK', Control', UNCHANGED <<writerVars, diskVars, submitted>>,
         Attached' => Attached /\ Waiting' = Waiting /\ InFlight' >= InFlight
         /\ sequence' = sequence,
         Covered' => Covered
  PROVE  IndInv'
<1>0. /\ TypeOK /\ write_offset \in Nat /\ Len(tail) \in Nat /\ tail \in Seq(Cell)
         /\ file \in Seq(Cell) /\ InFlight \in Nat
      /\ AW!TypeOK
  BY ViewTypes DEF IndInv
<1>1. UNCHANGED <<file, present, file_open, tail, write_offset, logical_size, stream,
                  archives, checkpoint, submitted>>
  BY DEF writerVars, diskVars
<1>2. Wrote(file', file, write_offset, Ahead, InFlight)
  BY <1>0, <1>1, UnchangedWrote
<1>3. InFlight >= InFlight
  BY <1>0
<1>4. Order' /\ Archived'
  BY <1>0, <1>1, <1>2, <1>3, WriteOrder
<1>5. Sidecar'
  <2>1. write_offset + Len(tail) <= write_offset' + Len(tail')
    BY <1>0, <1>1
  <2> QED
    BY <1>1, <2>1, SidecarKept
<1> QED
  BY <1>4, <1>5 DEF IndInv

(* Waking the waiters.                                                      *)
LEMMA NotifiedOK ==
  ASSUME NEW states \in SubKind, NEW stopping, NEW n
  PROVE  Notified(states, stopping, n) \in SubKind
BY DEF Notified, SubKind

(* The end of a flush.                                                      *)
LEMMA ReturnsOK ==
  ASSUME TypeOK, FlushReturns
  PROVE  flush' = Idle /\ flush' \in FlushKind /\ flush'.pc = "idle" /\ sub' \in SubKind
<1>1. flush' \in FlushKind /\ flush' = Idle /\ flush'.pc = "idle"
  BY DEF FlushReturns, Idle, FlushKind
<1>2. Notified(sub, Stopping, Len(pending)) \in SubKind
  BY TypeParts, NotifiedOK
<1>3. sub' \in SubKind
  BY <1>2 DEF FlushReturns, SubKind
<1> QED
  BY <1>1, <1>3

(* The next I/O of a flush.                                                 *)
LEMMA GotoOK ==
  ASSUME TypeOK,
         NEW pc \in {"force", "seal", "close", "rename", "cleanup", "reopen", "checkpoint"},
         Goto(pc)
  PROVE  flush' \in FlushKind /\ flush'.pc = pc /\ sub' = sub /\ sub' \in SubKind
<1>1. flush \in FlushKind /\ sub \in SubKind
  BY TypeParts
<1> QED
  BY <1>1 DEF Goto, FlushKind

(* maybe_rotate goes on or returns.                                         *)
LEMMA MaybeRotateOK ==
  ASSUME TypeOK, MaybeRotate
  PROVE  flush' \in FlushKind /\ flush'.pc \in {"seal", "idle"} /\ sub' \in SubKind
<1>1. CASE Goto("seal")
  BY <1>1, GotoOK
<1>2. CASE FlushReturns
  BY <1>2, ReturnsOK
<1> QED
  BY <1>1, <1>2 DEF MaybeRotate

(* A failed flush: the records ahead are the same as before.                *)
LEMMA ThrowsOK ==
  ASSUME IndInv, FlushThrows, flush.pc # "idle"
  PROVE  /\ pending' = batch \o pending /\ pending' \in Seq(Record) /\ batch' = <<>>
            /\ batch' \in Seq(Record)
         /\ flush' \in FlushKind /\ flush'.pc = "idle" /\ sub' \in SubKind /\ held' \in HeldKind
         /\ life \in {"up", "stopping", "gate"} /\ Attached
         /\ life' \in {"up", "stopping", "gate", "failed"}
         /\ life' # "failed" => life' = life
         /\ Waiting' = Waiting
         /\ InFlight' = Len(tail') + Len(batch) + Len(pending)
         /\ UNCHANGED <<sequence, submitted, acked, expired, crashed, sessions>>
<1>0. /\ TypeOK /\ pending \in Seq(Record) /\ batch \in Seq(Record) /\ held \in HeldKind
         /\ sub \in SubKind
      /\ batch \in Seq(Cell) /\ pending \in Seq(Cell) /\ life \in LifeKind
  BY TypeParts, ViewTypes DEF IndInv
<1>1. /\ pending' = batch \o pending /\ batch' = <<>> /\ flush' = Idle
      /\ sub' = (IF flush.owner \in Submitters
                 THEN [Notified(sub, Stopping,
                   Len(batch \o pending)) EXCEPT ![flush.owner] = "idle"]
                 ELSE Notified(sub, Stopping, Len(batch \o pending)))
      /\ held' = (IF flush.owner \in Submitters THEN [held EXCEPT ![flush.owner] = {}] ELSE held)
      /\ life' = (IF flush.owner = "stop" THEN "failed" ELSE life)
      /\ UNCHANGED <<sequence, submitted, acked, expired, crashed, sessions>>
  BY DEF FlushThrows, ErrorReturned
<1>2. pending' \in Seq(Record) /\ batch' \in Seq(Record)
      /\ Len(pending') = Len(batch) + Len(pending)
  BY <1>0, <1>1
<1>3. flush' \in FlushKind /\ flush'.pc = "idle"
  BY <1>1 DEF Idle, FlushKind
<1>4. Notified(sub, Stopping, Len(batch \o pending)) \in SubKind
  BY <1>0, NotifiedOK
<1> DEFINE states == Notified(sub, Stopping, Len(batch \o pending))
<1>5. sub' \in SubKind
  <2>1. states \in SubKind
        /\ sub' = IF flush.owner
             \in Submitters THEN [states EXCEPT ![flush.owner] = "idle"] ELSE states
    BY <1>1, <1>4
  <2> HIDE DEF states
  <2> QED
    BY <2>1 DEF SubKind
<1>6. held' \in HeldKind
  BY <1>0, <1>1 DEF HeldKind
<1>7. life \in {"up", "stopping", "gate"}
  BY <1>0 DEF IndInv, Control
<1>8. life' \in {"up", "stopping", "gate", "failed"} /\ (life' # "failed" => life' = life)
  BY <1>1, <1>7
<1>9. Waiting' = Waiting
  <2>1. batch \o pending \in Seq(Cell)
    BY <1>0
  <2>2. <<>> \o (batch \o pending) = batch \o pending
    BY ONLY <2>1, ConcatEmptySeq
  <2> QED
    BY <1>1, <2>2 DEF Waiting
<1>10. InFlight' = Len(tail') + Len(pending')
  BY <1>3 DEF InFlight
<1>11. Len(tail') + Len(pending') = Len(tail') + Len(batch) + Len(pending)
  BY <1>2
<1>12. Attached
  BY <1>7 DEF Attached
<1> QED
  BY <1>1, <1>2, <1>3, <1>5, <1>6, <1>7, <1>8, <1>9, <1>10, <1>11, <1>12

-----------------------------------------------------------------------------
(* A flush that starts: the queue becomes the batch.                        *)
LEMMA StartFlushOK ==
  ASSUME IndInv, NEW queue \in Seq(Record), NEW owner \in Submitters \cup {"timer", "stop"},
         NEW partial \in BOOLEAN, StartFlush(queue, owner, partial)
  PROVE  /\ flush.pc = "idle" /\ flush' \in FlushKind /\ flush'.pc = "append"
         /\ batch' = queue /\ pending' = <<>> /\ pending' \in Seq(Record) /\ batch' \in Seq(Record)
         /\ Waiting' = queue /\ Waiting = pending /\ batch = <<>>
         /\ InFlight' = Len(tail') + Len(queue) /\ InFlight = Len(tail) + Len(pending)
<1>1. /\ flush.pc = "idle" /\ batch' = queue /\ pending' = <<>>
      /\ flush' = [pc |-> "append", owner |-> owner, partial |-> partial]
  BY DEF StartFlush
<1>2. flush' \in FlushKind /\ flush'.pc = "append"
  BY <1>1 DEF FlushKind
<1>3. batch = <<>>
  BY <1>1 DEF IndInv, Control
<1>4. pending \in Seq(Record)
  BY TypeParts DEF IndInv
<1>5. queue \o <<>> = queue /\ <<>> \o pending = pending
  BY ONLY <1>4, queue \in Seq(Record), ConcatEmptySeq
<1>6. Waiting' = queue /\ Waiting = pending
  BY <1>1, <1>3, <1>5 DEF Waiting
<1>7. <<>> \in Seq(Record)
  OBVIOUS
<1> QED
  BY <1>1, <1>2, <1>3, <1>6, <1>7 DEF InFlight

(* A submitter that goes on, or waits.                                      *)
LEMMA WaiterStep ==
  ASSUME IndInv, NEW s \in Submitters, Resume(s) \/ Wake(s)
  PROVE  IndInv'
<1>0. TypeOK /\ sub \in SubKind /\ held \in HeldKind /\ acked \in SUBSET Nat /\ InFlight \in Nat
  BY TypeParts, ViewTypes DEF IndInv
<1>1. /\ UNCHANGED <<writerVars, queueVars, rotation_index, flush, life, diskVars,
                     submitted, committed, expired, crashed, faults, sessions>>
      /\ \/ sub' = [sub EXCEPT ![s] = "waiting"] /\ UNCHANGED <<acked, held>>
         \/ Return(s)
  BY DEF Resume, Wake
<1>2. sub' \in SubKind /\ held' \in HeldKind /\ acked' \in SUBSET Nat
  <2>1. CASE sub' = [sub EXCEPT ![s] = "waiting"] /\ UNCHANGED <<acked, held>>
    BY <1>0, <2>1 DEF SubKind
  <2>2. CASE Return(s)
    <3>1. sub' \in SubKind
      BY <1>0, <2>2 DEF Return, SubKind
    <3>2. held' \in HeldKind
      BY <1>0, <2>2 DEF Return, HeldKind
    <3>3. acked' \in SUBSET Nat
      BY <1>0, <2>2 DEF Return, HeldKind
    <3> QED
      BY <3>1, <3>2, <3>3
  <2> QED
    BY <1>1, <2>1, <2>2
<1>3. UNCHANGED <<file, present, file_open, tail, write_offset, logical_size, stream,
                  flushed, misused,
                  pending, sequence, batch, archives, checkpoint, rotation_index, flush,
                  life,
                  submitted, committed, expired, crashed, faults, sessions>>
  BY <1>1 DEF writerVars, queueVars, diskVars
<1>4. TypeOK'
  <2>1. AW!TypeOK'
    BY <1>0, <1>3 DEF TypeOK, AW!TypeOK
  <2> QED
    BY <1>0, <1>2, <1>3, <2>1, TypeParts, TypeNext
<1>5. Control'
  BY <1>3 DEF IndInv, Control, Attached
<1>6. Waiting' = Waiting /\ InFlight' = InFlight /\ (Attached' <=> Attached)
      /\ (Covered' <=> Covered)
  BY <1>3 DEF Waiting, InFlight, Attached, Covered
<1>7. InFlight >= InFlight
  BY <1>0
<1> QED
  BY <1>1, <1>3, <1>4, <1>5, <1>6, <1>7, QuietStep

(* A flush of the timer or of stop.                                         *)
LEMMA TimerStep ==
  ASSUME IndInv, Timer \/ StopFlush
  PROVE  IndInv'
<1>0. TypeOK /\ pending \in Seq(Record) /\ InFlight \in Nat /\ Len(tail) \in Nat
      /\ Len(pending) \in Nat
      /\ life \in {"up", "stopping"}
  BY TypeParts, ViewTypes DEF IndInv, Timer, StopFlush
<1>1. PICK owner \in {"timer", "stop"}, partial \in BOOLEAN : StartFlush(pending, owner, partial)
  BY DEF Timer, StopFlush
<1>2. UNCHANGED <<writerVars, sequence, rotation_index, life, sub, diskVars, ghostVars>>
  BY DEF Timer, StopFlush
<1>3. UNCHANGED <<file, present, file_open, tail, write_offset, logical_size, stream,
                  flushed, misused,
                  sequence, archives, checkpoint, rotation_index, life, sub,
                  submitted, held, acked, committed, expired, crashed, faults, sessions>>
  BY <1>2 DEF writerVars, diskVars, ghostVars
<1>4. /\ flush.pc = "idle" /\ flush' \in FlushKind /\ flush'.pc = "append"
      /\ batch' = pending /\ pending' = <<>> /\ pending' \in Seq(Record) /\ batch' \in Seq(Record)
      /\ Waiting' = Waiting
      /\ InFlight' = Len(tail') + Len(pending) /\ InFlight = Len(tail) + Len(pending)
  <2>1. owner \in Submitters \cup {"timer", "stop"}
    OBVIOUS
  <2> QED
    BY <1>0, <1>1, <2>1, StartFlushOK
<1>5. TypeOK'
  <2>1. AW!TypeOK'
    BY <1>0, <1>3 DEF TypeOK, AW!TypeOK
  <2> QED
    BY <1>0, <1>3, <1>4, <2>1, TypeParts, TypeNext
<1>6. Control'
  BY <1>0, <1>3, <1>4 DEF IndInv, Control, Attached
<1>7. InFlight' >= InFlight /\ (Attached' <=> Attached) /\ (Covered' => Covered)
  BY <1>0, <1>3, <1>4 DEF Attached, Covered
<1> QED
  BY <1>2, <1>3, <1>4, <1>5, <1>6, <1>7, QuietStep

(* The steps of stop that do no I/O.                                        *)
LEMMA StopQuietStep ==
  ASSUME IndInv, Stop \/ StopDrained \/ StopGate
  PROVE  IndInv'
<1>0. TypeOK /\ sub \in SubKind /\ InFlight \in Nat
  BY TypeParts, ViewTypes DEF IndInv
<1>1. /\ UNCHANGED <<writerVars, queueVars, rotation_index, flush, diskVars, ghostVars>>
      /\ \/ life = "up" /\ life' = "stopping"
         \/ life = "stopping" /\ life' = "gate"
         \/ life = "gate" /\ life' = "stop_tail" /\ flush.pc = "idle"
      /\ sub' = sub \/ sub' = Notified(sub, TRUE, Len(pending))
  BY DEF Stop, StopDrained, StopGate
<1>2. UNCHANGED <<file, present, file_open, tail, write_offset, logical_size, stream,
                  flushed, misused,
                  pending, sequence, batch, archives, checkpoint, rotation_index, flush,
                  submitted, held, acked, committed, expired, crashed, faults, sessions>>
  BY <1>1 DEF writerVars, queueVars, diskVars, ghostVars
<1>3. sub' \in SubKind
  BY <1>0, <1>1, NotifiedOK
<1>4. TypeOK'
  <2>1. AW!TypeOK'
    BY <1>0, <1>2 DEF TypeOK, AW!TypeOK
  <2>2. life' \in LifeKind
    BY <1>1 DEF LifeKind
  <2> QED
    BY <1>0, <1>2, <1>3, <2>1, <2>2, TypeParts, TypeNext
<1>5. Control'
  BY <1>1, <1>2 DEF IndInv, Control, Attached
<1>6. Waiting' = Waiting /\ InFlight' = InFlight /\ Attached /\ (Covered' => Covered)
  BY <1>1, <1>2 DEF Waiting, InFlight, Attached, Covered
<1>7. InFlight >= InFlight
  BY <1>0
<1> QED
  BY <1>1, <1>2, <1>4, <1>5, <1>6, <1>7, QuietStep

(* append_batch of a flush.                                                 *)
LEMMA FlushAppendStep ==
  ASSUME IndInv, FlushAppend
  PROVE  IndInv'
<1>0. TypeOK /\ batch \in Seq(Record) /\ pending \in Seq(Record) /\ AW!TypeOK
      /\ tail \in Seq(Cell) /\ Len(tail) \in Nat /\ Len(batch) \in Nat /\ write_offset \in Nat
      /\ logical_size \in Nat /\ batch \in Seq(Cell)
      /\ life \in LifeKind
  BY TypeParts, ViewTypes DEF IndInv
<1>1. /\ flush.pc = "append" /\ AW!AppendBatch(batch) /\ batch' = <<>>
      /\ UNCHANGED <<pending, sequence, rotation_index, life, archives, checkpoint,
                     submitted, held, acked, committed, expired, crashed, faults,
                     sessions>>
  BY DEF FlushAppend, diskVars, ghostVars
<1>2. flush' \in FlushKind /\ flush'.pc \in {"force", "seal", "idle"} /\ sub' \in SubKind
  <2>1. CASE flush.partial
    <3>1. Goto("force")
      BY <2>1 DEF FlushAppend
    <3> QED
      BY <1>0, <3>1, GotoOK
  <2>2. CASE ~flush.partial
    <3>1. MaybeRotate
      BY <2>2 DEF FlushAppend
    <3> QED
      BY <1>0, <3>1, MaybeRotateOK
  <2> QED
    BY <2>1, <2>2
<1>3. AW!TypeOK' /\ \E writable \in Nat :
              /\ writable <= Len(tail) + Len(batch)
              /\ writable > 0 => file_open
              /\ file_open \/ file' = file
              /\ Wrote(file', file, write_offset, tail \o batch, Len(tail) + Len(batch))
              /\ write_offset' = write_offset + writable
              /\ tail' = SubSeq(tail \o batch, writable + 1, Len(tail) + Len(batch))
              /\ stream' = stream \o batch
              /\ logical_size' = logical_size + Len(batch)
              /\ UNCHANGED <<present, file_open>>
  BY ONLY <1>0, <1>1, AppendCells
<1>4. PICK m \in Nat :
              /\ m <= Len(tail) + Len(batch)
              /\ m > 0 => file_open
              /\ file_open \/ file' = file
              /\ Wrote(file', file, write_offset, tail \o batch, Len(tail) + Len(batch))
              /\ write_offset' = write_offset + m
              /\ tail' = SubSeq(tail \o batch, m + 1, Len(tail) + Len(batch))
              /\ stream' = stream \o batch
              /\ logical_size' = logical_size + Len(batch)
              /\ UNCHANGED <<present, file_open>>
  BY ONLY <1>3
<1>5. TypeOK'
  <2>1. <<>> \in Seq(Record)
    OBVIOUS
  <2> QED
    BY ONLY <1>0, <1>1, <1>2, <1>3, <2>1, TypeParts, TypeNext
<1>6. life \in {"up", "stopping", "gate"} /\ Attached /\ Attached'
  BY <1>0, <1>1 DEF IndInv, Control, Attached
<1>7. Order' /\ Archived'
  BY ONLY IndInv, <1>1, <1>4, <1>5, <1>6, AppendOrder
<1> DEFINE x == tail \o batch
<1>8. x \in Seq(Cell) /\ Len(x) = Len(tail) + Len(batch) /\ Len(x) \in Nat
      /\ \A j \in DOMAIN tail : x[j] = tail[j]
  BY ONLY <1>0, ConcatProperties
<1>9. tail' = SubSeq(x, m + 1, Len(x)) /\ m <= Len(x)
  BY <1>4, <1>8
<1> HIDE DEF x
<1>10. Len(tail') = Len(x) - m /\ \A j \in 1..Len(tail') : tail'[j] = x[m + j]
  <2>1. \A i \in (m + 1)..Len(x) : x[i] \in Cell
    BY ONLY <1>8, m \in Nat
  <2>2. m + 1 \in Int /\ Len(x) \in Int
    BY ONLY <1>8, m \in Nat
  <2>3. /\ Len(tail') = (IF m + 1 <= Len(x) THEN Len(x) - (m + 1) + 1 ELSE 0)
        /\ \A j \in 1..(Len(x) - (m + 1) + 1) : tail'[j] = x[m + 1 + j - 1]
    BY ONLY <1>9, <2>1, <2>2, SubSeqProperties
  <2>4. Len(tail') = Len(x) - m
    BY ONLY <1>8, <1>9, <2>3, m \in Nat
  <2>5. \A j \in 1..Len(tail') : j \in 1..(Len(x) - (m + 1) + 1) /\ m + 1 + j - 1 = m + j
    BY ONLY <1>8, <2>4, m \in Nat
  <2> QED
    BY ONLY <2>3, <2>4, <2>5
<1>11. write_offset' + Len(tail') = write_offset + Len(tail) + Len(batch)
  <2>1. /\ write_offset' = write_offset + m /\ Len(tail') = Len(x) - m
        /\ Len(x) = Len(tail) + Len(batch)
    BY <1>4, <1>8, <1>10
  <2>2. write_offset \in Nat /\ Len(tail) \in Nat /\ Len(batch) \in Nat /\ m \in Nat
    BY <1>0
  <2> QED
    BY ONLY <2>1, <2>2
<1>12. Control'
  <2>1. logical_size' <= write_offset' + Len(tail')
    <3>1. logical_size <= write_offset + Len(tail)
      BY DEF IndInv, Control
    <3>2. logical_size' = logical_size + Len(batch)
      BY <1>4
    <3>3. logical_size + Len(batch) <= write_offset + Len(tail) + Len(batch)
      BY ONLY <1>0, <3>1
    <3> QED
      BY ONLY <1>11, <3>2, <3>3
  <2>2. ~file_open' => file' = file /\ write_offset' = write_offset
    BY ONLY <1>0, <1>4
  <2>3. Attached' /\ ~file_open' => \A i \in DOMAIN file' : IsRecord(file'[i]) => i <= write_offset'
    BY <1>4, <1>6, <2>2 DEF IndInv, Control
  <2>4. ~present' => file' = <<>> /\ ~file_open'
    BY <1>0, <1>4, <1>6 DEF IndInv, Control
  <2>5. /\ (life' \notin {"up", "stopping", "gate"} => flush'.pc = "idle") /\ batch' = <<>>
        /\ flush'.pc \notin {"rename", "cleanup", "reopen", "checkpoint"}
        /\ life' \notin {"down", "recover", "start_checkpoint", "stop_checkpoint", "stopped"}
    BY <1>1, <1>2, <1>6
  <2> QED
    BY <2>1, <2>3, <2>4, <2>5 DEF Control
<1>13. Sidecar'
  <2>1. Covered' => Covered
    BY <1>1, <1>2, <1>4, <1>6 DEF Covered
  <2>2. \/ \A i \in DOMAIN file' : IsRecord(file'[i]) => i \in DOMAIN file /\ file'[i] = file[i]
        \/ Covered /\ Wrote(file', file, write_offset, Ahead, Len(tail) + Len(batch))
    <3>1. CASE file_open
      <4>1. Covered
        BY <1>1, <1>6, <3>1 DEF Covered
      <4>2. \A j \in DOMAIN (tail \o batch) : j \in DOMAIN Ahead /\ Ahead[j] = (tail \o batch)[j]
        BY <1>0, AheadParts
      <4>3. Wrote(file', file, write_offset, Ahead, Len(tail) + Len(batch))
        BY <1>4, <4>2 DEF Wrote
      <4> QED
        BY <4>1, <4>3
    <3>2. CASE ~file_open
      BY <1>4, <3>2
    <3> QED
      BY <3>1, <3>2
  <2>3. write_offset + Len(tail) <= write_offset' + Len(tail')
    BY ONLY <1>0, <1>11
  <2>4. ASSUME NEW j \in DOMAIN tail', write_offset' + j <= write_offset + Len(tail)
        PROVE  \E l \in DOMAIN tail : tail'[j] = tail[l] /\ write_offset + l = write_offset' + j
    <3>0. tail' \in Seq(Cell) /\ Len(tail') \in Nat
      BY <1>5, NextViews
    <3>1. j \in 1..Len(tail') /\ j \in Nat /\ j > 0
      BY ONLY <3>0, j \in DOMAIN tail'
    <3>2. m + j \in 1..Len(tail) /\ write_offset + (m + j) = write_offset' + j
      BY ONLY SMTT(30), <1>0, <1>4, <2>4, <3>1
    <3>3. m + j \in DOMAIN tail
      BY ONLY <1>0, <3>2
    <3> QED
      BY <1>8, <1>10, <3>1, <3>2, <3>3
  <2> QED
    BY ONLY IndInv, <1>1, <1>5, <2>1, <2>2, <2>3, <2>4, SidecarKept
<1> QED
  BY <1>5, <1>7, <1>12, <1>13 DEF IndInv

-----------------------------------------------------------------------------
(* The part of Control that the writer's operations can disturb.            *)
Segment ==
  /\ ~present => file = <<>> /\ ~file_open
  /\ logical_size <= write_offset + Len(tail)
  /\ Attached /\ ~file_open => \A i \in DOMAIN file : IsRecord(file[i]) => i <= write_offset

(* A fault is one of those that may happen.                                 *)
LEMMA FaultCounts ==
  ASSUME TypeOK, NEW kind, Fault(kind)
  PROVE  faults' \in Nat /\ kind \in Faults
BY TypeParts DEF Fault

(* A failed flush keeps types and control.                                  *)
LEMMA ThrowsStep ==
  ASSUME IndInv, FlushThrows, flush.pc # "idle", AW!TypeOK', Segment', faults' \in Nat,
         archives' \in Seq(Seq(Cell)), checkpoint' \in SUBSET SidecarKind, Cardinality(checkpoint')
           <= 1,
         UNCHANGED <<committed, rotation_index>>
  PROVE  /\ TypeOK' /\ Control' /\ Waiting' = Waiting /\ UNCHANGED <<submitted, sequence>>
         /\ Attached
         /\ tail' = tail => InFlight' >= InFlight
         /\ tail' = tail => InFlight' >= Len(tail) + Len(batch)
<1>0. TypeOK /\ Len(tail) \in Nat /\ Len(batch) \in Nat /\ Len(pending) \in Nat
  BY ViewTypes DEF IndInv
<1>1. /\ pending' \in Seq(Record) /\ batch' = <<>> /\ batch' \in Seq(Record)
      /\ flush' \in FlushKind /\ flush'.pc = "idle" /\ sub' \in SubKind /\ held' \in HeldKind
      /\ life' \in {"up", "stopping", "gate", "failed"} /\ Attached
      /\ Waiting' = Waiting
      /\ InFlight' = Len(tail') + Len(batch) + Len(pending)
      /\ UNCHANGED <<sequence, submitted, acked, expired, crashed, sessions>>
  BY ThrowsOK
<1>2. TypeOK'
  <2>1. life' \in LifeKind
    BY <1>1 DEF LifeKind
  <2> QED
    BY <1>0, <1>1, <2>1, TypeParts, TypeNext
<1>3. Control'
  BY <1>1 DEF Control, Segment
<1>4. tail' = tail => InFlight' >= InFlight /\ InFlight' >= Len(tail) + Len(batch)
  <2>1. InFlight = Len(tail) + Len(batch)
    BY DEF InFlight
  <2> QED
    BY <1>0, <1>1, <2>1
<1> QED
  BY <1>1, <1>2, <1>3, <1>4

(* append_batch of a flush failing: the batch goes back to the front of the *)
(* queue, and the blocks that were written are copies of it.                *)
LEMMA FlushAppendFailsStep ==
  ASSUME IndInv, FlushAppendFails
  PROVE  IndInv'
<1>0. /\ TypeOK /\ AW!TypeOK /\ batch \in Seq(Record) /\ Len(tail) \in Nat /\ Len(batch) \in Nat
      /\ write_offset \in Nat /\ InFlight \in Nat /\ Ahead \in Seq(Cell)
  BY TypeParts, ViewTypes DEF IndInv
<1>1. /\ flush.pc = "append" /\ Fault("write") /\ AW!AppendBatchFails(batch) /\ FlushThrows
      /\ UNCHANGED <<rotation_index, archives, checkpoint, committed>>
  BY DEF FlushAppendFails, diskVars
<1>2. /\ AW!TypeOK' /\ Wrote(file', file, write_offset, tail \o batch, Len(tail) + Len(batch))
      /\ file_open
      /\ UNCHANGED <<present, file_open, tail, write_offset, logical_size, stream>>
  BY ONLY <1>0, <1>1, AppendFailsCells
<1>3. Segment'
  BY <1>2 DEF IndInv, Control, Segment
<1>4. /\ TypeOK' /\ Control' /\ Waiting' = Waiting /\ UNCHANGED <<submitted, sequence>>
      /\ Attached /\ InFlight' >= Len(tail) + Len(batch)
  BY <1>0, <1>1, <1>2, <1>3, TypeParts, FaultCounts, ThrowsStep
<1>5. Wrote(file', file, write_offset, Ahead, InFlight)
  <2>1. \A j \in DOMAIN (tail \o batch) : j \in DOMAIN Ahead /\ Ahead[j] = (tail \o batch)[j]
    BY <1>0, AheadParts
  <2>2. InFlight = Len(tail) + Len(batch)
    BY <1>1 DEF InFlight
  <2> QED
    BY <1>2, <2>1, <2>2 DEF Wrote
<1>6. InFlight >= InFlight /\ InFlight' >= InFlight
  BY <1>0, <1>1, <1>4 DEF InFlight
<1>7. Order' /\ Archived'
  BY <1>0, <1>1, <1>2, <1>4, <1>5, <1>6, WriteOrder
<1>8. Sidecar'
  <2>1. Covered
    BY <1>1, <1>2, <1>4 DEF Covered, IndInv, Control
  <2>2. write_offset + Len(tail) <= write_offset' + Len(tail')
    BY <1>0, <1>2
  <2> QED
    BY <1>1, <1>2, <1>4, <1>5, <2>1, <2>2, SidecarKept
<1> QED
  BY <1>4, <1>7, <1>8 DEF IndInv

(* a step that writes the tail and does not move it *)
(* A write of the tail, with or without a new sidecar.                      *)
LEMMA TailStep ==
  ASSUME IndInv, TypeOK', Control', Attached,
         Wrote(file', file, write_offset, tail, Len(tail)),
         UNCHANGED <<file_open, tail, write_offset, stream, archives, submitted>>,
         Attached' => /\ InFlight' >= InFlight /\ Waiting' = Waiting /\ sequence' = sequence,
         \/ /\ checkpoint' = checkpoint /\ (Covered' => Covered) /\ (file' = file \/ Covered)
         \/ /\ CheckpointEnabled
            /\ checkpoint'
                 = {[size |-> logical_size, seq |-> sequence, rotation |-> rotation_index]}
         \/ "checkpoint" \in Faults
  PROVE  IndInv'
<1>0. TypeOK /\ Len(tail) \in Nat /\ write_offset \in Nat
  BY ViewTypes DEF IndInv
<1>1. Order' /\ Archived' /\ Wrote(file', file, write_offset, Ahead, InFlight)
  BY TailOrder
<1>2. Sidecar'
  <2>1. CASE checkpoint' = checkpoint /\ (Covered' => Covered) /\ (file' = file \/ Covered)
    <3>1. write_offset + Len(tail) <= write_offset' + Len(tail')
      BY <1>0
    <3> QED
      BY <1>1, <2>1, <3>1, SidecarKept
  <2>2. CASE CheckpointEnabled
             /\ checkpoint'
                  = {[size |-> logical_size, seq |-> sequence, rotation |-> rotation_index]}
    BY <2>2, SidecarFresh
  <2>3. CASE "checkpoint" \in Faults
    BY <2>3 DEF Sidecar
  <2> QED
    BY <2>1, <2>2, <2>3
<1> QED
  BY <1>1, <1>2 DEF IndInv

(* Identities are numbers.                                                  *)
LEMMA IdsNat ==
  ASSUME NEW cells \in Seq(Cell)
  PROVE  Ids(cells) \in SUBSET Nat
<1>1. \A i \in DOMAIN cells : cells[i] \in Cell
  OBVIOUS
<1> QED
  BY <1>1, RecordKeys DEF Ids

(* force_flush of a flush.                                                  *)
LEMMA FlushForceStep ==
  ASSUME IndInv, FlushForce
  PROVE  IndInv'
<1>0. /\ TypeOK /\ AW!TypeOK /\ Len(tail) \in Nat /\ Len(pending) \in Nat /\ Len(batch) \in Nat
      /\ write_offset \in Nat /\ InFlight \in Nat /\ stream \in Seq(Cell) /\ life \in LifeKind
  BY TypeParts, ViewTypes DEF IndInv
<1>1. /\ flush.pc = "force" /\ AW!ForceFlush /\ committed' = committed \cup Ids(stream)
         /\ MaybeRotate
      /\ UNCHANGED <<pending, sequence, batch, rotation_index, life, archives, checkpoint,
                     submitted, held, acked, expired, crashed, faults, sessions>>
  BY DEF FlushForce, queueVars, diskVars
<1>2. /\ AW!TypeOK' /\ Wrote(file', file, write_offset, tail, Len(tail))
      /\ ~file_open => file' = file
      /\ UNCHANGED <<present, file_open, tail, write_offset, logical_size, stream>>
  BY ONLY <1>0, <1>1, ForceFlushCells
<1>3. flush' \in FlushKind /\ flush'.pc \in {"seal", "idle"} /\ sub' \in SubKind
  BY <1>0, <1>1, MaybeRotateOK
<1>4. committed' \in SUBSET Nat
  BY <1>0, <1>1, IdsNat, TypeParts
<1>5. TypeOK'
  BY <1>0, <1>1, <1>2, <1>3, <1>4, TypeParts, TypeNext
<1>6. life \in {"up", "stopping", "gate"} /\ batch = <<>> /\ Attached
  BY <1>0, <1>1 DEF IndInv, Control, Attached
<1>7. Control'
  BY <1>0, <1>1, <1>2, <1>3, <1>6 DEF IndInv, Control, Attached
<1>8. Waiting' = Waiting /\ InFlight' >= InFlight /\ (Covered' => Covered)
  <2>1. InFlight = Len(tail) + Len(batch) /\ Len(batch) = 0
    BY <1>1, <1>6 DEF InFlight
  <2>2. InFlight' >= Len(tail)
    BY <1>0, <1>1, <1>2 DEF InFlight
  <2> QED
    BY <1>0, <1>1, <1>2, <1>3, <2>1, <2>2 DEF Waiting, Covered, Attached
<1>9. file' = file \/ Covered
  BY <1>1, <1>2, <1>6 DEF Covered
<1> QED
  BY <1>1, <1>2, <1>5, <1>6, <1>7, <1>8, <1>9, TailStep

(* force_flush failing.                                                     *)
LEMMA FlushForceFailsStep ==
  ASSUME IndInv, FlushForceFails
  PROVE  IndInv'
<1>0. TypeOK /\ AW!TypeOK
  BY TypeParts DEF IndInv
<1>1. /\ flush.pc = "force" /\ Fault("write") /\ AW!ForceFlushFails /\ FlushThrows
      /\ UNCHANGED <<rotation_index, archives, checkpoint, committed>>
  BY DEF FlushForceFails, diskVars
<1>2. /\ AW!TypeOK' /\ Wrote(file', file, write_offset, tail, Len(tail)) /\ file_open
      /\ UNCHANGED <<present, file_open, tail, write_offset, logical_size, stream>>
  BY <1>0, <1>1, TailWriteFailsCells
<1>3. Segment'
  BY <1>2 DEF IndInv, Control, Segment
<1>4. /\ TypeOK' /\ Control' /\ Waiting' = Waiting /\ UNCHANGED <<submitted, sequence>>
      /\ Attached /\ InFlight' >= InFlight
  BY <1>0, <1>1, <1>2, <1>3, TypeParts, FaultCounts, ThrowsStep
<1>5. Covered
  BY <1>1, <1>2, <1>4 DEF Covered, IndInv, Control
<1> QED
  BY <1>1, <1>2, <1>4, <1>5, TailStep

(* The type of the sidecar that persist_checkpoint writes.                  *)
LEMMA CheckpointKinds ==
  ASSUME TypeOK
  PROVE  /\ {[size |-> logical_size, seq |-> sequence, rotation |-> rotation_index]}
              \in SUBSET SidecarKind
         /\ Cardinality({[size |-> logical_size, seq |-> sequence, rotation |-> rotation_index]})
              <= 1
<1>1. logical_size \in Nat /\ sequence \in Nat /\ rotation_index \in Nat
  BY ViewTypes, TypeParts
<1>2. Cardinality({[size |-> logical_size, seq |-> sequence, rotation |-> rotation_index]}) = 1
  BY FS_Singleton
<1> QED
  BY <1>1, <1>2 DEF SidecarKind

(* The checkpoint after a rotation.                                         *)
LEMMA RotateCheckpointStep ==
  ASSUME IndInv, RotateCheckpoint
  PROVE  IndInv'
<1>0. /\ TypeOK /\ AW!TypeOK /\ Len(tail) \in Nat /\ Len(pending) \in Nat /\ Len(batch) \in Nat
      /\ life \in LifeKind
  BY TypeParts, ViewTypes DEF IndInv
<1>1. /\ flush.pc = "checkpoint" /\ AW!ForceFlush /\ FlushReturns
      /\ checkpoint' = {[size |-> logical_size, seq |-> sequence, rotation |-> rotation_index]}
      /\ UNCHANGED <<pending, sequence, batch, rotation_index, life, archives,
                     submitted, held, acked, committed, expired, crashed, faults,
                     sessions>>
  BY DEF RotateCheckpoint, PersistCheckpoint, queueVars, ghostVars
<1>2. /\ AW!TypeOK' /\ Wrote(file', file, write_offset, tail, Len(tail))
      /\ ~file_open => file' = file
      /\ UNCHANGED <<present, file_open, tail, write_offset, logical_size, stream>>
  BY ONLY <1>0, <1>1, ForceFlushCells
<1>3. flush' \in FlushKind /\ flush'.pc = "idle" /\ sub' \in SubKind
  BY <1>0, <1>1, ReturnsOK
<1>4. checkpoint' \in SUBSET SidecarKind /\ Cardinality(checkpoint') <= 1
  BY <1>0, <1>1, CheckpointKinds
<1>5. TypeOK'
  BY <1>0, <1>1, <1>2, <1>3, <1>4, TypeParts, TypeNext
<1>6. life \in {"up", "stopping", "gate"} /\ batch = <<>> /\ Attached /\ CheckpointEnabled
  BY <1>0, <1>1 DEF IndInv, Control, Attached
<1>7. Control'
  BY <1>0, <1>1, <1>2, <1>3, <1>6 DEF IndInv, Control, Attached
<1>8. Waiting' = Waiting /\ InFlight' >= InFlight
  <2>1. InFlight = Len(tail) + Len(batch) /\ Len(batch) = 0
    BY <1>1, <1>6 DEF InFlight
  <2>2. InFlight' >= Len(tail)
    BY <1>0, <1>1, <1>2 DEF InFlight
  <2> QED
    BY <1>0, <1>1, <1>2, <1>3, <2>1, <2>2 DEF Waiting
<1> QED
  BY <1>1, <1>2, <1>5, <1>6, <1>7, <1>8, TailStep

(* persist_checkpoint failing before or after the rename.                   *)
LEMMA PersistFailsCells ==
  ASSUME TypeOK, PersistCheckpointFails
  PROVE  /\ AW!ForceFlush /\ faults' \in Nat /\ "checkpoint" \in Faults
         /\ checkpoint' \in SUBSET SidecarKind /\ Cardinality(checkpoint') <= 1
<1>1. /\ Fault("checkpoint") /\ AW!ForceFlush
      /\ \/ checkpoint' = {[size |-> logical_size, seq |-> sequence, rotation |-> rotation_index]}
         \/ checkpoint' = checkpoint
  BY DEF PersistCheckpointFails, PersistCheckpoint
<1> QED
  BY <1>1, FaultCounts, CheckpointKinds, TypeParts

(* The checkpoint after a rotation failing.                                 *)
LEMMA RotateCheckpointFailsStep ==
  ASSUME IndInv, RotateCheckpointFails
  PROVE  IndInv'
<1>0. TypeOK /\ AW!TypeOK
  BY TypeParts DEF IndInv
<1>1. /\ flush.pc = "checkpoint" /\ PersistCheckpointFails /\ FlushThrows
      /\ UNCHANGED <<rotation_index, archives, committed>>
  BY DEF RotateCheckpointFails
<1>2. /\ AW!ForceFlush /\ faults' \in Nat /\ "checkpoint" \in Faults
      /\ checkpoint' \in SUBSET SidecarKind /\ Cardinality(checkpoint') <= 1
  BY <1>0, <1>1, PersistFailsCells
<1>3. /\ AW!TypeOK' /\ Wrote(file', file, write_offset, tail, Len(tail))
      /\ ~file_open => file' = file
      /\ UNCHANGED <<present, file_open, tail, write_offset, logical_size, stream>>
  BY ONLY <1>0, <1>2, ForceFlushCells
<1>4. Attached
  BY <1>1, ThrowsOK
<1>5. Segment'
  BY <1>3, <1>4 DEF IndInv, Control, Segment
<1>6. /\ TypeOK' /\ Control' /\ Waiting' = Waiting /\ UNCHANGED <<submitted, sequence>>
      /\ Attached /\ InFlight' >= InFlight
  BY <1>0, <1>1, <1>2, <1>3, <1>5, TypeParts, ThrowsStep
<1> QED
  BY <1>1, <1>2, <1>3, <1>6, TailStep

-----------------------------------------------------------------------------
(* Adding an empty tail.                                                    *)
LEMMA AddZero == \A w \in Nat : \A n : n = 0 => w + n = w
OBVIOUS

(* A step that seals the segment.                                           *)
LEMMA SealedStep ==
  ASSUME IndInv, TypeOK', Control', Attached, Covered,
           Wrote(file', file, write_offset, tail, Len(tail)),
         tail' = <<>>, write_offset' >= write_offset + Len(tail),
         UNCHANGED <<archives, submitted, checkpoint>>,
         Attached' => /\ \A i \in DOMAIN file' : IsRecord(file'[i]) => i <= write_offset + Len(tail)
                      /\ Waiting' = Waiting /\ UNCHANGED <<sequence, stream>>
  PROVE  IndInv'
<1>0. /\ TypeOK /\ write_offset \in Nat /\ Len(tail) \in Nat /\ tail \in Seq(Cell)
         /\ Ahead \in Seq(Cell)
      /\ Len(Ahead) = Len(tail) + Len(batch) + Len(pending)
      /\ Len(batch) \in Nat /\ Len(pending) \in Nat /\ write_offset' \in Nat
  BY ViewTypes, NextViews DEF IndInv
<1>1. Order' /\ Archived'
  <2>1. CASE Attached'
    BY <2>1, SealOrder
  <2>2. CASE ~Attached'
    BY <2>2, TailOrder
  <2> QED
    BY <2>1, <2>2
<1>2. Sidecar'
  <2>1. Wrote(file', file, write_offset, Ahead, Len(tail))
    <3>1. Len(tail) <= Len(Ahead) /\ \A j \in DOMAIN tail : Ahead[j] = tail[j]
      BY <1>0, AheadParts
    <3>2. Len(tail) <= Len(tail)
      BY <1>0
    <3> QED
      BY <1>0, <3>1, <3>2, PrefixWrote
  <2>2. write_offset + Len(tail) <= write_offset' + Len(tail') /\ DOMAIN tail' = {}
    <3>1. Len(tail') = 0
      OBVIOUS
    <3> QED
      BY <1>0, <3>1
  <2> QED
    BY <2>1, <2>2, SidecarKept
<1> QED
  BY <1>1, <1>2 DEF IndInv

(* flush_tail and close on a segment whose size is known.                   *)
LEMMA SealedSegment ==
  ASSUME TypeOK, logical_size <= write_offset + Len(tail), AW!FlushTail \/ AW!Close
  PROVE  /\ AW!TypeOK' /\ Wrote(file', file, write_offset, tail, Len(tail))
         /\ \A i \in DOMAIN file' : i <= write_offset + Len(tail)
         /\ file_open /\ tail' = <<>> /\ write_offset' >= write_offset + Len(tail)
         /\ UNCHANGED <<present, logical_size, stream>>
         /\ AW!FlushTail => file_open' = file_open
         /\ AW!Close => ~file_open'
         /\ logical_size' <= write_offset' + Len(tail')
         /\ \A i \in DOMAIN file' : i <= write_offset'
<1>0. AW!TypeOK /\ write_offset \in Nat /\ Len(tail) \in Nat /\ logical_size \in Nat
  BY ViewTypes
<1>1. /\ AW!TypeOK' /\ Wrote(file', file, write_offset, tail, Len(tail))
      /\ \A i \in DOMAIN file' : i <= write_offset + Len(tail)
      /\ file_open /\ tail' = <<>> /\ write_offset' >= write_offset + Len(tail)
      /\ UNCHANGED <<present, logical_size, stream>>
      /\ AW!FlushTail => file_open' = file_open
      /\ AW!Close => ~file_open'
  BY ONLY <1>0, AW!FlushTail \/ AW!Close, logical_size <= write_offset + Len(tail),
     SealCells
<1>2. write_offset' \in Nat
  BY <1>1 DEF AW!TypeOK
<1>3. Len(tail') = 0
  BY <1>1
<1>4. logical_size' <= write_offset' + Len(tail')
  <2>1. logical_size <= write_offset + Len(tail) /\ write_offset + Len(tail) <= write_offset'
        /\ logical_size' = logical_size
    BY <1>1
  <2>2. write_offset' + Len(tail') = write_offset'
    BY ONLY <1>2, <1>3, AddZero
  <2>3. logical_size <= write_offset'
    BY ONLY <1>0, <1>2, <2>1
  <2> QED
    BY ONLY <2>1, <2>2, <2>3
<1>5. DOMAIN file' \subseteq Nat
  BY <1>1 DEF AW!TypeOK
<1>6. \A i \in DOMAIN file' : i <= write_offset'
  BY <1>0, <1>1, <1>2, <1>5
<1> QED
  BY <1>1, <1>4, <1>6

(* The same steps on a writer without a file.                               *)
LEMMA ClosedStep ==
  ASSUME IndInv, ~file_open, UNCHANGED writerVars,
         \/ /\ flush.pc = "seal" /\ Goto("close") /\ rotation_index' = rotation_index
            /\ life' = life
            /\ UNCHANGED <<queueVars, diskVars, ghostVars>>
         \/ /\ flush.pc = "close" /\ Goto("rename") /\ rotation_index' = rotation_index + 1
            /\ life' = life
            /\ UNCHANGED <<queueVars, diskVars, ghostVars>>
         \/ /\ flush.pc = "rename" /\ ~present /\ Goto("reopen") /\ rotation_index' = rotation_index
            /\ life' = life
            /\ UNCHANGED <<queueVars, diskVars, ghostVars>>
         \/ /\ flush.pc = "cleanup" /\ Goto("reopen") /\ rotation_index' = rotation_index
            /\ life' = life
            /\ UNCHANGED <<queueVars, diskVars, ghostVars>>
         \/ /\ life = "stop_tail"
            /\ life' = (IF CheckpointEnabled THEN "stop_checkpoint" ELSE "stop_close")
            /\ UNCHANGED <<queueVars, rotation_index, flush, sub, diskVars, ghostVars>>
         \/ /\ life = "stop_close" /\ life' = "stopped"
            /\ UNCHANGED <<queueVars, rotation_index, flush, sub, diskVars, ghostVars>>
  PROVE  IndInv'
<1>0. /\ TypeOK /\ AW!TypeOK /\ Len(tail) \in Nat /\ Len(pending) \in Nat /\ Len(batch) \in Nat
      /\ life \in LifeKind /\ flush \in FlushKind /\ sub \in SubKind /\ InFlight \in Nat
         /\ rotation_index \in Nat
  BY TypeParts, ViewTypes DEF IndInv
<1>1. UNCHANGED <<file, present, file_open, tail, write_offset, logical_size, stream,
                  flushed, misused,
                  pending, sequence, batch, archives, checkpoint,
                  submitted, held, acked, committed, expired, crashed, faults, sessions>>
  BY DEF writerVars, queueVars, diskVars, ghostVars
<1>2. /\ flush' \in FlushKind /\ sub' \in SubKind /\ life' \in LifeKind /\ rotation_index' \in Nat
      /\ \/ flush.pc # "idle" /\ flush'.pc # "idle" /\ life' = life
         \/ flush' = flush /\ life \in {"stop_tail", "stop_close"}
              /\ life' \in {"stop_checkpoint", "stop_close", "stopped"}
  BY <1>0, GotoOK DEF LifeKind
<1>3. TypeOK'
  <2>1. AW!TypeOK'
    BY <1>0, <1>1 DEF AW!TypeOK
  <2> QED
    BY <1>0, <1>1, <1>2, <2>1, TypeParts, TypeNext
<1>4. Control'
  <2>1. flush' # flush => /\ life' = life
                          /\ flush.pc \in {"seal", "close", "rename", "cleanup"}
                          /\ flush'.pc \in {"close", "rename", "reopen"}
                          /\ flush'.pc = "reopen" => ~present \/ flush.pc = "cleanup"
    BY <1>0, GotoOK
  <2>2. life' # life => /\ flush' = flush /\ life \in {"stop_tail", "stop_close"}
                        /\ life' \in {"stop_checkpoint", "stop_close", "stopped"}
                        /\ life' = "stop_checkpoint" => CheckpointEnabled
    BY <1>0
  <2> QED
    BY <1>0, <1>1, <1>2, <2>1, <2>2 DEF IndInv, Control, Attached
<1>5. InFlight' >= InFlight /\ Waiting' = Waiting /\ (Attached' => Attached) /\ ~Covered'
  <2>1. flush'.pc = "idle" <=> flush.pc = "idle"
    BY <1>2
  <2> QED
    BY <1>0, <1>1, <1>2, <2>1 DEF InFlight, Waiting, Attached, Covered
<1>6. UNCHANGED <<diskVars, submitted>>
  BY <1>1 DEF diskVars
<1> QED
  BY <1>1, <1>3, <1>4, <1>5, <1>6, QuietStep

(* The seal and the close of a rotation.                                    *)
LEMMA RotateSealStep ==
  ASSUME IndInv, RotateSeal \/ RotateClose
  PROVE  IndInv'
<1>0. /\ TypeOK /\ AW!TypeOK /\ rotation_index \in Nat /\ life \in LifeKind
      /\ logical_size <= write_offset + Len(tail)
  BY TypeParts, ViewTypes DEF IndInv, Control
<1>1. CASE ~file_open
  BY <1>1, ClosedStep DEF RotateSeal, RotateClose
<1>2. CASE file_open
  <2>1. /\ flush.pc \in {"seal", "close"}
        /\ AW!FlushTail \/ AW!Close
        /\ rotation_index' \in Nat
        /\ flush.pc = "seal" => AW!FlushTail /\ Goto("close")
        /\ flush.pc = "close" => AW!Close /\ Goto("rename")
        /\ UNCHANGED <<pending, sequence, batch, life, archives, checkpoint,
                       submitted, held, acked, committed, expired, crashed, faults,
                       sessions>>
    BY <1>0, <1>2 DEF RotateSeal, RotateClose, queueVars, diskVars, ghostVars
  <2>2. /\ AW!TypeOK' /\ Wrote(file', file, write_offset, tail, Len(tail))
        /\ \A i \in DOMAIN file' : i <= write_offset + Len(tail)
        /\ tail' = <<>> /\ write_offset' >= write_offset + Len(tail)
        /\ UNCHANGED <<present, logical_size, stream>>
        /\ AW!FlushTail => file_open' = file_open
        /\ AW!Close => ~file_open'
        /\ logical_size' <= write_offset' + Len(tail')
        /\ \A i \in DOMAIN file' : i <= write_offset'
    BY ONLY <1>0, <2>1, SealedSegment
  <2>3. /\ flush' \in FlushKind /\ sub' \in SubKind
        /\ flush.pc = "seal" => flush'.pc = "close"
        /\ flush.pc = "close" => flush'.pc = "rename"
    BY <1>0, <2>1, GotoOK
  <2>4. TypeOK'
    BY <1>0, <2>1, <2>2, <2>3, TypeParts, TypeNext
  <2>5. life \in {"up", "stopping", "gate"} /\ batch = <<>> /\ Attached /\ present
    BY <1>0, <1>2, <2>1 DEF IndInv, Control, Attached
  <2>6. Control'
    BY <2>1, <2>2, <2>3, <2>5 DEF Control, Attached
  <2>7. Covered /\ Waiting' = Waiting
    BY <1>2, <2>1, <2>5 DEF Covered, Waiting
  <2> QED
    BY <2>1, <2>2, <2>4, <2>5, <2>6, <2>7, SealedStep
<1> QED
  BY <1>0, <1>1, <1>2

(* Either of them failing.                                                  *)
LEMMA RotateCloseFailsStep ==
  ASSUME IndInv, RotateCloseFails
  PROVE  IndInv'
<1>0. /\ TypeOK /\ AW!TypeOK /\ logical_size <= write_offset + Len(tail)
      /\ write_offset \in Nat /\ Len(tail) \in Nat /\ logical_size \in Nat /\ file \in Seq(Cell)
  BY TypeParts, ViewTypes DEF IndInv, Control
<1>1. /\ flush.pc \in {"seal", "close"} /\ faults' \in Nat /\ FlushThrows
      /\ AW!FlushTailWriteFails \/ AW!FlushTailTruncateFails \/ AW!FlushTail
      /\ UNCHANGED <<rotation_index, archives, checkpoint, committed>>
  BY <1>0, FaultCounts DEF RotateCloseFails, diskVars
<1>2. Attached /\ batch = <<>> /\ life \in {"up", "stopping", "gate"}
  BY <1>1, ThrowsOK DEF IndInv, Control
<1>3. CASE AW!FlushTailWriteFails
  <2>1. /\ AW!TypeOK' /\ Wrote(file', file, write_offset, tail, Len(tail)) /\ file_open
        /\ UNCHANGED <<present, file_open, tail, write_offset, logical_size, stream>>
    BY <1>0, <1>3, TailWriteFailsCells
  <2>2. Segment'
    BY <2>1 DEF IndInv, Control, Segment
  <2>3. /\ TypeOK' /\ Control' /\ Waiting' = Waiting /\ UNCHANGED <<submitted, sequence>>
        /\ InFlight' >= InFlight
    BY <1>0, <1>1, <2>1, <2>2, TypeParts, ThrowsStep
  <2>4. Covered
    BY <1>1, <1>2, <2>1 DEF Covered
  <2> QED
    BY <1>1, <1>2, <2>1, <2>3, <2>4, TailStep
<1>4. CASE AW!FlushTailTruncateFails \/ AW!FlushTail
  <2>1. /\ AW!TypeOK' /\ Wrote(file', file, write_offset, tail, Len(tail))
        /\ file_open /\ tail' = <<>> /\ write_offset' >= write_offset + Len(tail)
        /\ UNCHANGED <<present, file_open, logical_size, stream>>
    <3>1. CASE AW!FlushTail
      BY ONLY <1>0, <3>1, SealCells
    <3>2. CASE AW!FlushTailTruncateFails
      BY ONLY <1>0, <3>2, TruncateFailsCells
    <3> QED
      BY <1>4, <3>1, <3>2
  <2>2. write_offset' \in Nat /\ Len(tail') = 0
    BY <2>1 DEF AW!TypeOK
  <2>3. present
    BY <2>1 DEF IndInv, Control
  <2>4. Segment'
    <3>1. write_offset + Len(tail) <= write_offset' /\ logical_size' = logical_size
      BY <1>0, <2>1, <2>2
    <3>2. logical_size' <= write_offset' + Len(tail')
      <4>1. write_offset' + Len(tail') = write_offset'
        BY ONLY <2>2, AddZero
      <4>2. logical_size <= write_offset'
        BY ONLY <1>0, <2>2, <3>1
      <4> QED
        BY ONLY <3>1, <4>1, <4>2
    <3> QED
      BY <2>1, <2>3, <3>2 DEF Segment
  <2>5. TypeOK' /\ Control' /\ Waiting' = Waiting /\ UNCHANGED <<submitted, sequence>>
    BY <1>0, <1>1, <2>1, <2>4, TypeParts, ThrowsStep
  <2>6. \A i \in DOMAIN file' : IsRecord(file'[i]) => i <= write_offset + Len(tail)
    <3>1. InFlight = Len(tail)
      BY <1>0, <1>1, <1>2 DEF InFlight
    <3>2. \A i \in DOMAIN file : i > write_offset
          /\ IsRecord(file[i]) => i - write_offset <= Len(tail)
      BY <1>2, <3>1, KeyKinds DEF IndInv, Order, Placed, Fits
    <3>3. DOMAIN file' \subseteq Nat /\ DOMAIN file \subseteq Nat
      BY <1>0, <2>1 DEF Wrote
    <3>4. ASSUME NEW i \in DOMAIN file', IsRecord(file'[i]) PROVE i <= write_offset + Len(tail)
      <4>1. i <= write_offset \/ i - write_offset <= Len(tail)
        BY <1>0, <2>1, <3>2, <3>3, <3>4 DEF Wrote
      <4> QED
        BY <1>0, <3>3, <4>1
    <3> QED
      BY <3>4
  <2>7. Covered
    BY <1>1, <1>2, <2>1 DEF Covered
  <2> QED
    BY <1>1, <1>2, <2>1, <2>5, <2>6, <2>7, SealedStep
<1> QED
  BY <1>1, <1>3, <1>4

(* The rename takes the active file away.                                   *)
LEMMA RenameCells ==
  ASSUME TypeOK, AW!RenameAway
  PROVE  /\ AW!TypeOK' /\ ~file_open /\ present /\ file' = <<>> /\ stream' = <<>> /\ ~present'
         /\ UNCHANGED <<file_open, tail, write_offset, logical_size>>
         /\ Append(archives, file) \in Seq(Seq(Cell))
<1>0. AW!TypeOK /\ archives \in Seq(Seq(Cell)) /\ file \in Seq(Cell)
  BY ViewTypes
<1>1. AW!TypeOK'
  BY <1>0, ResetTypes
<1> QED
  BY <1>0, <1>1 DEF AW!RenameAway, AW!memoryVars

(* The rename of a rotation.                                                *)
LEMMA RotateRenameStep ==
  ASSUME IndInv, RotateRename
  PROVE  IndInv'
<1>0. /\ TypeOK /\ life \in LifeKind
  BY TypeParts DEF IndInv
<1>1. ~file_open /\ flush.pc = "rename"
  BY DEF RotateRename, IndInv, Control
<1>2. CASE ~present
  <2>1. /\ UNCHANGED writerVars /\ Goto("reopen") /\ rotation_index' = rotation_index
           /\ life' = life
        /\ UNCHANGED <<queueVars, diskVars, ghostVars>>
    BY <1>2 DEF RotateRename, diskVars
  <2> QED
    BY <1>1, <1>2, <2>1, ClosedStep
<1>3. CASE present
  <2>1. /\ AW!RenameAway /\ Goto("cleanup")
        /\ archives' = Append(archives, file)
        /\ UNCHANGED <<pending, sequence, batch, rotation_index, life, checkpoint,
                       submitted, held, acked, committed, expired, crashed, faults, sessions>>
    BY <1>3 DEF RotateRename, queueVars, ghostVars
  <2>2. /\ AW!TypeOK' /\ ~file_open /\ file' = <<>> /\ stream' = <<>> /\ ~present'
        /\ UNCHANGED <<file_open, tail, write_offset, logical_size>>
        /\ Append(archives, file) \in Seq(Seq(Cell))
    BY ONLY <1>0, <2>1, RenameCells
  <2>3. flush' \in FlushKind /\ flush'.pc = "cleanup" /\ sub' \in SubKind
    BY <1>0, <2>1, GotoOK
  <2>4. TypeOK'
    BY <1>0, <2>1, <2>2, <2>3, TypeParts, TypeNext
  <2>5. Attached /\ life \in {"up", "stopping", "gate"} /\ batch = <<>>
    BY <1>0, <1>1 DEF IndInv, Control, Attached
  <2>6. Control'
    <3>1. DOMAIN file' = {}
      BY <2>2
    <3> QED
      BY <2>1, <2>2, <2>3, <2>5, <3>1 DEF IndInv, Control, Attached
  <2>7. Waiting' = Waiting
    BY <2>1 DEF Waiting
  <2>8. Order' /\ Archived'
    BY ONLY IndInv, <2>1, <2>2, <2>4, <2>5, <2>7, RenameOrder
  <2>9. Sidecar'
    <3>1. DOMAIN file' = {} /\ ~Covered'
      BY <2>2 DEF Covered
    <3> QED
      BY <2>1, <2>4, <3>1, SidecarKept
  <2> QED
    BY <2>4, <2>6, <2>8, <2>9 DEF IndInv
<1> QED
  BY <1>2, <1>3

(* The segment that goes next, if there is one, is an archive.              *)
LEMMA NextOutKind ==
  ASSUME TypeOK
  PROVE  /\ NextOut = 0 \/ NextOut \in DOMAIN archives
         /\ NextOut \in Nat /\ Len(archives) \in Nat
<1>1. archives \in Seq(Seq(Cell))
  BY ViewTypes
<1> QED
  BY <1>1, Options DEF NextOut

(* A step of the cleanup.                                                   *)
LEMMA RotateCleanupStep ==
  ASSUME IndInv, RotateCleanup
  PROVE  IndInv'
<1>0. /\ TypeOK /\ AW!TypeOK /\ expired \in SUBSET Nat /\ archives \in Seq(Seq(Cell))
  BY TypeParts, ViewTypes DEF IndInv
<1>1. flush.pc = "cleanup" /\ ~file_open
  BY DEF RotateCleanup, IndInv, Control
<1>2. CASE NextOut = 0
  <2>1. /\ UNCHANGED writerVars /\ Goto("reopen") /\ rotation_index' = rotation_index
           /\ life' = life
        /\ UNCHANGED <<queueVars, diskVars, ghostVars>>
    BY <1>2 DEF RotateCleanup, diskVars, ghostVars
  <2> QED
    BY <1>1, <2>1, ClosedStep
<1>3. CASE NextOut # 0
  <2> DEFINE k == NextOut
  <2>1. k \in DOMAIN archives
    BY <1>0, <1>3, NextOutKind
  <2>2. /\ archives' = RemoveAt(archives, k)
        /\ expired' = expired \cup Ids(archives[k])
        /\ UNCHANGED <<file, present, file_open, tail, write_offset, logical_size,
                       stream, flushed, misused, pending, sequence, batch, rotation_index,
                       flush, life, sub, checkpoint,
                       submitted, held, acked, committed, crashed, faults, sessions>>
    BY <1>3 DEF RotateCleanup, writerVars, queueVars
  <2> HIDE DEF k
  <2>3. TypeOK'
    <3>1. RemoveAt(archives, k) \in Seq(Seq(Cell))
      BY ONLY <1>0, <2>1, OneRemoved
    <3>2. archives[k] \in Seq(Cell)
      BY <1>0, <2>1
    <3>3. Ids(archives[k]) \subseteq Nat
      BY <3>2, IdsNat
    <3>4. AW!TypeOK'
      BY <1>0, <2>2 DEF AW!TypeOK
    <3> QED
      BY <1>0, <2>2, <3>1, <3>3, <3>4, TypeParts, TypeNext
  <2>4. Control'
    BY <2>2 DEF IndInv, Control, Attached
  <2>5. Order' /\ Archived'
    BY ONLY IndInv, <2>1, <2>2, CleanupOrder
  <2>6. Sidecar'
    <3>1. ~Covered'
      BY <1>1, <2>2 DEF Covered
    <3> QED
      BY <2>2, <2>3, <3>1, SidecarKept
  <2> QED
    BY <2>3, <2>4, <2>5, <2>6 DEF IndInv
<1> QED
  BY <1>2, <1>3

(* The rename or the cleanup failing: the file is as it was, closed.        *)
LEMMA RotateRenameFailsStep ==
  ASSUME IndInv, RotateRenameFails \/ RotateCleanupFails
  PROVE  IndInv'
<1>0. TypeOK /\ AW!TypeOK
  BY TypeParts DEF IndInv
<1>1. /\ flush.pc \in {"rename", "cleanup"} /\ faults' \in Nat /\ FlushThrows
      /\ UNCHANGED <<writerVars, diskVars, rotation_index, committed>>
  BY <1>0, FaultCounts DEF RotateRenameFails, RotateCleanupFails
<1>2. UNCHANGED <<file, present, file_open, tail, write_offset, logical_size, stream,
                  flushed, misused,
                  archives, checkpoint>>
  BY <1>1 DEF writerVars, diskVars
<1>3. AW!TypeOK' /\ Attached /\ ~file_open
  BY <1>0, <1>1, <1>2, ThrowsOK DEF AW!TypeOK, IndInv, Control
<1>4. Segment'
  BY <1>2, <1>3 DEF IndInv, Control, Segment
<1>5. /\ TypeOK' /\ Control' /\ Waiting' = Waiting /\ UNCHANGED <<submitted, sequence>>
      /\ InFlight' >= InFlight
  BY <1>0, <1>1, <1>2, <1>3, <1>4, TypeParts, ThrowsStep
<1>6. ~Covered'
  BY <1>2, <1>3 DEF Covered
<1> QED
  BY <1>1, <1>3, <1>5, <1>6, QuietStep

(* start of the byte writer.                                                *)
LEMMA StartCells ==
  ASSUME TypeOK, AW!Start(TruncateOnStart)
  PROVE  /\ AW!TypeOK' /\ file_open' /\ present'
         /\ file' = (IF TruncateOnStart /\ ~file_open THEN <<>> ELSE file)
         /\ tail' = <<>> /\ write_offset' = 0 /\ logical_size' = 0 /\ stream' = <<>>
<1>0. AW!TypeOK
  BY ViewTypes
<1>1. AW!TypeOK'
  BY <1>0, ResetTypes
<1> QED
  BY <1>1 DEF AW!Start

(* The new segment.                                                         *)
LEMMA RotateReopenStep ==
  ASSUME IndInv, RotateReopen
  PROVE  IndInv'
<1>0. TypeOK /\ life \in LifeKind
  BY TypeParts DEF IndInv
<1>1. /\ flush.pc = "reopen" /\ AW!Start(TruncateOnStart)
      /\ CheckpointEnabled => Goto("checkpoint")
      /\ ~CheckpointEnabled => FlushReturns
      /\ UNCHANGED <<pending, sequence, batch, rotation_index, life, archives, checkpoint,
                     submitted, held, acked, committed, expired, crashed, faults,
                     sessions>>
  BY DEF RotateReopen, queueVars, diskVars, ghostVars
<1>2. file = <<>> /\ ~file_open /\ batch = <<>> /\ life \in {"up", "stopping", "gate"} /\ Attached
  BY <1>0, <1>1 DEF IndInv, Control, Attached
<1>3. /\ AW!TypeOK' /\ file_open' /\ present' /\ file' = <<>>
      /\ tail' = <<>> /\ write_offset' = 0 /\ logical_size' = 0 /\ stream' = <<>>
  BY <1>0, <1>1, <1>2, StartCells
<1>4. /\ flush' \in FlushKind /\ sub' \in SubKind
      /\ CheckpointEnabled => flush'.pc = "checkpoint"
      /\ ~CheckpointEnabled => flush'.pc = "idle"
  BY <1>0, <1>1, GotoOK, ReturnsOK
<1>5. TypeOK'
  BY <1>0, <1>1, <1>3, <1>4, TypeParts, TypeNext
<1>6. Control'
  <2>1. logical_size' <= write_offset' + Len(tail')
    <3>1. Len(tail') = 0
      BY <1>3
    <3> QED
      BY <1>3, <3>1
  <2> QED
    BY <1>1, <1>2, <1>3, <1>4, <2>1 DEF Control
<1>7. Waiting' = Waiting
  BY <1>1 DEF Waiting
<1>8. Order' /\ Archived'
  BY ONLY IndInv, <1>1, <1>2, <1>3, <1>5, <1>7, ReopenOrder
<1>9. Sidecar'
  <2>1. DOMAIN file' = {}
    BY <1>3
  <2>2. ~("checkpoint" \notin Faults /\ Covered' /\ checkpoint # {})
    BY <1>4 DEF IndInv, Sidecar, Covered
  <2> QED
    BY <1>1, <1>5, <2>1, <2>2, SidecarKept
<1> QED
  BY <1>5, <1>6, <1>8, <1>9 DEF IndInv

(* The new segment cannot be opened: the queue goes on without a file.      *)
LEMMA RotateReopenFailsStep ==
  ASSUME IndInv, RotateReopenFails
  PROVE  IndInv'
<1>0. TypeOK /\ AW!TypeOK
  BY TypeParts DEF IndInv
<1>1. /\ flush.pc = "reopen" /\ faults' \in Nat /\ FlushThrows /\ AW!StartFails
      /\ UNCHANGED <<rotation_index, archives, checkpoint, committed>>
  BY <1>0, FaultCounts DEF RotateReopenFails, diskVars
<1>2. /\ AW!TypeOK' /\ ~file_open /\ tail' = <<>> /\ write_offset' = 0 /\ logical_size' = 0
         /\ stream' = <<>>
      /\ UNCHANGED <<file, present, file_open>>
  BY <1>0, <1>1, ResetTypes DEF AW!StartFails, AW!diskVars
<1>3. file = <<>>
  BY <1>1 DEF IndInv, Control
<1>4. Segment'
  <2>1. DOMAIN file' = {} /\ Len(tail') = 0
    BY <1>2, <1>3
  <2>2. logical_size' <= write_offset' + Len(tail')
    BY <1>2, <2>1
  <2> QED
    BY <1>2, <1>3, <2>1, <2>2 DEF Segment
<1>5. TypeOK' /\ Control' /\ Waiting' = Waiting /\ UNCHANGED <<submitted,
                                                               sequence>> /\ Attached
  BY <1>0, <1>1, <1>2, <1>4, TypeParts, ThrowsStep
<1>6. file' = <<>>
  BY <1>2, <1>3
<1>7. Order' /\ Archived'
  BY ONLY IndInv, <1>1, <1>2, <1>5, <1>6, ReopenOrder
<1>8. Sidecar'
  <2>1. DOMAIN file' = {} /\ ~Covered'
    BY <1>2, <1>6 DEF Covered
  <2> QED
    BY <1>1, <1>5, <2>1, SidecarKept
<1> QED
  BY <1>5, <1>7, <1>8 DEF IndInv

(* The seal and the close of stop.                                          *)
LEMMA StopTailStep ==
  ASSUME IndInv, StopTail \/ StopClose
  PROVE  IndInv'
<1>0. TypeOK /\ AW!TypeOK /\ logical_size <= write_offset + Len(tail)
  BY TypeParts DEF IndInv, Control
<1>1. CASE ~file_open
  BY <1>1, ClosedStep DEF StopTail, StopClose
<1>2. CASE file_open
  <2>1. /\ life \in {"stop_tail", "stop_close"}
        /\ AW!FlushTail \/ AW!Close
        /\ life = "stop_tail" => /\ AW!FlushTail
                                 /\ life' = (IF CheckpointEnabled THEN "stop_checkpoint" ELSE "stop_close")
        /\ life = "stop_close" => AW!Close /\ life' = "stopped"
        /\ UNCHANGED <<pending, sequence, batch, rotation_index, flush, sub, archives,
                       checkpoint,
                       submitted, held, acked, committed, expired, crashed, faults,
                       sessions>>
    BY <1>2 DEF StopTail, StopClose, queueVars, diskVars, ghostVars
  <2>2. /\ AW!TypeOK' /\ Wrote(file', file, write_offset, tail, Len(tail))
        /\ \A i \in DOMAIN file' : i <= write_offset + Len(tail)
        /\ tail' = <<>> /\ write_offset' >= write_offset + Len(tail)
        /\ UNCHANGED <<present, logical_size, stream>>
        /\ AW!FlushTail => file_open' = file_open
        /\ AW!Close => ~file_open'
        /\ logical_size' <= write_offset' + Len(tail')
        /\ \A i \in DOMAIN file' : i <= write_offset'
    BY ONLY <1>0, <2>1, SealedSegment
  <2>3. life' \in LifeKind
    BY <2>1 DEF LifeKind
  <2>4. TypeOK'
    BY <1>0, <2>1, <2>2, <2>3, TypeParts, TypeNext
  <2>5. flush.pc = "idle" /\ batch = <<>> /\ Attached /\ present
    BY <1>0, <1>2, <2>1 DEF IndInv, Control, Attached
  <2>6. Control'
    BY <2>1, <2>2, <2>5 DEF Control, Attached
  <2>7. Covered /\ Waiting' = Waiting
    BY <1>2, <2>1, <2>5 DEF Covered, Waiting
  <2> QED
    BY <2>1, <2>2, <2>4, <2>5, <2>6, <2>7, SealedStep
<1> QED
  BY <1>1, <1>2

(* The checkpoints of start and stop.                                       *)
LEMMA PersistStep ==
  ASSUME IndInv, StopCheckpoint \/ StartCheckpoint
  PROVE  IndInv'
<1>0. TypeOK /\ AW!TypeOK /\ InFlight \in Nat
  BY TypeParts, ViewTypes DEF IndInv
<1>1. /\ AW!ForceFlush
      /\ checkpoint' = {[size |-> logical_size, seq |-> sequence, rotation |-> rotation_index]}
      /\ \/ life = "stop_checkpoint" /\ life' = "stop_close"
         \/ life = "start_checkpoint" /\ life' = "up"
      /\ UNCHANGED <<pending, sequence, batch, rotation_index, flush, sub, archives,
                     submitted, held, acked, committed, expired, crashed, faults,
                     sessions>>
  BY DEF StopCheckpoint, StartCheckpoint, PersistCheckpoint, queueVars, ghostVars
<1>2. /\ AW!TypeOK' /\ Wrote(file', file, write_offset, tail, Len(tail))
      /\ ~file_open => file' = file
      /\ UNCHANGED <<present, file_open, tail, write_offset, logical_size, stream>>
  BY ONLY <1>0, <1>1, ForceFlushCells
<1>3. TypeOK'
  <2>1. checkpoint' \in SUBSET SidecarKind /\ Cardinality(checkpoint') <= 1 /\ life' \in LifeKind
    BY <1>0, <1>1, CheckpointKinds DEF LifeKind
  <2> QED
    BY <1>0, <1>1, <1>2, <2>1, TypeParts, TypeNext
<1>4. flush.pc = "idle" /\ Attached /\ CheckpointEnabled
  BY <1>1 DEF IndInv, Control, Attached
<1>5. Control'
  BY <1>1, <1>2, <1>4 DEF IndInv, Control, Attached
<1>6. Waiting' = Waiting /\ InFlight' = InFlight
  BY <1>1, <1>2 DEF Waiting, InFlight
<1>7. InFlight' >= InFlight
  BY <1>0, <1>6
<1> QED
  BY <1>1, <1>2, <1>3, <1>4, <1>5, <1>6, <1>7, TailStep

(* A step of stop throwing.                                                 *)
LEMMA StopFailsStep ==
  ASSUME IndInv, StopFails
  PROVE  IndInv'
<1>0. /\ TypeOK /\ AW!TypeOK /\ logical_size <= write_offset + Len(tail)
      /\ write_offset \in Nat /\ Len(tail) \in Nat /\ logical_size \in Nat
  BY TypeParts, ViewTypes DEF IndInv, Control
<1>1. /\ life' = "failed"
      /\ UNCHANGED <<pending, sequence, batch, rotation_index, flush, sub, archives,
                     submitted, held, acked, committed, expired, crashed, sessions>>
  BY DEF StopFails, queueVars
<1>2. life' \in LifeKind /\ ~Attached'
  BY <1>1 DEF LifeKind, Attached
<1>3. CASE life = "stop_checkpoint" /\ PersistCheckpointFails
  <2>1. /\ AW!ForceFlush /\ faults' \in Nat /\ "checkpoint" \in Faults
        /\ checkpoint' \in SUBSET SidecarKind /\ Cardinality(checkpoint') <= 1
    BY <1>0, <1>3, PersistFailsCells
  <2>2. /\ AW!TypeOK' /\ Wrote(file', file, write_offset, tail, Len(tail))
        /\ ~file_open => file' = file
        /\ UNCHANGED <<present, file_open, tail, write_offset, logical_size, stream>>
    BY ONLY <1>0, <2>1, ForceFlushCells
  <2>3. TypeOK'
    BY <1>0, <1>1, <1>2, <2>1, <2>2, TypeParts, TypeNext
  <2>4. flush.pc = "idle" /\ Attached
    BY <1>3 DEF IndInv, Control, Attached
  <2>5. Control'
    BY <1>1, <2>2, <2>4 DEF IndInv, Control, Attached
  <2> QED
    BY <1>1, <1>2, <2>1, <2>2, <2>3, <2>4, <2>5, TailStep
<1>4. CASE /\ life \in {"stop_tail", "stop_close"}
           /\ Fault("close") /\ checkpoint' = checkpoint
           /\ AW!FlushTailWriteFails \/ AW!FlushTailTruncateFails \/ AW!FlushTail
  <2>1. /\ AW!TypeOK' /\ Wrote(file', file, write_offset, tail, Len(tail)) /\ file_open
        /\ UNCHANGED <<present, file_open, logical_size, stream>>
        /\ \/ tail' = tail /\ write_offset' = write_offset
           \/ tail' = <<>> /\ write_offset' >= write_offset + Len(tail)
    <3>1. CASE AW!FlushTail
      BY ONLY <1>0, <3>1, SealCells
    <3>2. CASE AW!FlushTailTruncateFails
      BY ONLY <1>0, <3>2, TruncateFailsCells
    <3>3. CASE AW!FlushTailWriteFails
      BY ONLY <1>0, <3>3, TailWriteFailsCells
    <3> QED
      BY <1>4, <3>1, <3>2, <3>3
  <2>2. faults' \in Nat
    BY <1>0, <1>4, FaultCounts
  <2>3. TypeOK'
    BY <1>0, <1>1, <1>2, <1>4, <2>1, <2>2, TypeParts, TypeNext
  <2>4. flush.pc = "idle" /\ Attached /\ Covered /\ present
    BY <1>4, <2>1 DEF IndInv, Control, Attached, Covered
  <2>5. logical_size' <= write_offset' + Len(tail')
    <3>1. CASE tail' = tail /\ write_offset' = write_offset
      BY <1>0, <2>1, <3>1
    <3>2. CASE tail' = <<>> /\ write_offset' >= write_offset + Len(tail)
      <4>1. Len(tail') = 0 /\ write_offset' \in Nat
        BY <2>3, <3>2, NextViews
      <4>2. write_offset' + Len(tail') = write_offset'
        BY ONLY <4>1, AddZero
      <4>3. logical_size <= write_offset' /\ logical_size' = logical_size
        BY <1>0, <2>1, <3>2, <4>1
      <4> QED
        BY ONLY <4>2, <4>3
    <3> QED
      BY <2>1, <3>1, <3>2
  <2>6. Control'
    BY <1>1, <2>1, <2>4, <2>5 DEF IndInv, Control, Attached
  <2>7. CASE tail' = tail /\ write_offset' = write_offset
    <3>1. ~Covered'
      BY <1>2 DEF Covered
    <3> QED
      BY <1>1, <1>2, <1>4, <2>1, <2>3, <2>4, <2>6, <2>7, <3>1, TailStep
  <2>8. CASE tail' = <<>> /\ write_offset' >= write_offset + Len(tail)
    BY <1>1, <1>2, <1>4, <2>1, <2>3, <2>4, <2>6, <2>8, SealedStep
  <2> QED
    BY <2>1, <2>7, <2>8
<1> QED
  BY <1>3, <1>4 DEF StopFails

-----------------------------------------------------------------------------
(* start opens the file.                                                    *)
LEMMA StartOpenStep ==
  ASSUME IndInv, StartOpen
  PROVE  IndInv'
<1>0. TypeOK /\ life \in LifeKind /\ sessions \in Nat
  BY TypeParts DEF IndInv
<1>1. /\ life \in {"down", "stopped"} /\ AW!Start(TruncateOnStart)
      /\ pending' = <<>> /\ sequence' = 0 /\ rotation_index' = 0 /\ sessions' = sessions + 1
      /\ life' = (IF ~TruncateOnStart THEN "recover"
                  ELSE IF CheckpointEnabled THEN "start_checkpoint" ELSE "up")
      /\ UNCHANGED <<batch, flush, sub, archives, checkpoint,
                     submitted, held, acked, committed, expired, crashed, faults>>
  BY DEF StartOpen, diskVars
<1>2. flush.pc = "idle" /\ batch = <<>> /\ ~file_open
  BY <1>1 DEF IndInv, Control
<1>3. /\ AW!TypeOK' /\ file_open' /\ present'
      /\ file' = (IF TruncateOnStart THEN <<>> ELSE file)
      /\ tail' = <<>> /\ write_offset' = 0 /\ logical_size' = 0 /\ stream' = <<>>
  BY <1>0, <1>1, <1>2, StartCells
<1>4. TypeOK'
  <2>1. pending' \in Seq(Record) /\ sequence' \in Nat /\ rotation_index' \in Nat
        /\ sessions' \in Nat
    BY <1>0, <1>1
  <2>2. life' \in LifeKind
    BY <1>1 DEF LifeKind
  <2> QED
    BY <1>0, <1>1, <1>3, <2>1, <2>2, TypeParts, TypeNext
<1>5. Control'
  <2>1. logical_size' <= write_offset' + Len(tail')
    <3>1. Len(tail') = 0
      BY <1>3
    <3> QED
      BY <1>3, <3>1
  <2> QED
    BY <1>1, <1>2, <1>3, <2>1 DEF Control
<1>6. Order' /\ Archived'
  <2>1. CASE TruncateOnStart
    BY <1>1, <1>2, <1>3, <1>4, <2>1, StartOrder
  <2>2. CASE ~TruncateOnStart
    <3>1. ~Attached' /\ file' = file
      BY <1>1, <1>3, <2>2 DEF Attached
    <3> QED
      BY <1>1, <1>4, <3>1, StartOrder
  <2> QED
    BY <2>1, <2>2
<1>7. Sidecar'
  <2>1. \A i \in DOMAIN file' : IsRecord(file'[i]) => i \in DOMAIN file /\ file'[i] = file[i]
    <3>1. DOMAIN <<>> = {}
      OBVIOUS
    <3> QED
      BY <1>3, <3>1
  <2>2. ~("checkpoint" \notin Faults /\ Covered' /\ checkpoint # {})
    BY <1>1 DEF IndInv, Sidecar, Covered, Attached
  <2> QED
    BY <1>1, <1>4, <2>1, <2>2, SidecarKept
<1> QED
  BY <1>4, <1>5, <1>6, <1>7 DEF IndInv

(* A death leaves the disk.                                                 *)
LEMMA DiesOK ==
  ASSUME IndInv, ProcessDies, AW!ProcessForgets, AW!TypeOK', present' = present, file' = file
         \/ present
  PROVE  TypeOK' /\ Control' /\ ~Attached' /\ ~Covered' /\ UNCHANGED <<archives,
                                                                       checkpoint,
                                                                       submitted>>
<1>0. TypeOK
  BY DEF IndInv
<1>1. /\ life' = "down" /\ pending' = <<>> /\ batch' = <<>> /\ sequence' = 0 /\ rotation_index' = 0
      /\ flush' = Idle /\ sub' = [s \in Submitters |-> "idle"] /\ held' = [s \in Submitters |-> {}]
      /\ crashed' = TRUE
      /\ UNCHANGED <<archives, checkpoint, submitted, acked, committed, expired, faults,
                     sessions>>
  BY DEF ProcessDies, diskVars
<1>2. /\ ~file_open' /\ tail' = <<>> /\ write_offset' = 0 /\ logical_size' = 0
  BY DEF AW!ProcessForgets
<1>3. TypeOK'
  <2>1. /\ pending' \in Seq(Record) /\ batch' \in Seq(Record) /\ sequence' \in Nat
           /\ rotation_index' \in Nat
        /\ crashed' \in BOOLEAN
    BY <1>1
  <2>2. life' \in LifeKind /\ flush' \in FlushKind /\ sub' \in SubKind /\ held' \in HeldKind
    BY <1>1 DEF LifeKind, FlushKind, Idle, SubKind, HeldKind
  <2> QED
    BY <1>0, <1>1, <2>1, <2>2, TypeParts, TypeNext
<1>4. Control'
  <2>1. logical_size' <= write_offset' + Len(tail')
    <3>1. Len(tail') = 0
      BY <1>2
    <3> QED
      BY <1>2, <3>1
  <2>2. flush'.pc = "idle"
    BY <1>1 DEF Idle
  <2>3. ~present' => file' = <<>>
    BY DEF IndInv, Control
  <2> QED
    BY <1>1, <1>2, <2>1, <2>2, <2>3 DEF Control, Attached
<1> QED
  BY <1>1, <1>3, <1>4 DEF Attached, Covered

(* A crash between two I/Os, or in append_batch without a file.             *)
LEMMA CrashStep ==
  ASSUME IndInv, Crash \/ AppendToNoFile
  PROVE  IndInv'
<1>1. AW!Crash /\ ProcessDies
  BY DEF Crash, AppendToNoFile
<1>2. AW!TypeOK' /\ AW!ProcessForgets /\ UNCHANGED <<file, present>>
  BY <1>1, TypeParts, ResetTypes DEF IndInv, AW!Crash, AW!diskVars
<1>3. TypeOK' /\ Control' /\ ~Attached' /\ ~Covered' /\ UNCHANGED <<archives, checkpoint,
                                                                    submitted>>
  BY <1>1, <1>2, DiesOK
<1>4. Order' /\ Archived'
  BY <1>2, <1>3, StartOrder
<1>5. Sidecar'
  BY <1>2, <1>3, SidecarKept
<1> QED
  BY <1>3, <1>4, <1>5 DEF IndInv

(* A crash in append_batch: a prefix of the blocks is in the file.          *)
LEMMA CrashInAppendStep ==
  ASSUME IndInv, CrashInAppend
  PROVE  IndInv'
<1> DEFINE bytes == tail \o batch
<1>0. /\ TypeOK /\ AW!TypeOK /\ tail \in Seq(Cell) /\ batch \in Seq(Cell) /\ write_offset \in Nat
      /\ Ahead \in Seq(Cell) /\ Len(tail) \in Nat /\ Len(batch) \in Nat /\ Len(pending) \in Nat
      /\ Len(Ahead) = Len(tail) + Len(batch) + Len(pending) /\ InFlight \in Nat
  BY ViewTypes DEF IndInv
<1>1. /\ flush.pc = "append" /\ file_open /\ AW!ProcessForgets /\ present' = present /\ ProcessDies
      /\ \E last \in 1..(Len(bytes) \div Alignment) :
           file' = AW!OverwriteAll(file, write_offset, SubSeq(bytes, 1, last * Alignment))
  BY DEF CrashInAppend
<1>2. bytes \in Seq(Cell) /\ Len(bytes) = Len(tail) + Len(batch)
  BY <1>0
<1>3. \A j \in DOMAIN bytes : j \in DOMAIN Ahead /\ Ahead[j] = bytes[j]
  BY <1>0, AheadParts
<1> HIDE DEF bytes
<1>4. PICK last \in 1..(Len(bytes) \div Alignment) :
        file' = AW!OverwriteAll(file, write_offset, SubSeq(bytes, 1, last * Alignment))
  BY <1>1
<1>5. last * Alignment \in Nat /\ last * Alignment <= Len(bytes)
  <2> DEFINE q == Len(bytes) \div Alignment
  <2>1. Alignment \in Nat \ {0} /\ Len(bytes) \in Nat
    BY Options, <1>2
  <2>2. q \in Nat /\ Alignment * q <= Len(bytes)
    BY <2>1
  <2>3. last \in Nat /\ last <= q
    BY <2>2
  <2> HIDE DEF q
  <2>4. last * Alignment \in Nat
    BY <2>1, <2>3
  <2>5. \E d \in Nat : q = last + d
    <3>1. q - last \in Nat /\ q = last + (q - last)
      BY <2>2, <2>3
    <3> QED
      BY <3>1
  <2>6. PICK d \in Nat : q = last + d
    BY <2>5
  <2>7. Alignment * q = last * Alignment + Alignment * d /\ Alignment * d \in Nat
    BY <2>1, <2>3, <2>6
  <2> QED
    BY <2>1, <2>2, <2>4, <2>7
<1> DEFINE n == last * Alignment
           buffer == SubSeq(bytes, 1, n)
<1>6. n \in Nat /\ n <= Len(bytes)
  BY <1>5
<1> HIDE DEF n
<1>7. buffer \in Seq(Cell) /\ Len(buffer) = n /\ \A j \in DOMAIN buffer : bytes[j] = buffer[j]
  BY <1>2, <1>6
<1>8. file' = AW!OverwriteAll(file, write_offset, buffer)
  BY <1>4 DEF n
<1> HIDE DEF buffer
<1>9. Wrote(file', file, write_offset, buffer, Len(buffer))
  BY <1>0, <1>7, <1>8, OverwriteAllCells
<1>10. InFlight = Len(bytes)
  BY <1>1, <1>2 DEF InFlight
<1>11. Wrote(file', file, write_offset, bytes, InFlight)
  BY <1>0, <1>2, <1>6, <1>7, <1>9, <1>10, PrefixWrote
<1>12. Wrote(file', file, write_offset, Ahead, InFlight)
  BY <1>3, <1>11 DEF Wrote
<1>13. present /\ Attached /\ Covered
  BY <1>0, <1>1, TypeParts DEF IndInv, Control, LifeKind, Attached, Covered
<1>14. AW!TypeOK'
  <2>1. file' \in Seq(Cell)
    BY <1>9 DEF Wrote
  <2>2. present \in BOOLEAN
    BY <1>0, WriterTypes
  <2>3. /\ file_open' = FALSE /\ tail' = <<>> /\ write_offset' = 0 /\ logical_size' = 0
        /\ stream' = <<>> /\ flushed' = 0 /\ misused' = FALSE /\ present' = present
    BY <1>1 DEF AW!ProcessForgets
  <2> QED
    <3>1. <<>> \in Seq(Cell) /\ 0 \in Nat
      OBVIOUS
    <3> QED
      BY ONLY <2>1, <2>2, <2>3, <3>1 DEF AW!TypeOK, Cell
<1>15. TypeOK' /\ Control' /\ ~Attached' /\ ~Covered' /\ UNCHANGED <<archives,
                                                                     checkpoint,
                                                                     submitted>>
  BY <1>1, <1>13, <1>14, DiesOK
<1>16. Order' /\ Archived'
  <2>1. InFlight >= InFlight /\ InFlight \in Nat
    BY <1>0
  <2> QED
    BY ONLY IndInv, <1>12, <1>13, <1>15, <2>1, WriteOrder
<1>17. Sidecar'
  BY <1>12, <1>13, <1>15, SidecarKept
<1> QED
  BY <1>15, <1>16, <1>17 DEF IndInv

(* The numbers that submit gives.                                           *)
LEMMA SubmitRecords ==
  ASSUME NEW n \in Nat, NEW first \in Nat, NEW number \in Nat
  PROVE  LET new == [k \in 1..n |-> [id |-> first + k, seq |-> number + k - 1]] IN
         /\ new \in Seq(Record) /\ Len(new) = n
         /\ \A j \in 1..n : new[j].id = first + j /\ new[j].seq = number + j - 1
         /\ Increasing("id", new) /\ Increasing("seq", new)
         /\ Under("id", new, first + 1 + n) /\ Under("seq", new, number + n)
<1> DEFINE new == [k \in 1..n |-> [id |-> first + k, seq |-> number + k - 1]]
<1>1. \A j \in 1..n : /\ new[j] = [id |-> first + j, seq |-> number + j - 1]
                     /\ first + j \in Nat /\ number + j - 1 \in Nat
  OBVIOUS
<1>2. new \in [1..n -> Record]
  BY <1>1 DEF Record
<1>3. new \in Seq(Record) /\ Len(new) = n /\ DOMAIN new = 1..n
  BY <1>2
<1> HIDE DEF new
<1>4. ASSUME NEW j \in 1..n
      PROVE  new[j].id = first + j /\ new[j].seq = number + j - 1
  <2>1. new[j] = [id |-> first + j, seq |-> number + j - 1]
    BY <1>1
  <2> QED
    BY <2>1
<1>5. \A i, j \in 1..n : i < j => first + i < first + j /\ number + i - 1 < number + j - 1
  OBVIOUS
<1>6. \A j \in 1..n : first + j < first + 1 + n /\ number + j - 1 < number + n
  OBVIOUS
<1>7. Increasing("id", new) /\ Increasing("seq", new)
  BY SMTT(30), <1>3, <1>4, <1>5 DEF Increasing
<1>8. Under("id", new, first + 1 + n) /\ Under("seq", new, number + n)
  BY <1>3, <1>4, <1>6 DEF Under
<1> QED
  BY <1>3, <1>4, <1>7, <1>8 DEF new

(* submit and submit_many.                                                  *)
LEMMA SubmitStep ==
  ASSUME IndInv, NEW s \in Submitters, NEW n \in 1..MaxMany, Submit(s, n)
  PROVE  IndInv'
<1> DEFINE new == [k \in 1..n |-> [id |-> submitted + k, seq |-> sequence + k - 1]]
           queue == pending \o new
           ids == (submitted + 1)..(submitted + n)
<1>0. /\ TypeOK /\ pending \in Seq(Record) /\ batch \in Seq(Record) /\ submitted \in Nat
         /\ sequence \in Nat
      /\ sub \in SubKind /\ held \in HeldKind /\ acked \in SUBSET Nat /\ flush \in FlushKind
      /\ Len(tail) \in Nat /\ Len(pending) \in Nat /\ Len(batch) \in Nat /\ InFlight \in Nat
      /\ batch \in Seq(Cell) /\ pending \in Seq(Cell)
  BY TypeParts, ViewTypes DEF IndInv
<1>1. n \in Nat
  OBVIOUS
<1>2. /\ new \in Seq(Record) /\ Len(new) = n
      /\ \A j \in 1..n : new[j].id = submitted + j /\ new[j].seq = sequence + j - 1
      /\ Increasing("id", new) /\ Increasing("seq", new)
      /\ Under("id", new, submitted + 1 + n) /\ Under("seq", new, sequence + n)
  BY <1>0, <1>1, SubmitRecords
<1>3. /\ life = "up" /\ submitted' = submitted + n /\ sequence' = sequence + n
      /\ \/ /\ StartFlush(queue, s, TRUE) /\ sub' = [sub EXCEPT ![s] = "flushing"]
            /\ held' = [held EXCEPT ![s] = ids] /\ acked' = acked
         \/ /\ pending' = queue /\ batch' = batch /\ flush' = flush
            /\ sub' = sub \/ sub' = [sub EXCEPT ![s] = "flushed"]
            /\ held' = held \/ held' = [held EXCEPT ![s] = ids]
            /\ acked' = acked \/ acked' = acked \cup ids
      /\ UNCHANGED <<writerVars, rotation_index, life, diskVars,
                     committed, expired, crashed, faults, sessions>>
  BY DEF Submit
<1>4. ids \in SUBSET Nat
  BY <1>0, <1>1
<1> HIDE DEF new, ids
<1>5. UNCHANGED <<file, present, file_open, tail, write_offset, logical_size, stream,
                  flushed, misused,
                  archives, checkpoint, rotation_index, life, committed, expired,
                  crashed, faults, sessions>>
  BY <1>3 DEF writerVars, diskVars
<1>6. queue \in Seq(Record) /\ Len(queue) = Len(pending) + n /\ new \in Seq(Cell)
  BY <1>0, <1>2 DEF Cell
<1>7. /\ pending' \in Seq(Record) /\ batch' \in Seq(Record) /\ flush' \in FlushKind
      /\ Waiting' = Waiting \o new /\ InFlight' >= InFlight
      /\ \/ flush'.pc = "append" /\ flush.pc = "idle"
         \/ flush' = flush /\ batch' = batch
  <2>1. CASE StartFlush(queue, s, TRUE)
    <3>1. s \in Submitters \cup {"timer", "stop"} /\ TRUE \in BOOLEAN
      OBVIOUS
    <3>2. /\ flush' \in FlushKind /\ flush'.pc = "append" /\ flush.pc = "idle"
          /\ pending' \in Seq(Record) /\ batch' \in Seq(Record)
          /\ Waiting' = queue /\ Waiting = pending
          /\ InFlight' = Len(tail') + Len(queue) /\ InFlight = Len(tail) + Len(pending)
      BY ONLY IndInv, <1>6, <2>1, <3>1, StartFlushOK
    <3>3. InFlight' >= InFlight
      <4>1. InFlight' = Len(tail) + (Len(pending) + n)
        BY <1>5, <1>6, <3>2
      <4>2. InFlight = Len(tail) + Len(pending)
        BY <3>2
      <4> QED
        BY ONLY <1>0, <1>1, <4>1, <4>2
    <3> QED
      BY <3>2, <3>3
  <2>2. CASE pending' = queue /\ batch' = batch /\ flush' = flush
    <3>1. Waiting' = Waiting \o new
      <4>1. batch \o (pending \o new) = (batch \o pending) \o new
        BY ONLY SMTT(30), <1>0, <1>6, ConcatAssociative
      <4> QED
        BY <2>2, <4>1 DEF Waiting
    <3>2. InFlight' >= InFlight
      <4>1. Len(pending') = Len(pending) + n /\ Len(batch') = Len(batch) /\ Len(tail') = Len(tail)
        BY <1>5, <1>6, <2>2
      <4>2. /\ InFlight' = Len(tail') + (IF flush'.pc = "idle" THEN Len(pending') ELSE Len(batch'))
            /\ InFlight = Len(tail) + (IF flush.pc = "idle" THEN Len(pending) ELSE Len(batch))
            /\ flush' = flush
        BY <2>2 DEF InFlight
      <4> QED
        BY ONLY <1>0, <1>1, <4>1, <4>2
    <3> QED
      BY <1>0, <1>6, <2>2, <3>1, <3>2
  <2> QED
    BY <1>3, <2>1, <2>2
<1>8. TypeOK'
  <2>1. AW!TypeOK'
    BY <1>0, <1>5 DEF TypeOK, AW!TypeOK
  <2>2. sub' \in SubKind
    BY <1>0, <1>3 DEF SubKind
  <2>3. held' \in HeldKind
    BY <1>0, <1>3, <1>4 DEF HeldKind
  <2>4. acked' \in SUBSET Nat
    BY <1>0, <1>3, <1>4
  <2>5. submitted' \in Nat /\ sequence' \in Nat
    BY <1>0, <1>1, <1>3
  <2> QED
    BY <1>0, <1>5, <1>7, <2>1, <2>2, <2>3, <2>4, <2>5, TypeParts, TypeNext
<1>9. Control'
  BY <1>3, <1>5, <1>7 DEF IndInv, Control, Attached
<1>10. Attached /\ Attached' /\ (Covered' => Covered)
  BY <1>3, <1>5, <1>7 DEF Attached, Covered
<1>11. Order' /\ Archived'
  <2>1. DOMAIN new = 1..n
    BY <1>2
  <2>2. ASSUME NEW k \in {"id", "seq"}
        PROVE  /\ Increasing(k, new) /\ Under(k, new, Number(k) + n)
               /\ \A j \in DOMAIN new : new[j][k] \in Nat /\ new[j][k] >= Number(k)
    <3>1. CASE k = "id"
      <4>1. Number(k) = submitted + 1
        BY <3>1 DEF Number
      <4>2. \A j \in 1..n : new[j][k] = submitted + j
        BY <1>2, <3>1
      <4>3. \A j \in 1..n : submitted + j \in Nat /\ submitted + j >= submitted + 1
        BY <1>0, <1>1
      <4> QED
        BY <1>2, <2>1, <3>1, <4>1, <4>2, <4>3
    <3>2. CASE k = "seq"
      <4>1. Number(k) = sequence
        BY <3>2 DEF Number
      <4>2. \A j \in 1..n : new[j][k] = sequence + j - 1
        BY <1>2, <3>2
      <4>3. \A j \in 1..n : sequence + j - 1 \in Nat /\ sequence + j - 1 >= sequence
        BY <1>0, <1>1
      <4> QED
        BY <1>2, <2>1, <3>2, <4>1, <4>2, <4>3
    <3> QED
      BY <3>1, <3>2
  <2> QED
    BY ONLY IndInv, <1>1, <1>2, <1>3, <1>5, <1>7, <1>8, <1>10, <2>2, SubmitOrder
<1>12. Sidecar'
  <2>1. write_offset + Len(tail) <= write_offset' + Len(tail')
    <3>1. write_offset \in Nat /\ Len(tail) \in Nat
      BY <1>0, ViewTypes
    <3> QED
      BY <1>5, <3>1
  <2> QED
    BY <1>5, <1>8, <1>10, <2>1, SidecarKept
<1> QED
  BY <1>8, <1>9, <1>11, <1>12 DEF IndInv

-----------------------------------------------------------------------------
(* The order of the naturals, as a relation.                                *)
Less == {p \in Nat \X Nat : p[1] < p[2]}

(* A set of positions that is not empty has a last one.                     *)
LEMMA LargestPosition ==
  ASSUME NEW N \in Nat, NEW S \in SUBSET (1..N), S # {}
  PROVE  \E x \in S : \A y \in S : y <= x
<1> DEFINE T == {N - y : y \in S}
<1>1. OpToRel(<, Nat) = Less
  BY DEF OpToRel, Less
<1>2. IsWellFoundedOn(Less, Nat)
  BY <1>1, NatLessThanWellFounded
<1>3. T \in SUBSET Nat /\ T # {}
  <2>1. \A y \in S : N - y \in Nat
    OBVIOUS
  <2> QED
    BY <2>1
<1>4. PICK t \in T : \A u \in T : ~(<<u, t>> \in Less)
  <2> HIDE DEF T
  <2> QED
    BY <1>2, <1>3, WFMin
<1>5. PICK x \in S : t = N - x
  OBVIOUS
<1>6. ASSUME NEW y \in S PROVE y <= x
  <2>1. N - y \in T /\ N - y \in Nat /\ t \in Nat /\ x \in Int /\ y \in Int
    BY <1>3
  <2>2. ~(N - y < t)
    BY <1>4, <2>1 DEF Less
  <2> QED
    BY <1>5, <2>1, <2>2
<1> QED
  BY <1>6

(* scan_log_file_streaming ends at the last record and goes on after its    *)
(* number.                                                                  *)
LEMMA ScanCells ==
  ASSUME TypeOK, NEW from \in Nat, from <= Len(file), NEW next \in Nat
  PROVE  /\ Scan(from, next).size \in Nat /\ Scan(from, next).size <= Len(file)
         /\ Scan(from, next).size >= from
         /\ Scan(from, next).seq \in Nat
         /\ /\ Increasing("seq", file)
            /\ \A i \in DOMAIN file : i <= from /\ IsRecord(file[i]) => file[i].seq < next
            => \A i \in DOMAIN file : i <= Scan(from, next).size /\ IsRecord(file[i]) =>
                 file[i].seq < Scan(from, next).seq
<1> DEFINE records == {i \in (from + 1)..Len(file) : IsRecord(file[i])}
           last == CHOOSE i \in records : \A j \in records : j <= i
<1>0. file \in Seq(Cell) /\ Len(file) \in Nat /\ DOMAIN file = 1..Len(file)
      /\ \A i \in DOMAIN file : file[i] \in Cell
  BY SMTT(30), ViewTypes
<1>1. CASE records = {}
  <2>1. Scan(from, next).size = from /\ Scan(from, next).seq = next
    BY <1>1 DEF Scan
  <2> QED
    BY <2>1
<1>2. CASE records # {}
  <2>1. Scan(from, next) = [size |-> last, seq |-> file[last].seq + 1]
    BY <1>2 DEF Scan
  <2>2. Scan(from, next).size = last /\ Scan(from, next).seq = file[last].seq + 1
    BY <2>1
  <2>3. records \in SUBSET (1..Len(file))
    OBVIOUS
  <2>4. \A i \in records : i \in (from + 1)..Len(file) /\ IsRecord(file[i])
    OBVIOUS
  <2>5. last \in records /\ \A j \in records : j <= last
    <3> HIDE DEF records
    <3>1. \E x \in records : \A y \in records : y <= x
      BY <1>0, <1>2, <2>3, LargestPosition
    <3> QED
      BY <3>1
  <2>6. \A i \in DOMAIN file : IsRecord(file[i]) /\ i > from => i \in records
    BY <1>0
  <2> HIDE DEF records, last
  <2>7. last \in Nat /\ last <= Len(file) /\ last >= from /\ last \in DOMAIN file
        /\ IsRecord(file[last])
    BY <1>0, <2>4, <2>5
  <2>8. file[last].seq \in Nat
    BY <1>0, <2>7, RecordKeys
  <2>9. ASSUME Increasing("seq", file), NEW i \in DOMAIN file, i <= last, IsRecord(file[i])
        PROVE  file[i].seq < file[last].seq + 1
    <3>1. file[i].seq \in Nat
      BY <1>0, <2>9, RecordKeys
    <3>2. CASE i = last
      BY <2>8, <3>2
    <3>3. CASE i < last
      <4>1. file[i].seq < file[last].seq
        BY <2>7, <2>9, <3>3 DEF Increasing
      <4> QED
        BY <2>8, <3>1, <4>1
    <3> QED
      BY <1>0, <2>7, <2>9, <3>2, <3>3
  <2> QED
    BY <2>2, <2>7, <2>8, <2>9
<1> QED
  BY <1>1, <1>2

(* The writer after recovery: the file's last, partial block is the tail.   *)
LEMMA TruncateToCells ==
  ASSUME TypeOK, NEW size \in Nat, AW!TruncateTo(size)
  PROVE  /\ AW!TypeOK' /\ file_open /\ file' = AW!Truncated(file, size)
         /\ write_offset' = AW!AlignDown(size) /\ logical_size' = size
         /\ Len(tail') = size - AW!AlignDown(size)
         /\ \A j \in 1..Len(tail') : tail'[j] = file'[AW!AlignDown(size) + j]
         /\ stream' = file' /\ UNCHANGED <<present, file_open>>
<1> DEFINE down == AW!AlignDown(size)
<1>0. AW!TypeOK /\ file \in Seq(Cell) /\ present \in BOOLEAN /\ file_open \in BOOLEAN
  BY ViewTypes, WriterTypes
<1>1. /\ file_open /\ file' = AW!Truncated(file, size) /\ logical_size' = size
      /\ write_offset' = down /\ tail' = SubSeq(file', down + 1, size)
      /\ stream' = file' /\ flushed' = size /\ misused' = FALSE /\ UNCHANGED <<present,
                                                                               file_open>>
  BY DEF AW!TruncateTo
<1>2. down \in Nat /\ down <= size
  BY DownCells
<1> HIDE DEF down
<1>3. file' \in Seq(Cell) /\ Len(file') = size
  BY <1>0, <1>1, TruncatedCells
<1>4. /\ tail' \in Seq(Cell)
      /\ Len(tail') = IF down + 1 <= size THEN size - (down + 1) + 1 ELSE 0
      /\ \A j \in 1..(size - (down + 1) + 1) : tail'[j] = file'[down + 1 + j - 1]
  <2>1. \A i \in (down + 1)..size : file'[i] \in Cell
    BY <1>2, <1>3
  <2>2. down + 1 \in Int /\ size \in Int
    BY <1>2
  <2>3. tail' = SubSeq(file', down + 1, size)
    BY <1>1
  <2> QED
    BY ONLY <2>1, <2>2, <2>3, SubSeqProperties
<1>5. Len(tail') = size - down
  BY ONLY <1>2, <1>4, size \in Nat
<1>6. \A j \in 1..Len(tail') : tail'[j] = file'[down + j]
  <2>1. \A j \in 1..Len(tail') : j \in 1..(size - (down + 1) + 1) /\ down + 1 + j - 1 = down + j
    BY ONLY <1>2, <1>5, size \in Nat
  <2> QED
    BY ONLY <1>4, <2>1
<1>7. AW!TypeOK'
  <2>1. /\ file' \in Seq(Cell) /\ tail' \in Seq(Cell) /\ stream' \in Seq(Cell) /\ flushed' \in Nat
        /\ write_offset' \in Nat /\ logical_size' \in Nat /\ misused' \in BOOLEAN
        /\ present' \in BOOLEAN /\ file_open' \in BOOLEAN
    BY <1>0, <1>1, <1>2, <1>3, <1>4
  <2> QED
    BY ONLY <2>1 DEF AW!TypeOK, Cell
<1> QED
  BY <1>1, <1>5, <1>6, <1>7 DEF down

(* Recovery with the sidecar, without it, and with one it cannot read, is a *)
(* scan from an offset before which every number is below the one it starts *)
(* from.                                                                    *)
LEMMA RecoverCase ==
  ASSUME IndInv, Recover
  PROVE  \E from \in Nat : \E next \in Nat :
           /\ from <= Len(file)
           /\ AW!TruncateTo(Scan(from, next).size) /\ sequence' = Scan(from, next).seq
           /\ rotation_index' \in Nat /\ faults' \in Nat
           /\ "checkpoint" \notin Faults =>
                \A i \in DOMAIN file : i <= from /\ IsRecord(file[i]) => file[i].seq < next
<1>0. /\ TypeOK /\ checkpoint \in SUBSET SidecarKind /\ faults \in Nat /\ Len(file) \in Nat
      /\ DOMAIN file \subseteq Nat \ {0}
  <2>1. TypeOK
    BY DEF IndInv
  <2>2. file \in Seq(Cell)
    BY <2>1, ViewTypes
  <2> QED
    BY <2>1, <2>2, TypeParts
<1>1. CASE \E c \in checkpoint :
             /\ Len(file) >= c.size /\ AW!TruncateTo(Scan(c.size, c.seq).size)
             /\ sequence' = Scan(c.size, c.seq).seq /\ rotation_index' = c.rotation
                /\ UNCHANGED faults
  <2>1. PICK c \in checkpoint :
             /\ Len(file) >= c.size /\ AW!TruncateTo(Scan(c.size, c.seq).size)
             /\ sequence' = Scan(c.size, c.seq).seq /\ rotation_index' = c.rotation
                /\ UNCHANGED faults
    BY <1>1
  <2>2. c.size \in Nat /\ c.seq \in Nat /\ c.rotation \in Nat
    BY <1>0 DEF SidecarKind
  <2>3. "checkpoint" \notin Faults =>
                \A i \in DOMAIN file : i <= c.size /\ IsRecord(file[i]) => file[i].seq < c.seq
    BY DEF IndInv, Sidecar
  <2>4. c.size <= Len(file)
    BY <1>0, <2>1, <2>2
  <2> QED
    BY <1>0, <2>1, <2>2, <2>3, <2>4
<1>2. CASE /\ UNCHANGED faults \/ Fault("sidecar")
           /\ AW!TruncateTo(Scan(0, 0).size) /\ sequence' = Scan(0, 0).seq /\ rotation_index' = 0
  <2>1. faults' \in Nat
    BY <1>0, <1>2, FaultCounts
  <2>2. 0 \in Nat /\ 0 <= Len(file) /\ \A i \in DOMAIN file : ~(i <= 0)
    BY <1>0
  <2> QED
    BY <1>2, <2>1, <2>2
<1> QED
  BY <1>1, <1>2 DEF Recover

(* Recovery.                                                                *)
LEMMA RecoverStep ==
  ASSUME IndInv, Recover
  PROVE  IndInv'
<1>0. TypeOK /\ file \in Seq(Cell)
  BY ViewTypes DEF IndInv
<1>1. /\ life = "recover"
      /\ life' = (IF CheckpointEnabled THEN "start_checkpoint" ELSE "up")
      /\ UNCHANGED <<pending, batch, flush, sub, archives, checkpoint,
                     submitted, held, acked, committed, expired, crashed, sessions>>
  BY DEF Recover, diskVars
<1>2. flush.pc = "idle" /\ batch = <<>> /\ pending = <<>>
  BY <1>1 DEF IndInv, Control
<1>3. PICK from \in Nat, next \in Nat :
           /\ from <= Len(file)
           /\ AW!TruncateTo(Scan(from, next).size) /\ sequence' = Scan(from, next).seq
           /\ rotation_index' \in Nat /\ faults' \in Nat
           /\ "checkpoint" \notin Faults =>
                \A i \in DOMAIN file : i <= from /\ IsRecord(file[i]) => file[i].seq < next
  BY RecoverCase
<1> DEFINE size == Scan(from, next).size
<1>4. /\ size \in Nat /\ size <= Len(file) /\ sequence' \in Nat
      /\ "checkpoint" \notin Faults =>
           \A i \in DOMAIN file : i <= size /\ IsRecord(file[i]) => file[i].seq < sequence'
  <2>1. "checkpoint" \notin Faults => Increasing("seq", file)
    BY KeyKinds DEF IndInv, Order
  <2> QED
    BY <1>0, <1>3, <2>1, ScanCells
<1>5. AW!TruncateTo(size)
  BY <1>3
<1> HIDE DEF size
<1>6. /\ AW!TypeOK' /\ file_open /\ file' = AW!Truncated(file, size)
      /\ write_offset' = AW!AlignDown(size) /\ logical_size' = size
      /\ Len(tail') = size - AW!AlignDown(size)
      /\ \A j \in 1..Len(tail') : tail'[j] = file'[AW!AlignDown(size) + j]
      /\ stream' = file' /\ UNCHANGED <<present, file_open>>
  BY ONLY <1>0, <1>4, <1>5, TruncateToCells
<1>7. TypeOK'
  <2>1. life' \in LifeKind
    BY <1>1 DEF LifeKind
  <2> QED
    BY <1>0, <1>1, <1>3, <1>4, <1>6, <2>1, TypeParts, TypeNext
<1>8. /\ Len(file') = size
      /\ \A i \in DOMAIN file' : IsRecord(file'[i]) => i <= size /\ i \in DOMAIN file
         /\ file'[i] = file[i]
  BY <1>0, <1>4, <1>6, TruncatedCells
<1>9. Control'
  <2>1. logical_size' <= write_offset' + Len(tail')
    <3>1. AW!AlignDown(size) \in Nat
      BY <1>4, DownCells
    <3> QED
      BY ONLY <1>4, <1>6, <3>1
  <2>2. present
    BY <1>6 DEF IndInv, Control
  <2> QED
    BY <1>1, <1>2, <1>6, <2>1, <2>2 DEF Control
<1>10. "seq" \in Keys => Under("seq", file', sequence')
  <2>1. "seq" \in Keys => "checkpoint" \notin Faults
    BY DEF Keys
  <2> QED
    BY <1>4, <1>8, <2>1 DEF Under
<1>11. Order' /\ Archived'
  <2>1. batch' = <<>> /\ pending' = <<>> /\ UNCHANGED <<archives, submitted>>
    BY <1>1, <1>2
  <2> QED
    BY ONLY IndInv, <1>4, <1>6, <1>7, <1>10, <2>1, RecoverOrder
<1>12. Sidecar'
  <2>1. ~("checkpoint" \notin Faults /\ Covered' /\ checkpoint # {})
    BY <1>1 DEF IndInv, Sidecar, Covered
  <2>2. \A i \in DOMAIN file' : IsRecord(file'[i]) => i \in DOMAIN file /\ file'[i] = file[i]
    BY <1>8
  <2> QED
    BY <1>1, <1>7, <2>1, <2>2, SidecarKept
<1> QED
  BY <1>7, <1>9, <1>11, <1>12 DEF IndInv

-----------------------------------------------------------------------------
(* An empty directory.                                                      *)
LEMMA InitialState ==
  ASSUME Init
  PROVE  IndInv
<1>1. /\ file = <<>> /\ present = FALSE /\ file_open = FALSE /\ tail = <<>> /\ write_offset = 0
      /\ logical_size = 0 /\ stream = <<>> /\ flushed = 0 /\ misused = FALSE
  BY DEF Init, AW!Init
<1>2. /\ pending = <<>> /\ sequence = 0 /\ rotation_index = 0 /\ batch = <<>> /\ flush = Idle
         /\ life = "down"
      /\ sub = [s \in Submitters |-> "idle"] /\ archives = <<>> /\ checkpoint = {} /\ submitted = 0
      /\ held = [s \in Submitters |-> {}] /\ acked = {} /\ committed = {} /\ expired = {}
      /\ crashed = FALSE /\ faults = 0 /\ sessions = 0
  BY DEF Init
<1>3. TypeOK
  <2>1. AW!TypeOK
    <3>1. <<>> \in Seq(Cell) /\ 0 \in Nat
      OBVIOUS
    <3> QED
      BY <1>1, <3>1, WriterTypes
  <2>2. Cardinality(checkpoint) <= 1
    BY <1>2, FS_EmptySet
  <2>3. flush \in FlushKind
    BY <1>2 DEF Idle, FlushKind
  <2>4. sub \in SubKind /\ held \in HeldKind
    BY <1>2 DEF SubKind, HeldKind
  <2>5. pending \in Seq(Record) /\ batch \in Seq(Record) /\ archives \in Seq(Seq(Record \cup {NUL}))
    BY <1>2
  <2> QED
    BY <1>2, <2>1, <2>2, <2>3, <2>4, <2>5 DEF TypeOK, FlushKind, SubKind, HeldKind
<1>4. flush.pc = "idle" /\ Len(tail) = 0 /\ DOMAIN file = {} /\ DOMAIN archives = {} /\ ~Attached
      /\ ~Covered
  BY <1>1, <1>2 DEF Idle, Attached, Covered
<1>5. Control
  BY <1>1, <1>2, <1>4 DEF Control
<1>6. Order /\ Archived /\ Sidecar
  BY <1>2, <1>4 DEF Order, Archived, Sidecar, Increasing, Under
<1> QED
  BY <1>3, <1>5, <1>6 DEF IndInv

(* Every step preserves the invariant.                                      *)
LEMMA EveryStep ==
  ASSUME IndInv, [Next]_vars
  PROVE  IndInv'
<1>1. CASE \E s \in Submitters : \E n \in 1..MaxMany : Submit(s, n)
  BY <1>1, SubmitStep
<1>2. CASE \E s \in Submitters : Resume(s) \/ Wake(s)
  BY <1>2, WaiterStep
<1>3. CASE Timer \/ StopFlush
  BY <1>3, TimerStep
<1>4. CASE FlushAppend \/ FlushForce
  BY <1>4, FlushAppendStep, FlushForceStep
<1>5. CASE RotateSeal \/ RotateClose
  BY <1>5, RotateSealStep
<1>6. CASE RotateRename \/ RotateCleanup \/ RotateReopen \/ RotateCheckpoint
  BY <1>6, RotateRenameStep, RotateCleanupStep, RotateReopenStep, RotateCheckpointStep
<1>7. CASE FlushFails
  BY <1>7, FlushAppendFailsStep, FlushForceFailsStep, RotateCloseFailsStep,
     RotateRenameFailsStep, RotateReopenFailsStep, RotateCheckpointFailsStep DEF FlushFails
<1>8. CASE Stop \/ StopDrained \/ StopGate
  BY <1>8, StopQuietStep
<1>9. CASE StopTail \/ StopClose
  BY <1>9, StopTailStep
<1>10. CASE StopCheckpoint \/ StartCheckpoint
  BY <1>10, PersistStep
<1>11. CASE StopFails
  BY <1>11, StopFailsStep
<1>12. CASE StartOpen \/ Recover
  BY <1>12, StartOpenStep, RecoverStep
<1>13. CASE Crash \/ AppendToNoFile
  BY <1>13, CrashStep
<1>14. CASE CrashInAppend
  BY <1>14, CrashInAppendStep
<1>15. CASE UNCHANGED vars
  <2>1. UNCHANGED <<writerVars, diskVars, submitted>>
    BY <1>15 DEF vars, ghostVars
  <2>2. UNCHANGED <<file, present, file_open, tail, write_offset, logical_size, stream,
                    flushed, misused,
                    pending, sequence, batch, rotation_index, flush, life, sub, archives,
                    checkpoint,
                    submitted, held, acked, committed, expired, crashed, faults,
                    sessions>>
    BY <1>15 DEF vars, writerVars, queueVars, diskVars, ghostVars
  <2>3. TypeOK'
    BY <2>2 DEF IndInv, TypeOK, AW!TypeOK
  <2>4. Control'
    BY <2>2 DEF IndInv, Control, Attached
  <2>5. Waiting' = Waiting /\ InFlight' = InFlight /\ (Attached' <=> Attached)
        /\ (Covered' <=> Covered)
    BY <2>2 DEF Waiting, InFlight, Attached, Covered
  <2>6. InFlight >= InFlight
    BY ViewTypes DEF IndInv
  <2> QED
    BY <2>1, <2>2, <2>3, <2>4, <2>5, <2>6, QuietStep
<1> QED
  BY <1>1, <1>2, <1>3, <1>4, <1>5, <1>6, <1>7, <1>8, <1>9, <1>10, <1>11, <1>12, <1>13,
     <1>14, <1>15
     DEF Next, Task, FlushStep, StopStep, StartStep

-----------------------------------------------------------------------------
(* Every state of the shard satisfies the inductive invariant.              *)
THEOREM Invariance == Spec => []IndInv
BY InitialState, EveryStep, PTL DEF Spec

(* The state has its types.                                                 *)
THEOREM TypeCorrect == Spec => []TypeOK
<1>1. IndInv => TypeOK
  BY DEF IndInv
<1> QED
  BY <1>1, Invariance, PTL

(* The invariant is enough for the order on disk.                           *)
LEMMA OrderOnDisk == IndInv => DiskOrder
<1> SUFFICES ASSUME IndInv PROVE DiskOrder
  OBVIOUS
<1> DEFINE segments == Append(archives, file)
<1>0. archives \in Seq(Seq(Cell)) /\ file \in Seq(Cell)
  BY ViewTypes DEF IndInv
<1>1. /\ Len(segments) = Len(archives) + 1 /\ Len(archives) \in Nat
      /\ DOMAIN segments = 1..(Len(archives) + 1) /\ DOMAIN archives = 1..Len(archives)
      /\ \A a \in DOMAIN archives : segments[a] = archives[a]
      /\ segments[Len(archives) + 1] = file
  BY <1>0
<1> HIDE DEF segments
<1>2. ASSUME NEW a \in DOMAIN segments PROVE Increasing("id", segments[a])
  <2>1. CASE a \in DOMAIN archives
    BY <1>1, <2>1 DEF IndInv, Archived
  <2>2. CASE a = Len(archives) + 1
    BY <1>1, <2>2, KeyKinds DEF IndInv, Order
  <2> QED
    BY <1>1, <2>1, <2>2
<1>3. ASSUME NEW a \in DOMAIN segments, NEW b \in (a + 1)..Len(segments)
      PROVE  AllBefore(segments[a], segments[b])
  <2>1. a \in DOMAIN archives /\ a < b /\ (b \in DOMAIN archives \/ b = Len(archives) + 1)
    BY <1>1
  <2> QED
    BY <1>1, <2>1 DEF IndInv, Archived
<1> QED
  BY <1>2, <1>3 DEF DiskOrder, segments

(* Records reach the disk in the order in which submit accepted them, each  *)
(* once, for every configuration: whichever I/O fails, in whichever order   *)
(* flush, rotation, retry, crash and recovery follow each other.            *)
THEOREM RecordsInOrder == Spec => []DiskOrder
BY Invariance, OrderOnDisk, PTL

(* The invariant is enough for the sequence numbers.                        *)
LEMMA NumbersGoOn == "checkpoint" \notin Faults /\ IndInv => SequenceResumes
<1> SUFFICES ASSUME "checkpoint" \notin Faults, IndInv, life = "up" PROVE SequenceResumes
  BY DEF SequenceResumes
<1>1. Placed("seq", file, write_offset, Ahead, InFlight, stream \o Waiting, sequence)
  BY KeyKinds DEF IndInv, Order, Attached, Number
<1>2. Increasing("seq", stream \o Waiting) /\ Under("seq", stream \o Waiting, sequence)
  BY <1>1, PlacedParts
<1> QED
  BY <1>2 DEF SequenceResumes, Waiting, Under

(* If persist_checkpoint does not fail, the sequence numbers increase along *)
(* the active segment and the queue behind it, and the next one is larger   *)
(* than all of them, through every crash, recovery and rotation. (A         *)
(* checkpoint that fails leaves an older sidecar behind, whose number       *)
(* recovery takes on trust.)                                                *)
THEOREM NumbersResume ==
  "checkpoint" \notin Faults => (Spec => []SequenceResumes)
<1> SUFFICES ASSUME "checkpoint" \notin Faults PROVE Spec => []SequenceResumes
  OBVIOUS
<1>1. IndInv => SequenceResumes
  BY NumbersGoOn
<1> QED
  BY <1>1, Invariance, PTL
-----------------------------------------------------------------------------
(* The theorems about the byte writer, for the shard's writer.              *)
AWP == INSTANCE AppendWriterProofs WITH
         Cells <- Record, Batches <- Seq(Record), MaxBytes <- MaxRecords

(* The assumptions of the byte writer hold of the shard's options.          *)
LEMMA WriterOptions ==
  /\ NUL \notin Record /\ Alignment \in Nat \ {0} /\ Seq(Record) \subseteq Seq(Record)
  /\ MaxRecords \in Nat
BY Options

(* The byte writer's inductive invariant.                                   *)
Writer == AWP!IndInv

(* Both instances of the byte writer speak of the same file operations.     *)
LEMMA SameFile ==
  /\ AW!WithTail = AWP!WithTail
  /\ \A f, o, b : AW!OverwriteAll(f, o, b) = AWP!OverwriteAll(f, o, b)
  /\ \A f, n : AW!Truncated(f, n) = AWP!Truncated(f, n)
  /\ \A n : AW!AlignUp(n) = AWP!AlignUp(n) /\ AW!AlignDown(n) = AWP!AlignDown(n)
  /\ \A t : AW!Padded(t) = AWP!Padded(t)
BY DEF AW!WithTail, AWP!WithTail, AW!OverwriteAll, AWP!OverwriteAll, AW!Overwrite,
   AWP!Overwrite,
       AW!Larger, AWP!Larger, AW!BlockOf, AWP!BlockOf, AW!Padded, AWP!Padded,
       AW!AlignUp, AWP!AlignUp, AW!AlignDown, AWP!AlignDown, AW!Truncated, AWP!Truncated

(* ... and of the same failures.                                            *)
LEMMA SameFails ==
  ASSUME NEW o, NEW b
  PROVE  AW!WriteBufferFails(o, b) = AWP!WriteBufferFails(o, b)
BY DEF AW!WriteBufferFails, AWP!WriteBufferFails, AW!Overwrite, AWP!Overwrite,
       AW!Larger, AWP!Larger, AW!BlockOf, AWP!BlockOf

(* What the shard does with its writer preserves that invariant: flush,     *)
(* seal, close, rename, crash and start,                                    *)
LEMMA WriterOps ==
  ASSUME Writer,
         \/ AW!ForceFlush \/ AW!ForceFlushFails \/ AW!FlushTailWriteFails \/ AW!FlushTail
            \/ AW!Close
         \/ AW!RenameAway \/ AW!Crash \/ AW!Start(TruncateOnStart) \/ UNCHANGED writerVars
  PROVE  Writer'
<1>1. CASE AW!ForceFlush
  <2>1. AWP!ForceFlush
    BY <1>1, SameFile DEF AW!ForceFlush, AWP!ForceFlush, AW!memoryVars, AWP!memoryVars
  <2> QED
    BY <2>1, WriterOptions, AWP!ForceFlushInv DEF Writer
<1>2. CASE AW!ForceFlushFails \/ AW!FlushTailWriteFails
  <2>1. /\ file_open /\ AWP!WriteBufferFails(write_offset, AWP!Padded(tail))
        /\ UNCHANGED <<present, AWP!memoryVars, AWP!ghostVars>>
    <3>1. /\ file_open /\ AW!WriteBufferFails(write_offset, AW!Padded(tail))
          /\ UNCHANGED <<present, file_open, tail, write_offset, logical_size, stream,
                         flushed, misused>>
      BY <1>2 DEF AW!ForceFlushFails, AW!FlushTailWriteFails, AW!memoryVars, AW!ghostVars
    <3>2. AW!Padded(tail) = AWP!Padded(tail)
      BY SameFile
    <3> QED
      BY <3>1, <3>2, SameFails DEF AWP!memoryVars, AWP!ghostVars
  <2> QED
    BY <2>1, WriterOptions, AWP!TailWriteFailsInv DEF Writer
<1>3. CASE AW!FlushTail
  <2>1. AWP!FlushTail
    BY <1>3, SameFile DEF AW!FlushTail, AWP!FlushTail
  <2> QED
    BY <2>1, WriterOptions, AWP!FlushTailInv DEF Writer
<1>4. CASE AW!Close
  <2>1. AWP!Close
    BY <1>4, SameFile DEF AW!Close, AWP!Close
  <2> QED
    BY <2>1, WriterOptions, AWP!CloseInv DEF Writer
<1>5. CASE AW!RenameAway
  <2>1. AWP!RenameAway
    BY <1>5 DEF AW!RenameAway, AWP!RenameAway, AW!memoryVars, AWP!memoryVars
  <2> QED
    BY <2>1, WriterOptions, AWP!RenameAwayInv DEF Writer
<1>6. CASE AW!Crash
  <2>1. AWP!Crash
    BY <1>6 DEF AW!Crash, AWP!Crash, AW!ProcessForgets, AWP!ProcessForgets, AW!diskVars,
       AWP!diskVars
  <2> QED
    BY <2>1, WriterOptions, AWP!CrashInv DEF Writer
<1>7. CASE AW!Start(TruncateOnStart)
  <2>1. AWP!Start(TruncateOnStart) /\ TruncateOnStart \in BOOLEAN
    BY <1>7, ConfigAssumption DEF AW!Start, AWP!Start
  <2> QED
    BY <2>1, WriterOptions, AWP!StartInv DEF Writer
<1>8. CASE UNCHANGED writerVars
  <2>1. UNCHANGED AWP!vars
    BY <1>8 DEF writerVars, AWP!vars
  <2> QED
    BY <2>1, WriterOptions, AWP!StutterInv DEF Writer
<1> QED
  BY <1>1, <1>2, <1>3, <1>4, <1>5, <1>6, <1>7, <1>8

(* ... recovery,                                                            *)
LEMMA WriterTruncates ==
  ASSUME Writer, NEW size \in Nat, AW!TruncateTo(size)
  PROVE  Writer'
<1>1. AWP!TruncateTo(size)
  BY SameFile DEF AW!TruncateTo, AWP!TruncateTo
<1> QED
  BY <1>1, WriterOptions, AWP!TruncateToInv DEF Writer

(* ... and append_batch, successful or not.                                 *)
LEMMA WriterAppends ==
  ASSUME Writer, NEW b \in Seq(Record), AW!AppendBatch(b) \/ AW!AppendBatchFails(b)
  PROVE  Writer'
<1>1. CASE AW!AppendBatch(b)
  <2>1. AWP!AppendBatch(b)
    BY <1>1, SameFile DEF AW!AppendBatch, AWP!AppendBatch, AW!WriteBuffer,
       AWP!WriteBuffer, AW!Ready, AWP!Ready
  <2> QED
    BY <2>1, WriterOptions, AWP!AppendBatchInv DEF Writer
<1>2. CASE AW!AppendBatchFails(b)
  <2>1. AWP!AppendBatchFails(b)
    BY <1>2, SameFile, SameFails DEF AW!AppendBatchFails, AWP!AppendBatchFails,
       AW!memoryVars, AWP!memoryVars,
       AW!ghostVars, AWP!ghostVars
  <2> QED
    BY <2>1, WriterOptions, AWP!AppendBatchFailsInv DEF Writer
<1> QED
  BY <1>1, <1>2

(* What the byte writer promises, in the form the shard's proofs use.       *)
LEMMA WriterParts ==
  ASSUME Writer
  PROVE  /\ AW!TypeOK /\ Len(tail) < Alignment
         /\ ~misused /\ file_open =>
              /\ logical_size = Len(stream)
              /\ \A i \in 1..Len(stream) :
                   /\ i <= write_offset => i <= Len(file) /\ file[i] = stream[i]
                   /\ i > write_offset => i - write_offset <= Len(tail)
                      /\ tail[i - write_offset] = stream[i]
         /\ ~misused /\ ~file_open => flushed = Len(stream)
         /\ ~misused => /\ flushed <= Len(stream)
                        /\ \A i \in 1..flushed : i <= Len(file) /\ file[i] = stream[i]
<1>1. AWP!TypeOK /\ AWP!OffsetsAligned /\ AWP!StreamIntact /\ AWP!ReportedInFile
      /\ AWP!ClosedWritten
  BY WriterOptions, AWP!IndInvImplies DEF Writer, AWP!IndInv
<1>2. AW!TypeOK
  BY <1>1 DEF AWP!TypeOK, AW!TypeOK
<1>3. write_offset \in Nat /\ Len(stream) \in Nat
  BY <1>2, WriterTypes
<1>4. \A i \in 1..Len(stream) : ~(i <= write_offset /\ i > write_offset)
  BY <1>3
<1> QED
  BY <1>1, <1>2, <1>4 DEF AWP!OffsetsAligned, AWP!StreamIntact, AWP!ReportedInFile,
     AWP!ClosedWritten

-----------------------------------------------------------------------------
(* Sealing, closing, renaming, compressing and opening a segment do not     *)
(* fail. After such a failure the code retries a flush on a writer without  *)
(* a file.                                                                  *)
Reliable == Faults \cap {"close", "rename", "archive", "open"} = {}

(* While the shard takes batches its writer has the active file open at its *)
(* end; the file is there except between a rename and the next open.        *)
ReadyInv ==
  /\ ~misused
  /\ life \in {"start_checkpoint", "up", "stopping", "gate", "stop_tail"}
     /\ flush.pc \in {"idle", "append", "force", "seal", "checkpoint"} => AW!Ready
  /\ Attached /\ flush.pc \notin {"cleanup", "reopen"} => present
  /\ flush.pc \in {"cleanup", "reopen"} => stream = <<>>

(* The records of the active segment that a flush reported written.         *)
Reported == {stream[i].id : i \in {j \in 1..flushed : IsRecord(stream[j])}}

(* The records in archives, or removed with one.                            *)
Saved == ArchivedIds \cup expired

(* The process has not read the file yet.                                   *)
Offline == life \in {"down", "recover"}

(* The records of the active segment that must not get lost ...             *)
Stored == IF Offline THEN Ids(file) ELSE Reported

(* ... and those that, as long as the process lives, do not.                *)
Given == IF Offline THEN Ids(file) ELSE Ids(stream) \cup Ids(batch) \cup Ids(pending)

(* What a forced flush reported written is stored.                          *)
Kept == ~TruncateOnStart => committed \subseteq Saved \cup Stored

(* Either there is one start, or writes do not fail (else stop may leave a  *)
(* queue behind) and start keeps the file.                                  *)
OneRun == MaxSessions = 1 \/ ("write" \notin Faults /\ ~TruncateOnStart)

(* As long as the process has not died every accepted record is somewhere.  *)
Accounted == OneRun => (~crashed => 1..submitted \subseteq Saved \cup Given)

(* Nothing is accepted before the first start, and only accepted records    *)
(* are acknowledged.                                                        *)
Counted ==
  /\ sessions = 0 => life = "down" /\ submitted = 0
  /\ acked \subseteq 1..submitted
  /\ \A s \in Submitters : held[s] \subseteq 1..submitted

(* Once stop has drained the queue, nothing enters it again.                *)
Drained ==
  "write" \notin Faults
  /\ life \in {"gate", "stop_tail", "stop_checkpoint", "stop_close", "stopped"} => pending = <<>>

-----------------------------------------------------------------------------
(* An identity among some cells.                                            *)
LEMMA IdsMember ==
  ASSUME NEW cells
  PROVE  \A x : x \in Ids(cells) <=> \E i \in DOMAIN cells : IsRecord(cells[i]) /\ x = cells[i].id
BY DEF Ids

(* Cells whose records are all among others.                                *)
LEMMA IdsPart ==
  ASSUME NEW a, NEW b, \A i \in DOMAIN a : IsRecord(a[i]) => \E j \in DOMAIN b : b[j] = a[i]
  PROVE  Ids(a) \subseteq Ids(b)
<1> SUFFICES ASSUME NEW x \in Ids(a) PROVE x \in Ids(b)
  OBVIOUS
<1>1. PICK i \in DOMAIN a : IsRecord(a[i]) /\ x = a[i].id
  BY IdsMember
<1>2. PICK j \in DOMAIN b : b[j] = a[i]
  BY <1>1
<1> QED
  BY <1>1, <1>2, IdsMember

(* Concatenation keeps the records of both parts.                           *)
LEMMA IdsConcat ==
  ASSUME NEW a \in Seq(Cell), NEW b \in Seq(Cell)
  PROVE  Ids(a) \subseteq Ids(a \o b) /\ Ids(b) \subseteq Ids(a \o b)
<1>1. \A i \in DOMAIN a : i \in DOMAIN (a \o b) /\ (a \o b)[i] = a[i]
  OBVIOUS
<1>2. \A i \in DOMAIN b : Len(a) + i \in DOMAIN (a \o b) /\ (a \o b)[Len(a) + i] = b[i]
  OBVIOUS
<1> QED
  BY <1>1, <1>2, IdsPart

(* No cells, no records.                                                    *)
LEMMA IdsEmpty == Ids(<<>>) = {}
BY IdsMember

(* A reported record.                                                       *)
LEMMA ReportedMember ==
  \A x : x \in Reported <=> \E i \in 1..flushed : IsRecord(stream[i]) /\ x = stream[i].id
BY DEF Reported

(* ... after a step.                                                        *)
LEMMA ReportedNext ==
  \A x : x \in Reported' <=> \E i \in 1..flushed' : IsRecord(stream'[i]) /\ x = stream'[i].id
BY DEF Reported, IsRecord

(* What was reported written is in the file.                                *)
LEMMA ReportedStored ==
  ASSUME Writer, ~misused
  PROVE  Reported \subseteq Ids(file)
<1> SUFFICES ASSUME NEW x \in Reported PROVE x \in Ids(file)
  OBVIOUS
<1>1. PICK i \in 1..flushed : IsRecord(stream[i]) /\ x = stream[i].id
  BY ReportedMember
<1>2. i \in DOMAIN file /\ file[i] = stream[i]
  BY WriterParts, WriterTypes
<1> QED
  BY <1>1, <1>2, IdsMember

(* The segment is in the file and the tail; once closed, in the file.       *)
LEMMA StreamStored ==
  ASSUME Writer, ~misused
  PROVE  /\ Ids(stream) \subseteq Ids(file) \cup Ids(tail)
         /\ ~file_open => Ids(stream) \subseteq Ids(file)
<1>1. file \in Seq(Cell) /\ tail \in Seq(Cell) /\ stream \in Seq(Cell) /\ write_offset \in Nat
      /\ flushed \in Nat
  BY WriterParts, WriterTypes
<1>2. ASSUME ~file_open, NEW x \in Ids(stream)
      PROVE  x \in Ids(file)
  <2>1. PICK i \in DOMAIN stream : IsRecord(stream[i]) /\ x = stream[i].id
    BY <1>2, IdsMember
  <2>2. i \in 1..flushed
    BY <1>1, <1>2, WriterParts
  <2>3. i <= Len(file) /\ file[i] = stream[i]
    BY <2>2, WriterParts
  <2>4. i \in DOMAIN file
    BY <1>1, <2>2, <2>3
  <2> QED
    BY <2>1, <2>3, <2>4, IdsMember
<1>3. ASSUME file_open, NEW x \in Ids(stream)
      PROVE  x \in Ids(file) \cup Ids(tail)
  <2>1. PICK i \in DOMAIN stream : IsRecord(stream[i]) /\ x = stream[i].id
    BY <1>3, IdsMember
  <2>2. i \in 1..Len(stream) /\ i \in Nat
    BY <1>1
  <2>3. CASE i <= write_offset
    <3>1. i <= Len(file) /\ file[i] = stream[i]
      BY <1>3, <2>2, <2>3, WriterParts
    <3>2. i \in DOMAIN file
      BY <1>1, <2>2, <3>1
    <3> QED
      BY <2>1, <3>1, <3>2, IdsMember
  <2>4. CASE i > write_offset
    <3>1. i - write_offset <= Len(tail) /\ tail[i - write_offset] = stream[i]
      BY <1>3, <2>2, <2>4, WriterParts
    <3>2. i - write_offset \in DOMAIN tail
      BY <1>1, <2>2, <2>4, <3>1
    <3> QED
      BY <2>1, <3>1, <3>2, IdsMember
  <2> QED
    BY <1>1, <2>2, <2>3, <2>4
<1> QED
  BY <1>2, <1>3

-----------------------------------------------------------------------------
(* A write at an offset changes no cell but those it has data for.          *)
LEMMA OverwriteSpares ==
  ASSUME NEW f \in Seq(Cell), NEW wo \in Nat, NEW buffer \in Seq(Cell), NEW i \in DOMAIN f
  PROVE  LET g == AW!OverwriteAll(f, wo, buffer) IN
         /\ i \in DOMAIN g
         /\ \/ g[i] = f[i]
            \/ i > wo /\ i - wo \in 1..Len(buffer) /\ g[i] = buffer[i - wo]
<1> DEFINE last == Len(buffer) \div Alignment
           size == IF last = 0 THEN Len(f) ELSE AW!Larger(Len(f), wo + last * Alignment)
           g == AW!OverwriteAll(f, wo, buffer)
<1>1. g = [p \in 1..size |->
            IF p > wo /\ p <= wo + Len(buffer) /\ AW!BlockOf(p - wo) \in 1..last
            THEN buffer[p - wo] ELSE IF p <= Len(f) THEN f[p] ELSE NUL]
  BY DEF AW!OverwriteAll, AW!Overwrite
<1>2. Len(f) \in Nat /\ Len(buffer) \in Nat /\ i \in 1..Len(f) /\ i \in Nat
  OBVIOUS
<1>3. i \in 1..size
  <2>1. last \in Nat /\ Alignment \in Nat
    BY <1>2, Options
  <2>2. wo + last * Alignment \in Nat
    BY <2>1
  <2> DEFINE end == wo + last * Alignment
  <2> HIDE DEF last, end
  <2>3. size = IF last = 0 THEN Len(f) ELSE IF Len(f) > end THEN Len(f) ELSE end
    BY <1>2, <2>2 DEF AW!Larger, end
  <2> HIDE DEF size
  <2>4. size \in Nat /\ size >= Len(f)
    BY <1>2, <2>2, <2>3 DEF end
  <2> QED
    BY <1>2, <2>4
<1> HIDE DEF size, last, g
<1>4. i \in DOMAIN g
  BY <1>1, <1>3
<1>5. CASE i > wo /\ i <= wo + Len(buffer) /\ AW!BlockOf(i - wo) \in 1..last
  <2>1. g[i] = buffer[i - wo]
    BY <1>1, <1>3, <1>5
  <2>2. i - wo \in 1..Len(buffer)
    BY <1>2, <1>5
  <2> QED
    BY <1>4, <1>5, <2>1, <2>2 DEF g
<1>6. CASE ~(i > wo /\ i <= wo + Len(buffer) /\ AW!BlockOf(i - wo) \in 1..last)
  <2>1. g[i] = f[i]
    BY <1>1, <1>2, <1>3, <1>6
  <2> QED
    BY <1>4, <2>1 DEF g
<1> QED
  BY <1>5, <1>6

(* The faults that Reliable excludes.                                       *)
LEMMA NoSuchFault == ASSUME Reliable
                     PROVE \A kind \in {"close", "rename", "archive", "open"} : ~Fault(kind)
BY DEF Reliable, Fault

(* The writer after a crash in the middle of a write.                       *)
LEMMA WriterDies ==
  ASSUME AW!ProcessForgets, file' \in Seq(Cell), present' \in BOOLEAN
  PROVE  Writer'
<1>1. file' \in Seq(AWP!Bytes)
  BY DEF Cell, AWP!Bytes
<1> QED
  BY <1>1, WriterOptions, AWP!FreshSegment DEF Writer, AW!ProcessForgets

(* Every step of the shard keeps the byte writer's invariant.               *)
LEMMA WriterStep ==
  ASSUME Reliable, IndInv, IndInv', Writer, Next
  PROVE  Writer'
<1>0. TypeOK /\ batch \in Seq(Record) /\ AW!TypeOK'
  BY ViewTypes DEF IndInv, TypeOK
<1>1. ASSUME NEW s \in Submitters, NEW n \in 1..MaxMany, Submit(s, n)
      PROVE  Writer'
  BY <1>1, WriterOps DEF Submit
<1>2. ASSUME NEW s \in Submitters, Resume(s) \/ Wake(s)
      PROVE  Writer'
  BY <1>2, WriterOps DEF Resume, Wake
<1>3. CASE Timer \/ Stop \/ StopFlush \/ StopDrained \/ StopGate
  BY <1>3, WriterOps DEF Timer, Stop, StopFlush, StopDrained, StopGate
<1>4. CASE FlushAppend \/ FlushAppendFails
  BY <1>0, <1>4, WriterAppends DEF FlushAppend, FlushAppendFails
<1>5. CASE FlushForce \/ FlushForceFails \/ RotateCheckpoint \/ RotateCheckpointFails
           \/ StopCheckpoint \/ StartCheckpoint
  BY <1>5, WriterOps DEF FlushForce, FlushForceFails, RotateCheckpoint,
     RotateCheckpointFails,
     StopCheckpoint, StartCheckpoint, PersistCheckpoint, PersistCheckpointFails
<1>6. CASE RotateSeal \/ RotateClose \/ StopTail \/ StopClose
  BY <1>6, WriterOps DEF RotateSeal, RotateClose, StopTail, StopClose
<1>7. CASE RotateRename \/ RotateCleanup \/ RotateReopen \/ StartOpen
  BY <1>7, WriterOps DEF RotateRename, RotateCleanup, RotateReopen, StartOpen
<1>8. CASE RotateCloseFails \/ RotateRenameFails \/ RotateCleanupFails \/ RotateReopenFails
  BY <1>8, NoSuchFault DEF RotateCloseFails, RotateRenameFails, RotateCleanupFails,
     RotateReopenFails
<1>9. CASE StopFails
  BY <1>9, WriterOps, NoSuchFault DEF StopFails, PersistCheckpoint, PersistCheckpointFails
<1>10. CASE Recover
  <2>1. PICK from \in Nat, next \in Nat :
          from <= Len(file) /\ AW!TruncateTo(Scan(from, next).size)
    BY <1>10, RecoverCase
  <2>2. Scan(from, next).size \in Nat
    BY <1>0, <2>1, ScanCells
  <2> QED
    BY <2>1, <2>2, WriterTruncates
<1>11. CASE Crash \/ AppendToNoFile
  BY <1>11, WriterOps DEF Crash, AppendToNoFile
<1>12. CASE CrashInAppend
  <2>1. AW!ProcessForgets
    BY <1>12 DEF CrashInAppend
  <2>2. file' \in Seq(Cell) /\ present' \in BOOLEAN
    BY <1>0 DEF AW!TypeOK, Cell
  <2> QED
    BY <2>1, <2>2, WriterDies
<1> QED
  BY <1>1, <1>2, <1>3, <1>4, <1>5, <1>6, <1>7, <1>8, <1>9, <1>10, <1>11, <1>12
     DEF Next, Task, FlushStep, FlushFails, StopStep, StartStep

-----------------------------------------------------------------------------
(* Where the shard needs its writer ready.                                  *)
Appending ==
  /\ life \in {"start_checkpoint", "up", "stopping", "gate", "stop_tail"}
  /\ flush.pc \in {"idle", "append", "force", "seal", "checkpoint"}

(* A step that leaves the writer's fields alone.                            *)
LEMMA ReadyKept ==
  ASSUME ReadyInv, UNCHANGED <<present, file_open, tail, write_offset, logical_size,
                               stream, misused>>,
         Appending' => Appending, Attached' => Attached,
         flush.pc \in {"cleanup", "reopen"} <=> flush'.pc \in {"cleanup", "reopen"}
  PROVE  ReadyInv'
BY DEF ReadyInv, AW!Ready, Appending

(* A step to where the shard does not need the writer.                      *)
LEMMA ReadyElsewhere ==
  ASSUME ~misused', ~Appending', Attached' => present', flush'.pc \notin {"cleanup", "reopen"}
  PROVE  ReadyInv'
BY DEF ReadyInv, Appending

(* Every step keeps the writer ready: append_batch advances offset, tail    *)
(* and size together, rotation and recovery open the next segment at its    *)
(* end, and a failed write leaves the fields as they were.                  *)
LEMMA ReadyStep ==
  ASSUME Reliable, IndInv, IndInv', ReadyInv, Next
  PROVE  ReadyInv'
<1>0. /\ TypeOK /\ Control /\ Control' /\ TypeOK' /\ batch \in Seq(Record) /\ AW!TypeOK
      /\ Len(tail) \in Nat /\ write_offset \in Nat /\ logical_size \in Nat /\ Len(batch) \in Nat
  BY ViewTypes DEF IndInv
<1>1. ASSUME NEW s \in Submitters, NEW n \in 1..MaxMany, Submit(s, n)
      PROVE  ReadyInv'
  <2>1. UNCHANGED <<writerVars, life>> /\ life = "up"
        /\ (flush' = flush \/ (flush.pc = "idle" /\ flush'.pc = "append"))
    BY <1>1 DEF Submit, StartFlush
  <2> QED
    BY <2>1, ReadyKept DEF writerVars, Appending, Attached
<1>2. ASSUME NEW s \in Submitters, Resume(s) \/ Wake(s)
      PROVE  ReadyInv'
  <2>1. UNCHANGED <<writerVars, life, flush>>
    BY <1>2 DEF Resume, Wake
  <2> QED
    BY <2>1, ReadyKept DEF writerVars, Appending, Attached
<1>3. CASE Timer \/ StopFlush
  <2>1. UNCHANGED <<writerVars, life>> /\ flush.pc = "idle" /\ flush'.pc = "append"
    BY <1>3 DEF Timer, StopFlush, StartFlush
  <2> QED
    BY <2>1, ReadyKept DEF writerVars, Appending, Attached
<1>4. CASE Stop \/ StopDrained \/ StopGate
  <2>1. UNCHANGED <<writerVars, flush>> /\ life \in {"up", "stopping", "gate"}
        /\ life' \in {"stopping", "gate", "stop_tail"}
    BY <1>4 DEF Stop, StopDrained, StopGate
  <2> QED
    BY <2>1, ReadyKept DEF writerVars, Appending, Attached
<1>5. CASE FlushAppend
  <2>1. flush.pc = "append" /\ AW!AppendBatch(batch) /\ life' = life
        /\ (IF flush.partial THEN Goto("force") ELSE MaybeRotate)
    BY <1>5 DEF FlushAppend
  <2>2. flush'.pc \in {"force", "seal", "idle"}
    BY <1>0, <2>1, GotoOK, MaybeRotateOK
  <2>3. PICK writable \in Nat :
          /\ writable <= Len(tail) + Len(batch)
          /\ write_offset' = write_offset + writable
          /\ tail' = SubSeq(tail \o batch, writable + 1, Len(tail) + Len(batch))
          /\ logical_size' = logical_size + Len(batch)
          /\ UNCHANGED <<present, file_open>>
    BY <1>0, <2>1, AppendCells
  <2>4. Len(tail') = Len(tail) + Len(batch) - writable
    <3>1. tail \o batch \in Seq(Cell) /\ Len(tail \o batch) = Len(tail) + Len(batch)
      BY <1>0, WriterTypes DEF Cell
    <3> DEFINE x == tail \o batch
               m == writable + 1
               e == Len(tail) + Len(batch)
    <3>2. m \in Int /\ e \in Int /\ m \in 1..(e + 1)
      BY <1>0, <2>3
    <3>3. \A i \in m..e : x[i] \in Cell
      BY <1>0, <3>1, <2>3
    <3> HIDE DEF x
    <3>4. Len(SubSeq(x, m, e)) = IF m <= e THEN e - m + 1 ELSE 0
      BY ONLY <3>2, <3>3, SubSeqProperties
    <3>5. tail' = SubSeq(x, m, e)
      BY <2>3 DEF x
    <3> QED
      BY <1>0, <2>3, <3>2, <3>4, <3>5
  <2>5. life \in {"up", "stopping", "gate"}
    BY <1>0, <2>1 DEF Control
  <2>6. AW!Ready /\ ~misused /\ present
    BY <2>1, <2>5 DEF ReadyInv, Attached
  <2>7. misused' = (misused \/ ~AW!Ready)
    BY <2>1 DEF AW!AppendBatch
  <2>8. write_offset' + Len(tail') = logical_size'
    <3>1. write_offset + Len(tail) = logical_size
      BY <2>6 DEF AW!Ready
    <3>2. write_offset' = write_offset + writable /\ logical_size' = logical_size + Len(batch)
      BY <2>3
    <3>3. write_offset + writable + (Len(tail) + Len(batch) - writable) = logical_size + Len(batch)
      BY ONLY <1>0, <3>1, writable \in Nat
    <3> QED
      BY ONLY <2>4, <3>2, <3>3
  <2> QED
    BY <2>2, <2>3, <2>6, <2>7, <2>8 DEF ReadyInv, AW!Ready
<1>6. CASE FlushAppendFails \/ FlushForceFails \/ RotateCheckpointFails
  <2>1. FlushThrows /\ flush.pc \in {"append", "force", "checkpoint"}
    BY <1>6 DEF FlushAppendFails, FlushForceFails, RotateCheckpointFails
  <2>2. flush'.pc = "idle" /\ life \in {"up", "stopping", "gate"}
        /\ (life' = life \/ life' = "failed")
    BY <2>1, ThrowsOK
  <2>3. UNCHANGED <<present, file_open, tail, write_offset, logical_size, stream,
                    misused>>
    BY <1>6 DEF FlushAppendFails, FlushForceFails, RotateCheckpointFails,
       PersistCheckpointFails,
       PersistCheckpoint, AW!AppendBatchFails, AW!ForceFlushFails, AW!ForceFlush, AW!memoryVars,
         AW!ghostVars
  <2> QED
    BY <2>1, <2>2, <2>3, ReadyKept DEF Appending, Attached
<1>7. CASE FlushForce \/ RotateCheckpoint
  <2>1. flush.pc \in {"force", "checkpoint"} /\ AW!ForceFlush /\ life' = life
    BY <1>7 DEF FlushForce, RotateCheckpoint, PersistCheckpoint
  <2>2. flush'.pc \in {"seal", "idle"}
    BY <1>0, <1>7, MaybeRotateOK, ReturnsOK DEF FlushForce, RotateCheckpoint
  <2>3. UNCHANGED <<present, file_open, tail, write_offset, logical_size, stream,
                    misused>>
    BY <2>1 DEF AW!ForceFlush, AW!memoryVars
  <2> QED
    BY <2>1, <2>2, <2>3, ReadyKept DEF Appending, Attached
<1>8. CASE RotateSeal \/ RotateClose
  <2>1. /\ flush.pc \in {"seal", "close"} /\ life' = life /\ (Goto("close") \/ Goto("rename"))
        /\ AW!FlushTail \/ AW!Close \/ UNCHANGED writerVars
    BY <1>8 DEF RotateSeal, RotateClose
  <2>2. flush'.pc \in {"close", "rename"}
    BY <1>0, <2>1, GotoOK
  <2>3. UNCHANGED <<present, misused>>
    BY <2>1 DEF AW!FlushTail, AW!Close, writerVars
  <2> QED
    BY <2>1, <2>2, <2>3, ReadyElsewhere DEF Appending, Attached, ReadyInv
<1>9. CASE RotateRename
  <2>1. flush.pc = "rename" /\ life' = life
    BY <1>9 DEF RotateRename
  <2>2. present /\ ~misused
    BY <1>0, <2>1 DEF Control, ReadyInv, Attached
  <2>3. flush'.pc = "cleanup"
    BY <1>0, <1>9, <2>2, GotoOK DEF RotateRename
  <2>4. stream' = <<>> /\ misused' = misused
    BY <1>9, <2>2 DEF RotateRename, AW!RenameAway
  <2> QED
    BY <2>2, <2>3, <2>4 DEF ReadyInv
<1>10. CASE RotateReopen \/ StartOpen
  <2>1. AW!Start(TruncateOnStart)
    BY <1>10 DEF RotateReopen, StartOpen
  <2>2. flush'.pc \notin {"cleanup", "reopen"}
    <3>1. CASE RotateReopen
      BY <1>0, <3>1, GotoOK, ReturnsOK DEF RotateReopen
    <3>2. CASE StartOpen
      BY <1>0, <3>2 DEF StartOpen, Control
    <3> QED
      BY <1>10, <3>1, <3>2
  <2>3. file_open' /\ present' /\ tail' = <<>> /\ write_offset' = 0 /\ logical_size' = 0
        /\ ~misused'
    BY <2>1 DEF AW!Start
  <2>4. Len(tail') = 0
    BY <2>3
  <2> QED
    BY <2>2, <2>3, <2>4 DEF ReadyInv, AW!Ready
<1>11. CASE RotateCloseFails \/ RotateRenameFails \/ RotateCleanupFails \/ RotateReopenFails
  BY <1>11, NoSuchFault DEF RotateCloseFails, RotateRenameFails, RotateCleanupFails,
     RotateReopenFails
<1>12. CASE StopTail \/ StopClose \/ StopCheckpoint
  <2>1. /\ life \in {"stop_tail", "stop_close", "stop_checkpoint"}
        /\ life' \in {"stop_checkpoint", "stop_close", "stopped"} /\ flush' = flush
        /\ AW!FlushTail \/ AW!Close \/ AW!ForceFlush \/ UNCHANGED writerVars
    BY <1>12 DEF StopTail, StopClose, StopCheckpoint, PersistCheckpoint
  <2>2. UNCHANGED <<present, misused>>
    BY <2>1 DEF AW!FlushTail, AW!Close, AW!ForceFlush, writerVars
  <2>3. flush.pc = "idle" /\ present /\ ~misused
    BY <1>0, <2>1 DEF Control, ReadyInv, Attached
  <2> QED
    BY <2>1, <2>2, <2>3, ReadyElsewhere DEF Appending
<1>13. CASE StopFails
  <2>1. /\ life' = "failed" /\ flush' = flush /\ AW!ForceFlush /\ life = "stop_checkpoint"
    BY <1>13, NoSuchFault DEF StopFails, PersistCheckpointFails, PersistCheckpoint
  <2>2. misused' = misused
    BY <2>1 DEF AW!ForceFlush
  <2>3. flush.pc = "idle" /\ ~misused
    BY <1>0, <2>1 DEF Control, ReadyInv
  <2> QED
    BY <2>1, <2>2, <2>3, ReadyElsewhere DEF Appending, Attached
<1>14. CASE Recover
  <2>1. life = "recover" /\ UNCHANGED flush
    BY <1>14 DEF Recover
  <2>2. PICK from \in Nat, next \in Nat :
          from <= Len(file) /\ AW!TruncateTo(Scan(from, next).size)
    BY <1>14, RecoverCase
  <2> DEFINE size == Scan(from, next).size
  <2>3. size \in Nat /\ AW!TruncateTo(size)
    BY <1>0, <2>2, ScanCells
  <2> HIDE DEF size
  <2>4. /\ file_open /\ write_offset' = AW!AlignDown(size) /\ logical_size' = size
        /\ Len(tail') = size - AW!AlignDown(size) /\ UNCHANGED <<present, file_open>>
    BY <1>0, <2>3, TruncateToCells
  <2>5. ~misused' /\ flush.pc = "idle" /\ present
    BY <1>0, <2>1, <2>3, <2>4 DEF AW!TruncateTo, Control
  <2>6. write_offset' + Len(tail') = logical_size'
    BY <2>3, <2>4, DownCells
  <2> QED
    BY <2>1, <2>4, <2>5, <2>6 DEF ReadyInv, AW!Ready
<1>15. CASE StartCheckpoint
  <2>1. life = "start_checkpoint" /\ life' = "up" /\ flush' = flush /\ AW!ForceFlush
    BY <1>15 DEF StartCheckpoint, PersistCheckpoint
  <2>2. UNCHANGED <<present, file_open, tail, write_offset, logical_size, stream,
                    misused>>
    BY <2>1 DEF AW!ForceFlush, AW!memoryVars
  <2> QED
    BY <2>1, <2>2, ReadyKept DEF Appending, Attached
<1>16. CASE Crash \/ AppendToNoFile \/ CrashInAppend
  <2>1. life' = "down" /\ flush' = Idle /\ ~misused'
    BY <1>16 DEF Crash, AppendToNoFile, CrashInAppend, ProcessDies, AW!Crash,
       AW!ProcessForgets
  <2> QED
    BY <2>1, ReadyElsewhere DEF Appending, Attached, Idle
<1>17. CASE RotateCleanup
  <2>1. flush.pc = "cleanup" /\ UNCHANGED <<writerVars, life>>
        /\ (flush' = flush \/ Goto("reopen"))
    BY <1>17 DEF RotateCleanup
  <2>2. flush'.pc \in {"cleanup", "reopen"}
    BY <1>0, <2>1, GotoOK
  <2> QED
    BY <2>1, <2>2, ReadyKept DEF writerVars, Appending, Attached
<1> QED
  BY <1>1, <1>2, <1>3, <1>4, <1>5, <1>6, <1>7, <1>8, <1>9, <1>10, <1>11, <1>12, <1>13,
     <1>14, <1>15, <1>16, <1>17
     DEF Next, Task, FlushStep, FlushFails, StopStep, StartStep

-----------------------------------------------------------------------------
(* A step that accepts and acknowledges nothing.                            *)
LEMMA CountedKept ==
  ASSUME Counted, UNCHANGED <<submitted, acked, sessions>>, life # "down" \/ life' = life,
         \A s \in Submitters : held'[s] = held[s] \/ held'[s] = {}
  PROVE  Counted'
BY DEF Counted

(* A failing flush forgets its caller's call.                               *)
LEMMA ThrowsHeld ==
  ASSUME TypeOK, FlushThrows
  PROVE  \A s \in Submitters : held'[s] = held[s] \/ held'[s] = {}
<1>1. held' = IF flush.owner \in Submitters THEN [held EXCEPT ![flush.owner] = {}] ELSE held
  BY DEF FlushThrows, ErrorReturned
<1>2. held \in HeldKind
  BY TypeParts
<1> QED
  BY <1>1, <1>2 DEF HeldKind

(* A submit returns.                                                        *)
LEMMA ReturnCounted ==
  ASSUME TypeOK, Counted, NEW s \in Submitters,
         Return(s) \/ UNCHANGED <<acked, held>>, UNCHANGED <<submitted, sessions, life>>
  PROVE  Counted'
<1>1. held \in HeldKind
  BY TypeParts
<1>2. CASE Return(s)
  <2>1. acked' = acked \cup held[s] /\ held' = [held EXCEPT ![s] = {}]
    BY <1>2 DEF Return
  <2>2. \A t \in Submitters : held'[t] = held[t] \/ held'[t] = {}
    BY <1>1, <2>1 DEF HeldKind
  <2> QED
    BY <2>1, <2>2 DEF Counted
<1>3. CASE UNCHANGED <<acked, held>>
  BY <1>3 DEF Counted
<1> QED
  BY <1>2, <1>3

(* A submit is accepted.                                                    *)
LEMMA SubmitCounted ==
  ASSUME IndInv, Counted, NEW s \in Submitters, NEW n \in 1..MaxMany, Submit(s, n)
  PROVE  Counted'
<1>1. submitted \in Nat /\ held \in HeldKind /\ n \in Nat
  BY TypeParts, ConfigAssumption DEF IndInv
<1> DEFINE ids == (submitted + 1)..(submitted + n)
<1>2. /\ life = "up" /\ sessions' = sessions /\ submitted' = submitted + n
      /\ acked' = acked \/ acked' = acked \cup ids
      /\ held' = held \/ held' = [held EXCEPT ![s] = ids]
  BY DEF Submit
<1>3. ids \subseteq 1..submitted' /\ 1..submitted \subseteq 1..submitted'
  BY <1>1, <1>2
<1> HIDE DEF ids
<1>4. \A t \in Submitters : held'[t] = held[t] \/ held'[t] = ids
  BY <1>1, <1>2 DEF HeldKind
<1>5. sessions # 0
  BY <1>2 DEF Counted
<1> QED
  BY <1>2, <1>3, <1>4, <1>5 DEF Counted

(* Every step keeps Counted.                                                *)
LEMMA CountedStep ==
  ASSUME IndInv, Counted, Next
  PROVE  Counted'
<1>0. TypeOK /\ Control /\ sessions \in Nat
  BY TypeParts DEF IndInv
<1>1. ASSUME NEW s \in Submitters, NEW n \in 1..MaxMany, Submit(s, n)
      PROVE  Counted'
  BY <1>1, SubmitCounted
<1>2. ASSUME NEW s \in Submitters, Resume(s) \/ Wake(s)
      PROVE  Counted'
  BY <1>0, <1>2, ReturnCounted DEF Resume, Wake
<1>3. CASE Timer \/ Stop \/ StopFlush \/ StopDrained \/ StopGate \/ StopTail \/ StopCheckpoint
           \/ StopClose
           \/ StartCheckpoint
  BY <1>3, CountedKept DEF Timer, Stop, StopFlush, StopDrained, StopGate, StopTail,
     StopCheckpoint,
     StopClose, StartCheckpoint, ghostVars
<1>4. CASE FlushStep
  BY <1>4, CountedKept DEF FlushStep, FlushAppend, FlushForce, RotateSeal, RotateClose,
     RotateRename, RotateCleanup, RotateReopen, RotateCheckpoint, ghostVars
<1>5. CASE FlushFails
  <2>1. FlushThrows /\ flush.pc # "idle"
    BY <1>5 DEF FlushFails, FlushAppendFails, FlushForceFails, RotateCloseFails,
       RotateRenameFails,
       RotateCleanupFails, RotateReopenFails, RotateCheckpointFails
  <2>2. life # "down" /\ UNCHANGED <<submitted, acked, sessions>>
    BY <2>1, ThrowsOK
  <2> QED
    BY <1>0, <2>1, <2>2, ThrowsHeld, CountedKept
<1>6. CASE StopFails
  BY <1>6, CountedKept DEF StopFails
<1>7. CASE StartOpen
  <2>1. sessions' # 0 /\ UNCHANGED <<submitted, acked, held>>
    BY <1>0, <1>7 DEF StartOpen
  <2> QED
    BY <2>1 DEF Counted
<1>8. CASE Recover
  BY <1>8, CountedKept DEF Recover
<1>9. CASE Crash \/ AppendToNoFile \/ CrashInAppend
  <2>1. ProcessDies /\ life # "down"
    BY <1>0, <1>9 DEF Crash, AppendToNoFile, CrashInAppend, Control
  <2>2. UNCHANGED <<submitted, acked, sessions>> /\ \A s \in Submitters : held'[s] = {}
    BY <2>1 DEF ProcessDies
  <2> QED
    BY <2>1, <2>2, CountedKept
<1> QED
  BY <1>1, <1>2, <1>3, <1>4, <1>5, <1>6, <1>7, <1>8, <1>9
     DEF Next, Task, StopStep, StartStep

-----------------------------------------------------------------------------
(* stop has drained the queue.                                              *)
Finishing == life \in {"gate", "stop_tail", "stop_checkpoint", "stop_close", "stopped"}

(* A step that queues nothing.                                              *)
LEMMA DrainedKept ==
  ASSUME Drained, pending' = pending \/ pending' = <<>>, Finishing' => Finishing \/ pending' = <<>>
  PROVE  Drained'
BY DEF Drained, Finishing

(* Without write faults no flush puts its batch back behind stop's back.    *)
LEMMA DrainedStep ==
  ASSUME Reliable, IndInv, Drained, Next
  PROVE  Drained'
<1>0. TypeOK /\ Control /\ pending \in Seq(Record)
  BY TypeParts DEF IndInv
<1>1. ASSUME NEW s \in Submitters, NEW n \in 1..MaxMany, Submit(s, n)
      PROVE  Drained'
  BY <1>1 DEF Submit, Drained
<1>2. ASSUME NEW s \in Submitters, Resume(s) \/ Wake(s)
      PROVE  Drained'
  BY <1>2, DrainedKept DEF Resume, Wake, queueVars, Finishing
<1>3. CASE Timer \/ StopFlush
  BY <1>3, DrainedKept DEF Timer, StopFlush, StartFlush, Finishing
<1>4. CASE Stop \/ StopDrained \/ StopGate \/ StopTail \/ StopCheckpoint \/ StopClose
           \/ StartCheckpoint
  BY <1>4, DrainedKept DEF Stop, StopDrained, StopGate, StopTail, StopCheckpoint,
     StopClose, StartCheckpoint, queueVars, Finishing
<1>5. CASE FlushStep
  BY <1>5, DrainedKept DEF FlushStep, FlushAppend, FlushForce, RotateSeal, RotateClose,
     RotateRename, RotateCleanup, RotateReopen, RotateCheckpoint, queueVars, Finishing
<1>6. CASE FlushFails
  <2>1. CASE RotateCheckpointFails
    <3>1. FlushThrows /\ flush.pc # "idle" /\ batch = <<>>
      BY <1>0, <2>1 DEF RotateCheckpointFails, Control
    <3>2. pending' = batch \o pending /\ (life' = life \/ life' = "failed")
      BY <3>1, ThrowsOK
    <3>3. pending' = pending
      BY <1>0, <3>1, <3>2
    <3> QED
      BY <3>2, <3>3, DrainedKept DEF Finishing
  <2>2. CASE ~RotateCheckpointFails
    <3>1. "write" \in Faults
      BY <1>6, <2>2 DEF FlushFails, FlushAppendFails, FlushForceFails, RotateCloseFails,
         RotateRenameFails, RotateCleanupFails, RotateReopenFails, Fault, Reliable
    <3> QED
      BY <3>1 DEF Drained
  <2> QED
    BY <2>1, <2>2
<1>7. CASE StopFails
  BY <1>7 DEF StopFails, Drained
<1>8. CASE StartOpen
  BY <1>8, DrainedKept DEF StartOpen
<1>9. CASE Recover
  BY <1>9, DrainedKept DEF Recover, Finishing
<1>10. CASE Crash \/ AppendToNoFile \/ CrashInAppend
  BY <1>10 DEF Crash, AppendToNoFile, CrashInAppend, ProcessDies, Drained
<1> QED
  BY <1>1, <1>2, <1>3, <1>4, <1>5, <1>6, <1>7, <1>8, <1>9, <1>10
     DEF Next, Task, StopStep, StartStep

-----------------------------------------------------------------------------
(* append_batch takes back no report: when it writes at all it writes at    *)
(* least a block, which reaches past the partial block that an earlier      *)
(* forced flush reported.                                                   *)
LEMMA AppendReports ==
  ASSUME Writer, ~misused, AW!Ready, NEW b \in Seq(Record), AW!AppendBatch(b)
  PROVE  /\ stream' = stream \o b
         /\ \A i \in 1..flushed : i \in 1..flushed' /\ stream'[i] = stream[i]
<1>1. /\ tail \in Seq(Cell) /\ stream \in Seq(Cell) /\ write_offset \in Nat /\ flushed \in Nat
      /\ b \in Seq(Cell) /\ Len(tail) \in Nat /\ Len(stream) \in Nat /\ Len(tail) < Alignment
      /\ logical_size = Len(stream) /\ flushed <= Len(stream) /\ Alignment \in Nat
      /\ write_offset + Len(tail) = logical_size
  BY WriterParts, WriterTypes, Options DEF Cell, AW!Ready
<1> DEFINE writable == AW!AlignDown(Len(tail \o b))
<1>2. /\ stream' = stream \o b
      /\ flushed' = IF writable > 0 THEN write_offset + writable ELSE flushed
  BY DEF AW!AppendBatch
<1>3. writable \in Nat /\ (writable > 0 => writable >= Alignment)
  <2>1. Len(tail \o b) \in Nat
    BY <1>1
  <2>2. AWP!AlignDown(Len(tail \o b)) = writable
    BY SameFile
  <2>3. writable \in Nat /\ writable % Alignment = 0
    BY <2>1, <2>2, WriterOptions, AWP!AlignDownBlocks
  <2> HIDE DEF writable
  <2> QED
    BY <2>3, WriterOptions, AWP!AtLeastOneBlock
<1> HIDE DEF writable
<1>4. flushed' \in Nat /\ flushed' >= flushed
  BY ONLY <1>1, <1>2, <1>3
<1>5. \A i \in 1..flushed : i \in 1..flushed'
  BY <1>1, <1>4
<1>6. ASSUME NEW i \in 1..flushed
      PROVE  (stream \o b)[i] = stream[i]
  <2>1. i \in 1..Len(stream)
    BY <1>1
  <2> QED
    BY <1>1, <2>1
<1> QED
  BY <1>2, <1>5, <1>6

(* Nor do the other operations on an open segment.                          *)
LEMMA WriterReports ==
  ASSUME Writer, ~misused,
         \/ AW!ForceFlush \/ AW!FlushTail \/ AW!Close \/ AW!AppendBatchFails(batch)
         \/ AW!ForceFlushFails \/ UNCHANGED writerVars
  PROVE  stream' = stream /\ \A i \in 1..flushed : i \in 1..flushed'
<1>1. flushed \in Nat /\ Len(stream) \in Nat /\ flushed <= Len(stream)
  BY WriterParts, WriterTypes
<1>2. stream' = stream /\ flushed' \in {flushed, Len(stream)}
  BY DEF AW!ForceFlush, AW!FlushTail, AW!Close, AW!AppendBatchFails, AW!ForceFlushFails,
     AW!ghostVars,
     writerVars
<1> QED
  BY <1>1, <1>2

(* Reports that are not taken back.                                         *)
LEMMA ReportedGrows ==
  ASSUME \A i \in 1..flushed : i \in 1..flushed' /\ stream'[i] = stream[i]
  PROVE  Reported \subseteq Reported'
BY ReportedMember, ReportedNext

(* A step of a running shard that takes no report back.                     *)
LEMMA KeptGrows ==
  ASSUME Kept, ~Offline, ~Offline', Reported \subseteq Reported', Saved \subseteq Saved',
         committed' \subseteq committed \cup Reported'
  PROVE  Kept'
BY DEF Kept, Stored

(* A step that leaves the archives alone.                                   *)
LEMMA SavedSame ==
  ASSUME UNCHANGED <<archives, expired>>
  PROVE  Saved' = Saved
BY DEF Saved, ArchivedIds, Ids, IsRecord

(* A step of a running shard that changes the writer at most.               *)
LEMMA KeptRuns ==
  ASSUME Kept, ReadyInv, Writer, ~Offline, ~Offline', UNCHANGED <<archives, expired,
                                                                  committed>>,
         \/ AW!ForceFlush \/ AW!FlushTail \/ AW!Close \/ AW!AppendBatchFails(batch)
         \/ AW!ForceFlushFails \/ UNCHANGED writerVars
  PROVE  Kept'
<1>1. stream' = stream /\ \A i \in 1..flushed : i \in 1..flushed'
  BY WriterReports DEF ReadyInv
<1>2. \A i \in 1..flushed : stream'[i] = stream[i]
  BY <1>1
<1> QED
  BY <1>1, <1>2, ReportedGrows, SavedSame, KeptGrows

(* A rotation moves the whole file to the archives.                         *)
LEMMA RenameSaves ==
  ASSUME TypeOK, archives' = Append(archives, file), expired' = expired
  PROVE  Saved \cup Ids(file) \subseteq Saved'
<1> DEFINE segments == Append(archives, file)
<1>1. archives \in Seq(Seq(Cell)) /\ file \in Seq(Cell)
  BY ViewTypes
<1>2. segments \in Seq(Seq(Cell)) /\ Len(segments) = Len(archives) + 1
      /\ segments[Len(archives) + 1] = file
      /\ \A i \in 1..Len(archives) : segments[i] = archives[i]
  BY <1>1
<1> HIDE DEF segments
<1>3. DOMAIN segments = 1..(Len(archives) + 1) /\ DOMAIN archives = 1..Len(archives)
      /\ Len(archives) \in Nat
  BY <1>1, <1>2
<1>4. Saved' = (UNION {Ids(segments[i]) : i \in DOMAIN segments}) \cup expired
  <2>1. archives' = segments /\ expired' = expired
    BY DEF segments
  <2>2. Saved' = (UNION {Ids(archives'[i]) : i \in DOMAIN archives'}) \cup expired'
    BY DEF Saved, ArchivedIds, Ids, IsRecord
  <2> QED
    BY <2>1, <2>2
<1>5. \A i \in DOMAIN segments : Ids(segments[i]) \subseteq Saved'
  BY <1>4
<1>6. Ids(file) \subseteq Saved'
  <2>1. Len(archives) + 1 \in DOMAIN segments
    BY <1>3
  <2> QED
    BY <1>2, <1>5, <2>1
<1>7. \A i \in DOMAIN archives : i \in DOMAIN segments /\ segments[i] = archives[i]
  BY <1>2, <1>3
<1>8. ArchivedIds \subseteq Saved'
  BY <1>5, <1>7 DEF ArchivedIds
<1> QED
  BY <1>4, <1>6, <1>8 DEF Saved

(* cleanup_archives keeps a segment or counts its records as expired.       *)
LEMMA CleanupSaves ==
  ASSUME TypeOK, RotateCleanup
  PROVE  Saved \subseteq Saved'
<1>1. CASE NextOut = 0
  BY <1>1, SavedSame DEF RotateCleanup
<1>2. CASE NextOut # 0
  <2> DEFINE k == NextOut
             rest == RemoveAt(archives, k)
  <2>1. k \in DOMAIN archives /\ archives \in Seq(Seq(Cell))
    BY <1>2, NextOutKind, ViewTypes
  <2>2. archives' = rest /\ expired' = expired \cup Ids(archives[k])
    BY <1>2 DEF RotateCleanup
  <2> HIDE DEF k
  <2>3. \A i \in DOMAIN archives : i # k => \E a \in DOMAIN rest : rest[a] = archives[i]
    BY ONLY <2>1, OthersStay
  <2> HIDE DEF rest
  <2>4. Saved' = (UNION {Ids(rest[i]) : i \in DOMAIN rest}) \cup expired \cup Ids(archives[k])
    <3>1. Saved' = (UNION {Ids(archives'[i]) : i \in DOMAIN archives'}) \cup expired'
      BY DEF Saved, ArchivedIds, Ids, IsRecord
    <3> QED
      BY <2>2, <3>1
  <2>5. \A i \in DOMAIN archives : Ids(archives[i]) \subseteq Saved'
    BY <2>3, <2>4
  <2> QED
    BY <2>4, <2>5 DEF Saved, ArchivedIds
<1> QED
  BY <1>1, <1>2

(* Recovery's scan misses no record: everything after its end is padding.   *)
LEMMA ScanReaches ==
  ASSUME TypeOK, NEW from \in Nat, from <= Len(file), NEW next \in Nat
  PROVE  \A i \in DOMAIN file : IsRecord(file[i]) => i <= Scan(from, next).size
<1> DEFINE records == {i \in (from + 1)..Len(file) : IsRecord(file[i])}
           last == CHOOSE i \in records : \A j \in records : j <= i
<1>1. file \in Seq(Cell) /\ Len(file) \in Nat
  BY ViewTypes
<1>2. Scan(from, next).size = IF records = {} THEN from ELSE last
  BY DEF Scan
<1>3. records \in SUBSET (1..Len(file))
  BY <1>1
<1>4. ASSUME NEW i \in DOMAIN file, IsRecord(file[i]), i > from
      PROVE  i \in records
  BY <1>1, <1>4
<1>5. ASSUME records # {}
      PROVE  last \in records /\ \A j \in records : j <= last
  <2> HIDE DEF records
  <2>1. \E x \in records : \A j \in records : j <= x
    BY <1>1, <1>3, <1>5, LargestPosition
  <2> QED
    BY <2>1
<1>6. records \subseteq (from + 1)..Len(file)
  OBVIOUS
<1> HIDE DEF records, last
<1> SUFFICES ASSUME NEW i \in DOMAIN file, IsRecord(file[i])
             PROVE  i <= Scan(from, next).size
  OBVIOUS
<1>7. i \in Nat
  BY <1>1
<1>8. CASE records = {}
  BY <1>2, <1>4, <1>7, <1>8
<1>9. CASE records # {} /\ i > from
  BY <1>2, <1>4, <1>5, <1>9
<1>10. CASE records # {} /\ i <= from
  <2>1. last \in (from + 1)..Len(file)
    BY <1>5, <1>6, <1>10
  <2> QED
    BY <1>1, <1>2, <1>7, <1>10, <2>1
<1> QED
  BY <1>7, <1>8, <1>9, <1>10

-----------------------------------------------------------------------------
(* Identities after a step.                                                 *)
LEMMA IdsPrimed ==
  /\ \A x : x \in Ids(stream)' <=> \E i \in DOMAIN stream' : IsRecord(stream'[i])
     /\ x = stream'[i].id
  /\ \A x : x \in Ids(file)' <=> \E i \in DOMAIN file' : IsRecord(file'[i]) /\ x = file'[i].id
BY DEF Ids, IsRecord

(* Recovery keeps every record of the file, and the writer counts it as     *)
(* reported.                                                                *)
LEMMA RecoverKeeps ==
  ASSUME IndInv, Recover
  PROVE  Ids(file) \subseteq Reported' /\ Ids(file) \subseteq Ids(stream)'
<1>0. TypeOK /\ file \in Seq(Cell) /\ Len(file) \in Nat
  BY ViewTypes DEF IndInv
<1>1. PICK from \in Nat, next \in Nat :
        from <= Len(file) /\ AW!TruncateTo(Scan(from, next).size)
  BY RecoverCase
<1> DEFINE size == Scan(from, next).size
<1>2. size \in Nat /\ AW!TruncateTo(size) /\ \A i \in DOMAIN file : IsRecord(file[i]) => i <= size
  BY <1>0, <1>1, ScanCells, ScanReaches
<1> HIDE DEF size
<1>3. stream' = AW!Truncated(file, size) /\ flushed' = size
  BY <1>2 DEF AW!TruncateTo
<1>4. \A i \in DOMAIN file : i <= size => i \in DOMAIN stream' /\ stream'[i] = file[i]
  BY <1>0, <1>2, <1>3, TruncatedCells
<1> SUFFICES ASSUME NEW x \in Ids(file) PROVE x \in Reported' /\ x \in Ids(stream)'
  OBVIOUS
<1>5. PICK i \in DOMAIN file : IsRecord(file[i]) /\ x = file[i].id
  BY IdsMember
<1>6. i \in DOMAIN stream' /\ stream'[i] = file[i] /\ i <= size
  BY <1>2, <1>4, <1>5
<1>7. i \in 1..flushed'
  BY <1>0, <1>2, <1>3, <1>6
<1> QED
  BY <1>5, <1>6, <1>7, IdsPrimed, ReportedNext

(* A crash in the middle of append_batch damages no reported record: the    *)
(* partial block is rewritten with the cells it already had.                *)
LEMMA CrashKeeps ==
  ASSUME IndInv, Writer, ReadyInv, CrashInAppend
  PROVE  Reported \subseteq Ids(file)'
<1>0. /\ tail \in Seq(Cell) /\ batch \in Seq(Cell) /\ file \in Seq(Cell) /\ stream \in Seq(Cell)
      /\ write_offset \in Nat /\ Len(tail) \in Nat /\ flushed \in Nat /\ AW!TypeOK
  BY ViewTypes, WriterTypes DEF IndInv
<1> DEFINE bytes == tail \o batch
<1>1. /\ file_open
      /\ \E last \in 1..(Len(bytes) \div Alignment) :
           file' = AW!OverwriteAll(file, write_offset, SubSeq(bytes, 1, last * Alignment))
  BY DEF CrashInAppend
<1>2. bytes \in Seq(Cell) /\ Len(bytes) = Len(tail) + Len(batch)
      /\ \A j \in 1..Len(tail) : bytes[j] = tail[j]
  BY <1>0
<1> HIDE DEF bytes
<1>3. PICK last \in 1..(Len(bytes) \div Alignment) :
        file' = AW!OverwriteAll(file, write_offset, SubSeq(bytes, 1, last * Alignment))
  BY <1>1
<1> DEFINE n == last * Alignment
           buffer == SubSeq(bytes, 1, n)
<1>4. n \in Nat /\ n <= Len(bytes)
  <2> DEFINE q == Len(bytes) \div Alignment
  <2>1. Alignment \in Nat \ {0} /\ Len(bytes) \in Nat
    BY Options, <1>2
  <2>2. q \in Nat /\ Alignment * q <= Len(bytes)
    BY <2>1
  <2>3. last \in Nat /\ last <= q
    BY <2>2
  <2> HIDE DEF q
  <2>4. n \in Nat
    BY <2>1, <2>3
  <2>5. \E d \in Nat : q = last + d
    <3>1. q - last \in Nat /\ q = last + (q - last)
      BY <2>2, <2>3
    <3> QED
      BY <3>1
  <2>6. PICK d \in Nat : q = last + d
    BY <2>5
  <2>7. Alignment * q = last * Alignment + Alignment * d /\ Alignment * d \in Nat
    BY <2>1, <2>3, <2>6
  <2> QED
    BY <2>1, <2>2, <2>4, <2>7
<1>5. file' = AW!OverwriteAll(file, write_offset, buffer)
  BY <1>3
<1> HIDE DEF n
<1>6. buffer \in Seq(Cell) /\ Len(buffer) = n /\ \A j \in 1..n : buffer[j] = bytes[j]
  BY <1>2, <1>4
<1> HIDE DEF buffer
<1>7. ASSUME NEW i \in 1..flushed
      PROVE  i \in DOMAIN file' /\ file'[i] = stream[i]
  <2>1. i <= Len(file) /\ file[i] = stream[i] /\ i \in 1..Len(stream)
    BY <1>0, WriterParts DEF ReadyInv
  <2>2. i \in DOMAIN file
    BY <1>0, <2>1
  <2>3. /\ i \in DOMAIN file'
        /\ \/ file'[i] = file[i]
           \/ i > write_offset /\ i - write_offset \in 1..Len(buffer)
              /\ file'[i] = buffer[i - write_offset]
    BY <1>0, <1>5, <1>6, <2>2, OverwriteSpares
  <2>4. ASSUME i > write_offset, i - write_offset \in 1..Len(buffer)
        PROVE  buffer[i - write_offset] = stream[i]
    <3>1. i - write_offset <= Len(tail) /\ tail[i - write_offset] = stream[i]
      BY <1>1, <2>1, <2>4, WriterParts DEF ReadyInv
    <3> DEFINE j == i - write_offset
    <3>2. j \in 1..Len(tail) /\ j \in 1..n
      BY <1>0, <1>6, <2>4, <3>1
    <3>3. buffer[j] = bytes[j] /\ bytes[j] = tail[j]
      BY <1>2, <1>6, <3>2
    <3> QED
      BY <3>1, <3>3
  <2> QED
    BY <2>1, <2>3, <2>4
<1> SUFFICES ASSUME NEW x \in Reported PROVE x \in Ids(file)'
  OBVIOUS
<1>8. PICK i \in 1..flushed : IsRecord(stream[i]) /\ x = stream[i].id
  BY ReportedMember
<1> QED
  BY <1>7, <1>8, IdsPrimed

(* Every step keeps what was reported written.                              *)
LEMMA KeptStep ==
  ASSUME Reliable, IndInv, IndInv', Writer, ReadyInv, ReadyInv', Kept, Next
  PROVE  Kept'
<1>0. /\ TypeOK /\ Control /\ batch \in Seq(Record) /\ flushed \in Nat /\ stream \in Seq(Cell)
         /\ ~misused
      /\ flushed <= Len(stream)
  BY ViewTypes, TypeParts, WriterTypes, WriterParts DEF IndInv, ReadyInv
<1>1. ASSUME NEW s \in Submitters, NEW n \in 1..MaxMany, Submit(s, n)
      PROVE  Kept'
  BY <1>1, KeptRuns DEF Submit, diskVars, Offline
<1>2. ASSUME NEW s \in Submitters, Resume(s) \/ Wake(s)
      PROVE  Kept'
  <2>1. UNCHANGED <<writerVars, life, archives, expired, committed>>
    BY <1>2 DEF Resume, Wake, diskVars
  <2> QED
    BY <2>1 DEF Kept, Saved, ArchivedIds, Stored, Reported, Offline, Ids, IsRecord,
       writerVars
<1>3. CASE Timer \/ Stop \/ StopFlush \/ StopDrained \/ StopGate
  BY <1>3, KeptRuns DEF Timer, Stop, StopFlush, StopDrained, StopGate, diskVars,
     ghostVars, Offline
<1>4. CASE FlushAppend
  <2>1. /\ flush.pc = "append" /\ AW!AppendBatch(batch) /\ life' = life
        /\ UNCHANGED <<archives, expired, committed>>
    BY <1>4 DEF FlushAppend, diskVars, ghostVars
  <2>2. life \in {"up", "stopping", "gate"}
    BY <1>0, <2>1 DEF Control
  <2>3. AW!Ready
    BY <2>1, <2>2 DEF ReadyInv
  <2> QED
    BY <1>0, <2>1, <2>2, <2>3, AppendReports, ReportedGrows, SavedSame,
       KeptGrows DEF Offline
<1>5. CASE FlushForce
  <2>1. /\ flush.pc = "force" /\ AW!ForceFlush /\ life' = life
           /\ committed' = committed \cup Ids(stream)
        /\ UNCHANGED <<archives, expired>>
    BY <1>5 DEF FlushForce, diskVars
  <2>2. life \in {"up", "stopping", "gate"}
    BY <1>0, <2>1 DEF Control
  <2>3. stream' = stream /\ flushed' = Len(stream)
    BY <2>1 DEF AW!ForceFlush
  <2>4. Ids(stream) \subseteq Reported'
    <3>1. DOMAIN stream = 1..flushed'
      BY <1>0, <2>3
    <3> QED
      BY <2>3, <3>1, IdsMember, ReportedNext
  <2>5. \A i \in 1..flushed : i \in 1..flushed' /\ stream'[i] = stream[i]
    BY <1>0, <2>3
  <2> QED
    BY <2>1, <2>2, <2>4, <2>5, ReportedGrows, SavedSame, KeptGrows DEF Offline
<1>6. CASE FlushAppendFails \/ FlushForceFails \/ RotateCheckpointFails
  <2>1. /\ FlushThrows /\ flush.pc # "idle" /\ UNCHANGED <<archives, committed>>
        /\ AW!AppendBatchFails(batch) \/ AW!ForceFlushFails \/ AW!ForceFlush
    BY <1>6 DEF FlushAppendFails, FlushForceFails, RotateCheckpointFails,
       PersistCheckpoint,
       PersistCheckpointFails, diskVars
  <2>2. life \in {"up", "stopping", "gate"} /\ life' \in {"up", "stopping", "gate", "failed"}
        /\ expired' = expired
    BY <2>1, ThrowsOK
  <2> QED
    BY <2>1, <2>2, KeptRuns DEF Offline
<1>7. CASE RotateSeal \/ RotateClose \/ RotateCheckpoint
  <2>1. /\ flush.pc # "idle" /\ UNCHANGED <<life, archives, expired, committed>>
        /\ AW!FlushTail \/ AW!Close \/ AW!ForceFlush \/ UNCHANGED writerVars
    BY <1>7 DEF RotateSeal, RotateClose, RotateCheckpoint, PersistCheckpoint, diskVars,
       ghostVars
  <2>2. life \in {"up", "stopping", "gate"}
    BY <1>0, <2>1 DEF Control
  <2> QED
    BY <2>1, <2>2, KeptRuns DEF Offline
<1>8. CASE StopTail \/ StopCheckpoint \/ StopClose \/ StopFails \/ StartCheckpoint
  <2>1. /\ life \notin {"down", "recover"} /\ life' \notin {"down", "recover"}
        /\ UNCHANGED <<archives, expired, committed>>
        /\ AW!FlushTail \/ AW!Close \/ AW!ForceFlush \/ UNCHANGED writerVars
    BY <1>8, NoSuchFault DEF StopTail, StopCheckpoint, StopClose, StopFails,
       StartCheckpoint,
       PersistCheckpoint, PersistCheckpointFails, diskVars, ghostVars
  <2> QED
    BY <2>1, KeptRuns DEF Offline
<1>9. CASE RotateRename
  <2>1. flush.pc = "rename" /\ life' = life /\ committed' = committed
    BY <1>9 DEF RotateRename, ghostVars
  <2>2. life \in {"up", "stopping", "gate"}
    BY <1>0, <2>1 DEF Control
  <2>3. present
    BY <2>1, <2>2 DEF ReadyInv, Attached
  <2>4. Saved \cup Ids(file) \subseteq Saved'
    BY <1>0, <1>9, <2>3, RenameSaves DEF RotateRename, ghostVars
  <2>5. Stored \subseteq Ids(file)
    BY <1>0, <2>2, ReportedStored DEF Stored, Offline
  <2> QED
    BY <2>1, <2>4, <2>5 DEF Kept
<1>10. CASE RotateReopen
  <2>1. flush.pc = "reopen" /\ UNCHANGED <<life, archives, expired, committed>>
    BY <1>10 DEF RotateReopen, diskVars, ghostVars
  <2>2. life \in {"up", "stopping", "gate"} /\ stream = <<>> /\ Len(stream) = 0
    BY <1>0, <2>1 DEF Control, ReadyInv
  <2>3. Reported = {}
    BY <1>0, <2>2, ReportedMember
  <2> QED
    BY <2>1, <2>2, <2>3, SavedSame, KeptGrows DEF Offline
<1>11. CASE RotateCloseFails \/ RotateRenameFails \/ RotateCleanupFails \/ RotateReopenFails
  BY <1>11, NoSuchFault DEF RotateCloseFails, RotateRenameFails, RotateCleanupFails,
     RotateReopenFails
<1>12. CASE StartOpen
  <2>1. /\ UNCHANGED <<archives, expired, committed>>
        /\ ~TruncateOnStart => file' = file /\ life' = "recover"
    BY <1>12 DEF StartOpen, AW!Start, diskVars
  <2>2. Stored \subseteq Ids(file)
    BY <1>0, ReportedStored DEF Stored
  <2>3. ~TruncateOnStart => Stored' = Ids(file)
    BY <2>1 DEF Stored, Offline, Ids, IsRecord
  <2> QED
    BY <2>1, <2>2, <2>3, SavedSame DEF Kept
<1>13. CASE Recover
  <2>1. /\ UNCHANGED <<archives, expired, committed>> /\ life = "recover"
        /\ life' \in {"start_checkpoint", "up"}
    BY <1>13 DEF Recover, diskVars
  <2> QED
    BY <1>13, <2>1, RecoverKeeps, SavedSame DEF Kept, Stored, Offline
<1>14. CASE Crash \/ AppendToNoFile
  <2>1. /\ UNCHANGED <<archives, expired, committed, file>> /\ life' = "down"
    BY <1>14 DEF Crash, AppendToNoFile, ProcessDies, AW!Crash, AW!diskVars, diskVars
  <2>2. Stored \subseteq Ids(file)
    BY <1>0, ReportedStored DEF Stored
  <2>3. Stored' = Ids(file)
    BY <2>1 DEF Stored, Offline, Ids, IsRecord
  <2> QED
    BY <2>1, <2>2, <2>3, SavedSame DEF Kept
<1>15. CASE CrashInAppend
  <2>1. /\ UNCHANGED <<archives, expired,
                       committed>> /\ life' = "down" /\ flush.pc = "append"
    BY <1>15 DEF CrashInAppend, ProcessDies, diskVars
  <2>2. life \in {"up", "stopping", "gate"}
    BY <1>0, <2>1 DEF Control
  <2> QED
    BY <1>15, <2>1, <2>2, CrashKeeps, SavedSame DEF Kept, Stored, Offline
<1>16. CASE RotateCleanup
  <2>1. flush.pc = "cleanup" /\ UNCHANGED <<writerVars, life, committed>>
    BY <1>16 DEF RotateCleanup
  <2>2. life \in {"up", "stopping", "gate"} /\ UNCHANGED <<stream, flushed>>
    BY <1>0, <2>1 DEF Control, writerVars
  <2>3. Saved \subseteq Saved' /\ Reported' = Reported
    BY <1>0, <1>16, <2>2, CleanupSaves DEF Reported, IsRecord
  <2> QED
    BY <2>1, <2>2, <2>3, KeptGrows DEF Offline
<1> QED
  BY <1>1, <1>2, <1>3, <1>4, <1>5, <1>6, <1>7, <1>8, <1>9, <1>10, <1>11, <1>12, <1>13,
     <1>14, <1>15, <1>16
     DEF Next, Task, FlushStep, FlushFails, StopStep, StartStep

-----------------------------------------------------------------------------
(* The records the shard holds for the active segment.                      *)
Memory == Ids(stream) \cup Ids(batch) \cup Ids(pending)

(* ... after a step.                                                        *)
LEMMA MemoryNext ==
  ASSUME NEW a, NEW b, NEW c, stream' = a, batch' = b, pending' = c
  PROVE  Memory' = Ids(a) \cup Ids(b) \cup Ids(c)
BY DEF Memory, Ids, IsRecord

(* A step of a running shard that drops nothing.                            *)
LEMMA AccountedGrows ==
  ASSUME Accounted, ~Offline, ~Offline', crashed' = crashed, Saved \subseteq Saved',
         Memory \subseteq Memory' \cup Saved', 1..submitted' \subseteq 1..submitted \cup Memory'
  PROVE  Accounted'
BY DEF Accounted, Given, Memory

(* A step that leaves the segment and the queue alone.                      *)
LEMMA AccountedQuiet ==
  ASSUME Accounted, ~Offline, ~Offline', UNCHANGED <<stream, batch, pending, archives,
                                                     expired, submitted, crashed>>
  PROVE  Accounted'
<1>1. Memory' = Memory
  BY DEF Memory, Ids, IsRecord
<1> QED
  BY <1>1, SavedSame, AccountedGrows

(* submit and submit_many.                                                  *)
LEMMA SubmitKeeps ==
  ASSUME IndInv, Accounted, NEW s \in Submitters, NEW n \in 1..MaxMany, Submit(s, n)
  PROVE  Accounted'
<1> DEFINE new == [k \in 1..n |-> [id |-> submitted + k, seq |-> sequence + k - 1]]
           queue == pending \o new
<1>0. /\ submitted \in Nat /\ sequence \in Nat /\ n \in Nat /\ pending \in Seq(Record)
      /\ pending \in Seq(Cell) /\ s \in Submitters \cup {"timer", "stop"}
  BY ViewTypes, ConfigAssumption DEF IndInv
<1>1. /\ new \in Seq(Record) /\ Len(new) = n /\ \A j \in 1..n : new[j].id = submitted + j
  <2>1. submitted \in Nat /\ sequence \in Nat /\ n \in Nat
    BY <1>0
  <2>2. \A j \in 1..n : /\ new[j] = [id |-> submitted + j, seq |-> sequence + j - 1]
                        /\ submitted + j \in Nat /\ sequence + j - 1 \in Nat
    BY ONLY <2>1
  <2>3. \A j \in 1..n : new[j].id = submitted + j
    BY ONLY <2>2
  <2>4. new \in [1..n -> Record]
    BY ONLY <2>2 DEF Record
  <2> HIDE DEF new
  <2>5. new \in Seq(Record) /\ Len(new) = n
    BY ONLY <2>1, <2>4
  <2> QED
    BY ONLY <2>3, <2>5
<1>2. /\ life = "up" /\ life' = life /\ submitted' = submitted + n
      /\ \/ StartFlush(queue, s, TRUE)
         \/ pending' = queue /\ batch' = batch
      /\ UNCHANGED <<stream, archives, expired, crashed>>
  BY DEF Submit, writerVars, diskVars
<1> HIDE DEF new
<1>3. new \in Seq(Cell) /\ DOMAIN new = 1..n
  BY <1>1 DEF Cell
<1>4. (submitted + 1)..(submitted + n) \subseteq Ids(new)
  <2> SUFFICES ASSUME NEW x \in (submitted + 1)..(submitted + n) PROVE x \in Ids(new)
    OBVIOUS
  <2>1. x - submitted \in 1..n /\ submitted + (x - submitted) = x
    BY <1>0
  <2> DEFINE j == x - submitted
  <2>2. j \in DOMAIN new /\ new[j].id = x
    BY <1>1, <1>3, <2>1
  <2>3. IsRecord(new[j])
    BY <1>1, <1>3, <2>2, Options DEF IsRecord
  <2> HIDE DEF j
  <2> QED
    BY <2>2, <2>3, IdsMember
<1>5. Ids(pending) \cup Ids(new) \subseteq Ids(queue) /\ queue \in Seq(Record)
  BY <1>0, <1>1, <1>3, IdsConcat
<1> HIDE DEF queue
<1>6. Memory \subseteq Memory' /\ Ids(queue) \subseteq Memory'
  <2>1. CASE StartFlush(queue, s, TRUE)
    <3>1. batch' = queue /\ pending' = <<>> /\ batch = <<>>
      BY <1>0, <1>5, <2>1, StartFlushOK
    <3>2. Memory' = Ids(stream) \cup Ids(queue) \cup Ids(<<>>)
      BY <1>2, <3>1, MemoryNext
    <3> QED
      BY <1>5, <3>1, <3>2, IdsEmpty DEF Memory
  <2>2. CASE pending' = queue /\ batch' = batch
    <3>1. Memory' = Ids(stream) \cup Ids(batch) \cup Ids(queue)
      BY <1>2, <2>2, MemoryNext
    <3> QED
      BY <1>5, <3>1 DEF Memory
  <2> QED
    BY <1>2, <2>1, <2>2
<1>7. 1..submitted' \subseteq 1..submitted \cup (submitted + 1)..(submitted + n)
  BY <1>0, <1>2
<1>8. 1..submitted' \subseteq 1..submitted \cup Memory'
  BY <1>4, <1>5, <1>6, <1>7
<1> QED
  BY <1>2, <1>6, <1>8, SavedSame, AccountedGrows DEF Offline

(* A flush takes the queue.                                                 *)
LEMMA StartFlushKeeps ==
  ASSUME IndInv, Accounted, Timer \/ StopFlush
  PROVE  Accounted'
<1>1. /\ life \in {"up", "stopping"} /\ UNCHANGED <<life, stream, archives, expired,
                                                    crashed, submitted>>
      /\ StartFlush(pending, "timer", FALSE) \/ StartFlush(pending, "stop", TRUE)
  BY DEF Timer, StopFlush, writerVars, diskVars, ghostVars
<1>2. pending \in Seq(Record)
  BY ViewTypes DEF IndInv
<1>3. batch' = pending /\ pending' = <<>> /\ batch = <<>>
  BY <1>1, <1>2, StartFlushOK
<1>4. Memory' = Ids(stream) \cup Ids(pending) \cup Ids(<<>>)
  BY <1>1, <1>3, MemoryNext
<1> QED
  BY <1>1, <1>3, <1>4, IdsEmpty, SavedSame, AccountedGrows DEF Memory, Offline

(* A failing flush puts its batch back.                                     *)
LEMMA ThrowsKeeps ==
  ASSUME IndInv, Accounted, FlushThrows, flush.pc # "idle", UNCHANGED <<stream, archives>>
  PROVE  Accounted'
<1>1. /\ pending' = batch \o pending /\ batch' = <<>>
      /\ life \in {"up", "stopping", "gate"} /\ life' \in {"up", "stopping", "gate", "failed"}
      /\ UNCHANGED <<submitted, expired, crashed>>
  BY ThrowsOK
<1>2. batch \in Seq(Cell) /\ pending \in Seq(Cell)
  BY ViewTypes DEF IndInv
<1>3. Memory' = Ids(stream) \cup Ids(<<>>) \cup Ids(batch \o pending)
  BY <1>1, MemoryNext
<1>4. Memory \subseteq Memory'
  BY <1>2, <1>3, IdsConcat DEF Memory
<1> QED
  BY <1>1, <1>4, SavedSame, AccountedGrows DEF Offline

(* Every step of a process that lives keeps every accepted record.          *)
LEMMA AccountedStep ==
  ASSUME Reliable, IndInv, IndInv', Writer, ReadyInv, Drained, Counted, Accounted, Next
  PROVE  Accounted'
<1>0. /\ TypeOK /\ Control /\ batch \in Seq(Record) /\ batch \in Seq(Cell) /\ stream \in Seq(Cell)
      /\ ~misused /\ sessions \in Nat
  BY ViewTypes, TypeParts DEF IndInv, ReadyInv
<1>1. ASSUME NEW s \in Submitters, NEW n \in 1..MaxMany, Submit(s, n)
      PROVE  Accounted'
  BY <1>1, SubmitKeeps
<1>2. ASSUME NEW s \in Submitters, Resume(s) \/ Wake(s)
      PROVE  Accounted'
  <2>1. UNCHANGED <<writerVars, queueVars, life, archives, expired, submitted, crashed>>
    BY <1>2 DEF Resume, Wake, diskVars
  <2> QED
    BY <2>1 DEF Accounted, Saved, ArchivedIds, Given, Offline, Ids, IsRecord, writerVars,
       queueVars
<1>3. CASE Timer \/ StopFlush
  BY <1>3, StartFlushKeeps
<1>4. CASE Stop \/ StopDrained \/ StopGate
  BY <1>4, AccountedQuiet DEF Stop, StopDrained, StopGate, writerVars, queueVars,
     diskVars, ghostVars, Offline
<1>5. CASE FlushAppend
  <2>1. /\ flush.pc = "append" /\ stream' = stream \o batch /\ life' = life /\ batch' = <<>>
        /\ UNCHANGED <<pending, archives, expired, submitted, crashed>>
    BY <1>5 DEF FlushAppend, AW!AppendBatch, diskVars, ghostVars
  <2>2. life \in {"up", "stopping", "gate"}
    BY <1>0, <2>1 DEF Control
  <2>3. Memory' = Ids(stream \o batch) \cup Ids(<<>>) \cup Ids(pending)
    BY <2>1, MemoryNext
  <2>4. Memory \subseteq Memory'
    BY <1>0, <2>3, IdsConcat DEF Memory
  <2> QED
    BY <2>1, <2>2, <2>4, SavedSame, AccountedGrows DEF Offline
<1>6. CASE FlushAppendFails \/ FlushForceFails \/ RotateCheckpointFails
  <2>1. /\ FlushThrows /\ flush.pc # "idle" /\ UNCHANGED <<archives, stream>>
    BY <1>6 DEF FlushAppendFails, FlushForceFails, RotateCheckpointFails,
       PersistCheckpoint,
       PersistCheckpointFails, diskVars, AW!AppendBatchFails, AW!ForceFlushFails, AW!ForceFlush,
         AW!ghostVars
  <2> QED
    BY <2>1, ThrowsKeeps
<1>7. CASE FlushForce \/ RotateSeal \/ RotateClose \/ RotateCheckpoint
  <2>1. /\ flush.pc # "idle" /\ UNCHANGED <<life, stream, batch, pending, archives,
                                            expired, submitted, crashed>>
    BY <1>7 DEF FlushForce, RotateSeal, RotateClose, RotateCheckpoint, PersistCheckpoint,
       diskVars, ghostVars,
       queueVars, writerVars, AW!ForceFlush, AW!FlushTail, AW!Close
  <2>2. life \in {"up", "stopping", "gate"}
    BY <1>0, <2>1 DEF Control
  <2> QED
    BY <2>1, <2>2, AccountedQuiet DEF Offline
<1>8. CASE StopTail \/ StopCheckpoint \/ StopClose \/ StopFails \/ StartCheckpoint
  <2>1. /\ life \notin {"down", "recover"} /\ life' \notin {"down", "recover"}
        /\ UNCHANGED <<stream, batch, pending, archives, expired, submitted, crashed>>
    BY <1>8, NoSuchFault DEF StopTail, StopCheckpoint, StopClose, StopFails,
       StartCheckpoint,
       PersistCheckpoint, PersistCheckpointFails, diskVars, ghostVars,
       queueVars, writerVars, AW!ForceFlush, AW!FlushTail, AW!Close
  <2> QED
    BY <2>1, AccountedQuiet DEF Offline
<1>9. CASE RotateRename
  <2>1. flush.pc = "rename" /\ UNCHANGED <<life, batch, pending, submitted, crashed>>
    BY <1>9 DEF RotateRename, queueVars, ghostVars
  <2>2. life \in {"up", "stopping", "gate"} /\ ~file_open
    BY <1>0, <2>1 DEF Control
  <2>3. present
    BY <2>1, <2>2 DEF ReadyInv, Attached
  <2>4. Saved \cup Ids(file) \subseteq Saved' /\ stream' = <<>>
    BY <1>0, <1>9, <2>3, RenameSaves DEF RotateRename, AW!RenameAway, ghostVars
  <2>5. Ids(stream) \subseteq Ids(file)
    BY <1>0, <2>2, StreamStored
  <2>6. Memory' = Ids(<<>>) \cup Ids(batch) \cup Ids(pending)
    BY <2>1, <2>4, MemoryNext
  <2>7. Memory \subseteq Memory' \cup Saved'
    BY <2>4, <2>5, <2>6 DEF Memory
  <2> QED
    BY <2>1, <2>2, <2>4, <2>7, AccountedGrows DEF Offline
<1>10. CASE RotateReopen
  <2>1. /\ flush.pc = "reopen" /\ stream' = <<>>
        /\ UNCHANGED <<life, batch, pending, archives, expired, submitted, crashed>>
    BY <1>10 DEF RotateReopen, AW!Start, queueVars, diskVars, ghostVars
  <2>2. life \in {"up", "stopping", "gate"} /\ stream = <<>>
    BY <1>0, <2>1 DEF Control, ReadyInv
  <2> QED
    BY <2>1, <2>2, AccountedQuiet DEF Offline
<1>11. CASE RotateCloseFails \/ RotateRenameFails \/ RotateCleanupFails \/ RotateReopenFails
  BY <1>11, NoSuchFault DEF RotateCloseFails, RotateRenameFails, RotateCleanupFails,
     RotateReopenFails
<1>12. CASE StartOpen
  <2>1. /\ life \in {"down", "stopped"} /\ sessions < MaxSessions
        /\ UNCHANGED <<archives, expired, submitted, crashed>>
        /\ ~TruncateOnStart => file' = file /\ life' = "recover"
    BY <1>12 DEF StartOpen, AW!Start, diskVars
  <2>2. CASE MaxSessions = 1
    <3>1. submitted' = 0
      BY <1>0, <2>1, <2>2 DEF Counted
    <3>2. 1..submitted' = {}
      BY <3>1
    <3> QED
      BY <3>2 DEF Accounted
  <2>3. CASE "write" \notin Faults /\ ~TruncateOnStart
    <3>1. Given \subseteq Ids(file)
      <4>1. CASE life = "down"
        BY <4>1 DEF Given, Offline
      <4>2. CASE life = "stopped"
        <5>1. pending = <<>> /\ batch = <<>> /\ ~file_open
          BY <1>0, <2>3, <4>2 DEF Drained, Control
        <5>2. Ids(stream) \subseteq Ids(file)
          BY <1>0, <5>1, StreamStored
        <5> QED
          BY <4>2, <5>1, <5>2, IdsEmpty DEF Given, Offline
      <4> QED
        BY <2>1, <4>1, <4>2
    <3>2. Given' = Ids(file)
      BY <2>1, <2>3 DEF Given, Offline, Ids, IsRecord
    <3> QED
      BY <2>1, <3>1, <3>2, SavedSame DEF Accounted
  <2> QED
    BY <2>2, <2>3 DEF Accounted, OneRun
<1>13. CASE Recover
  <2>1. /\ UNCHANGED <<archives, expired, submitted, crashed>> /\ life = "recover"
        /\ life' \in {"start_checkpoint", "up"}
    BY <1>13 DEF Recover, diskVars
  <2> QED
    BY <1>13, <2>1, RecoverKeeps, SavedSame DEF Accounted, Given, Offline
<1>14. CASE Crash \/ AppendToNoFile \/ CrashInAppend
  BY <1>14 DEF Crash, AppendToNoFile, CrashInAppend, ProcessDies, Accounted
<1>15. CASE RotateCleanup
  <2>1. flush.pc = "cleanup"
        /\ UNCHANGED <<writerVars, life, batch, pending, submitted, crashed>>
    BY <1>15 DEF RotateCleanup, queueVars
  <2>2. life \in {"up", "stopping", "gate"} /\ stream' = stream
    BY <1>0, <2>1 DEF Control, writerVars
  <2>3. Saved \subseteq Saved' /\ Memory' = Memory
    BY <1>0, <1>15, <2>1, <2>2, CleanupSaves DEF Memory, Ids, IsRecord
  <2> QED
    BY <2>1, <2>2, <2>3, AccountedGrows DEF Offline
<1> QED
  BY <1>1, <1>2, <1>3, <1>4, <1>5, <1>6, <1>7, <1>8, <1>9, <1>10, <1>11, <1>12, <1>13,
     <1>14, <1>15
     DEF Next, Task, FlushStep, FlushFails, StopStep, StartStep

-----------------------------------------------------------------------------
(* The invariant of this module, next to IndInv.                            *)
DurableInv == Writer /\ ReadyInv /\ Counted /\ Drained /\ Kept /\ Accounted

(* An empty directory.                                                      *)
LEMMA DurableStart ==
  ASSUME Init
  PROVE  DurableInv
<1>1. Writer
  <2>1. AWP!Init
    BY DEF Init, AW!Init, AWP!Init
  <2> QED
    BY <2>1, WriterOptions, AWP!InitInv DEF Writer
<1>2. ReadyInv
  BY DEF Init, AW!Init, Idle, ReadyInv, Attached
<1>3. Counted /\ Drained
  BY DEF Init, Counted, Drained
<1>4. Kept
  BY DEF Init, Kept
<1>5. Accounted
  <2>1. 1..submitted = {}
    BY DEF Init
  <2> QED
    BY <2>1 DEF Accounted
<1> QED
  BY <1>1, <1>2, <1>3, <1>4, <1>5 DEF DurableInv

(* Every step preserves it.                                                 *)
LEMMA DurableStep ==
  ASSUME Reliable, IndInv, IndInv', DurableInv, [Next]_vars
  PROVE  DurableInv'
<1>1. CASE Next
  <2>1. Writer' /\ ReadyInv'
    BY <1>1, WriterStep, ReadyStep DEF DurableInv
  <2>2. Counted' /\ Drained'
    BY <1>1, CountedStep, DrainedStep DEF DurableInv
  <2>3. Kept' /\ Accounted'
    BY <1>1, <2>1, KeptStep, AccountedStep DEF DurableInv
  <2> QED
    BY <2>1, <2>2, <2>3 DEF DurableInv
<1>2. CASE UNCHANGED vars
  <2>1. UNCHANGED <<writerVars, life, flush, pending, batch, archives, expired,
                    committed, submitted,
                    crashed, sessions, acked, held>>
    BY <1>2 DEF vars, queueVars, diskVars, ghostVars
  <2>2. Writer'
    BY <2>1, WriterOps DEF DurableInv
  <2>3. ReadyInv'
    BY <2>1, ReadyKept DEF DurableInv, writerVars, Appending, Attached
  <2>4. Counted' /\ Drained'
    BY <2>1 DEF DurableInv, Counted, Drained
  <2>5. Kept'
    BY <2>1 DEF DurableInv, Kept, Saved, ArchivedIds, Stored, Reported, Offline, Ids,
       IsRecord, writerVars
  <2>6. Accounted'
    BY <2>1 DEF DurableInv, Accounted, Saved, ArchivedIds, Given, Offline, Ids, IsRecord,
       writerVars
  <2> QED
    BY <2>2, <2>3, <2>4, <2>5, <2>6 DEF DurableInv
<1> QED
  BY <1>1, <1>2

-----------------------------------------------------------------------------
(* Every state of a reliable shard satisfies the invariant.                 *)
THEOREM Durability == Reliable => (Spec => []DurableInv)
<1> SUFFICES ASSUME Reliable PROVE Spec => []DurableInv
  OBVIOUS
<1>1. Init => DurableInv
  BY DurableStart
<1>2. IndInv /\ IndInv' /\ DurableInv /\ [Next]_vars => DurableInv'
  BY DurableStep
<1> QED
  BY <1>1, <1>2, Invariance, PTL DEF Spec

(* The invariants imply the properties.                                     *)
LEMMA DurableParts ==
  ASSUME IndInv, DurableInv
  PROVE  /\ WriterReady
         /\ ~TruncateOnStart => CommittedKept
         /\ OneRun => NothingLost
         /\ "write" \notin Faults /\ OneRun => StopKeepsAcked
<1>0. Control /\ Writer /\ ~misused
  BY DEF IndInv, DurableInv, ReadyInv
<1>1. Durable = Saved \cup Ids(file)
  BY DEF Durable, Saved
<1>2. WriterReady
  <2>1. flush.pc = "append" => life \in {"up", "stopping", "gate"}
    BY <1>0 DEF Control
  <2> QED
    BY <2>1 DEF WriterReady, DurableInv, ReadyInv
<1>3. ASSUME ~TruncateOnStart
      PROVE  CommittedKept
  <2>1. Stored \subseteq Ids(file)
    BY <1>0, ReportedStored DEF Stored
  <2> QED
    BY <1>1, <1>3, <2>1 DEF CommittedKept, DurableInv, Kept
<1>4. ASSUME OneRun
      PROVE  NothingLost
  <2>1. Given \subseteq Ids(file) \cup Ids(tail) \cup Ids(batch) \cup Ids(pending)
    BY <1>0, StreamStored DEF Given
  <2> QED
    BY <1>1, <1>4, <2>1 DEF NothingLost, DurableInv, Accounted
<1>5. ASSUME "write" \notin Faults, OneRun
      PROVE  StopKeepsAcked
  <2> SUFFICES ASSUME life = "stopped", ~crashed
               PROVE  acked \subseteq Durable
    BY DEF StopKeepsAcked
  <2>1. pending = <<>> /\ batch = <<>> /\ ~file_open
    BY <1>0, <1>5 DEF Control, DurableInv, Drained
  <2>2. Ids(stream) \subseteq Ids(file)
    BY <1>0, <2>1, StreamStored
  <2>3. Given \subseteq Ids(file)
    BY <2>1, <2>2, IdsEmpty DEF Given, Offline
  <2>4. acked \subseteq 1..submitted /\ 1..submitted \subseteq Saved \cup Given
    BY <1>5 DEF DurableInv, Counted, Accounted
  <2> QED
    BY <1>1, <2>3, <2>4
<1> QED
  BY <1>2, <1>3, <1>4, <1>5

(* If no step of a rotation fails, a flush hands its batch to a writer that *)
(* has the file open and writes where the segment ends, whichever writes,   *)
(* checkpoints and sidecar reads fail and whenever the process dies: what   *)
(* AppendWriter's guarantees ask of their caller.                           *)
THEOREM BatchMeetsReadyWriter == Reliable => (Spec => []WriterReady)
<1> SUFFICES ASSUME Reliable PROVE Spec => []WriterReady
  OBVIOUS
<1>1. IndInv /\ DurableInv => WriterReady
  BY DurableParts
<1> QED
  BY <1>1, Invariance, Durability, PTL

(* If no step of a rotation fails and start keeps the file, a record that a *)
(* forced flush reported written is on disk from then on, until its archive *)
(* is removed: through failed writes, crashes in the middle of one,         *)
(* restarts, recoveries with or without a sidecar, and rotations.           *)
THEOREM FlushedStaysFlushed == Reliable /\ ~TruncateOnStart => (Spec => []CommittedKept)
<1> SUFFICES ASSUME Reliable, ~TruncateOnStart PROVE Spec => []CommittedKept
  OBVIOUS
<1>1. IndInv /\ DurableInv => CommittedKept
  BY DurableParts
<1> QED
  BY <1>1, Invariance, Durability, PTL

(* If no step of a rotation fails, every accepted record is on disk, in the *)
(* tail, in the batch or in the queue as long as the process lives: in one  *)
(* run of the engine whatever else fails, over several runs if writes do    *)
(* not fail and start keeps the file.                                       *)
THEOREM NoRecordLost == Reliable /\ OneRun => (Spec => []NothingLost)
<1> SUFFICES ASSUME Reliable, OneRun PROVE Spec => []NothingLost
  OBVIOUS
<1>1. IndInv /\ DurableInv => NothingLost
  BY DurableParts
<1> QED
  BY <1>1, Invariance, Durability, PTL

(* If neither a write nor a step of a rotation fails, every record whose    *)
(* submit returned is on disk when stop returns. (With a failing write the  *)
(* batch of another task's flush goes back to the queue after stop has      *)
(* looked at it.)                                                           *)
THEOREM CleanStopKeepsAll ==
  Reliable /\ OneRun /\ "write" \notin Faults => (Spec => []StopKeepsAcked)
<1> SUFFICES ASSUME Reliable, OneRun, "write" \notin Faults PROVE Spec => []StopKeepsAcked
  OBVIOUS
<1>1. IndInv /\ DurableInv => StopKeepsAcked
  BY DurableParts
<1> QED
  BY <1>1, Invariance, Durability, PTL

-----------------------------------------------------------------------------
(* Induction over the naturals, for a set: the least number outside would   *)
(* have a predecessor inside.                                               *)
LEMMA Inductive ==
  ASSUME NEW S, 0 \in S, \A n \in Nat : n \in S => n + 1 \in S
  PROVE  Nat \subseteq S
<1> SUFFICES ASSUME Nat \ S # {} PROVE FALSE
  OBVIOUS
<1>1. IsWellFoundedOn(Less, Nat)
  <2>1. OpToRel(<, Nat) = Less
    BY DEF OpToRel, Less
  <2> QED
    BY <2>1, NatLessThanWellFounded
<1>2. PICK x \in Nat \ S : \A y \in Nat \ S : ~(<<y, x>> \in Less)
  <2> DEFINE T == Nat \ S
  <2>1. T \in SUBSET Nat /\ T # {}
    OBVIOUS
  <2> HIDE DEF T
  <2>2. \E x \in T : \A y \in T : ~(<<y, x>> \in Less)
    BY <1>1, <2>1, WFMin
  <2> QED
    BY <2>2 DEF T
<1>3. x # 0 /\ x - 1 \in Nat /\ x - 1 < x
  OBVIOUS
<1>4. <<x - 1, x>> \in Less
  BY <1>3 DEF Less
<1>5. x - 1 \in S
  BY <1>2, <1>3, <1>4
<1> QED
  BY <1>3, <1>5

(* A sequence of records in the order they were accepted, each once.        *)
Ordered(s) == s \in Seq(Record) /\ \A i, j \in DOMAIN s : i < j => s[i].id < s[j].id

(* Its records.                                                             *)
Members(s) == {s[i] : i \in DOMAIN s}

(* The records among some cells.                                            *)
Records(cells) == {cells[i] : i \in {j \in DOMAIN cells : IsRecord(cells[j])}}

(* What is in it, in either form.                                           *)
LEMMA MembersOf ==
  ASSUME NEW s
  PROVE  \A x : x \in Members(s) <=> \E i \in DOMAIN s : x = s[i]
BY DEF Members

(* ... and among cells.                                                     *)
LEMMA RecordsMember ==
  ASSUME NEW cells
  PROVE  \A x : x \in Records(cells) <=> \E i \in DOMAIN cells : IsRecord(cells[i]) /\ x = cells[i]
BY DEF Records

(* In such a sequence a record has one place, and an earlier identity an    *)
(* earlier place.                                                           *)
LEMMA OrderedPlaces ==
  ASSUME NEW s, Ordered(s), NEW i \in DOMAIN s, NEW j \in DOMAIN s
  PROVE  /\ s[i].id \in Nat /\ s[i] \in Record /\ i \in Nat
         /\ s[i].id = s[j].id => i = j
         /\ s[i].id < s[j].id => i < j
<1>1. s \in Seq(Record) /\ i \in Nat /\ j \in Nat /\ s[i] \in Record /\ s[j] \in Record
  BY DEF Ordered
<1>2. s[i].id \in Nat /\ s[j].id \in Nat
  BY <1>1 DEF Record
<1>3. /\ i < j => s[i].id < s[j].id
      /\ j < i => s[j].id < s[i].id
  BY DEF Ordered
<1> QED
  BY <1>1, <1>2, <1>3

(* An ordered sequence whose records are the first of another one's is a    *)
(* prefix of it.                                                            *)
LEMMA OrderedPrefix ==
  ASSUME NEW a, NEW s, Ordered(a), Ordered(s), Members(a) \subseteq Members(s),
         \A x \in Members(a) : \A y \in Members(s) : y.id < x.id => y \in Members(a)
  PROVE  Len(a) <= Len(s) /\ \A i \in DOMAIN a : i \in DOMAIN s /\ a[i] = s[i]
<1>1. /\ a \in Seq(Record) /\ s \in Seq(Record) /\ Len(a) \in Nat /\ Len(s) \in Nat
      /\ DOMAIN a = 1..Len(a) /\ DOMAIN s = 1..Len(s)
  BY DEF Ordered
<1> DEFINE S == {n \in Nat : \A i \in DOMAIN a : i <= n => i \in DOMAIN s /\ a[i] = s[i]}
<1>2. 0 \in S
  BY <1>1
<1>3. ASSUME NEW n \in Nat, n \in S
      PROVE  n + 1 \in S
  <2>1. \A i \in DOMAIN a : i <= n => i \in DOMAIN s /\ a[i] = s[i]
    BY <1>3
  <2>2. ASSUME n + 1 \in DOMAIN a
        PROVE  n + 1 \in DOMAIN s /\ a[n + 1] = s[n + 1]
    <3> DEFINE x == a[n + 1]
    <3>1. x \in Members(a) /\ x \in Members(s)
      BY <2>2, MembersOf
    <3>2. PICK k \in DOMAIN s : x = s[k]
      BY <3>1, MembersOf
    <3>3. k \in Nat /\ n + 1 \in Nat
      BY <1>1
    <3>4. ~(k <= n)
      <4> SUFFICES ASSUME k <= n PROVE FALSE
        OBVIOUS
      <4>1. k \in DOMAIN a
        BY <1>1, <2>2, <3>3
      <4>2. a[k] = s[k]
        BY <2>1, <4>1
      <4>3. a[k].id = a[n + 1].id
        BY <3>2, <4>2
      <4>4. k = n + 1
        BY <2>2, <4>1, <4>3, OrderedPlaces
      <4> QED
        BY <3>3, <4>4
    <3>5. n + 1 \in DOMAIN s
      BY <1>1, <2>2, <3>3, <3>4
    <3>6. ~(k > n + 1)
      <4> SUFFICES ASSUME k > n + 1 PROVE FALSE
        OBVIOUS
      <4>1. s[n + 1].id < x.id
        BY <3>2, <3>3, <3>5 DEF Ordered
      <4>2. s[n + 1] \in Members(a)
        BY <3>1, <3>5, <4>1, MembersOf
      <4>3. PICK p \in DOMAIN a : s[n + 1] = a[p]
        BY <4>2, MembersOf
      <4>4. p < n + 1 /\ p \in Nat
        BY <1>1, <2>2, <4>1, <4>3, OrderedPlaces
      <4>5. a[p] = s[p] /\ p \in DOMAIN s
        BY <2>1, <4>4
      <4>6. s[p].id = s[n + 1].id
        BY <4>3, <4>5
      <4>7. p = n + 1
        BY <3>5, <4>5, <4>6, OrderedPlaces
      <4> QED
        BY <4>4, <4>7
    <3>7. k = n + 1
      BY <3>3, <3>4, <3>6
    <3> QED
      BY <3>2, <3>7
  <2>3. \A i \in DOMAIN a : i <= n + 1 => i <= n \/ i = n + 1
    BY <1>1
  <2> QED
    BY <2>1, <2>2, <2>3
<1>4. Nat \subseteq S
  <2> HIDE DEF S
  <2> QED
    BY <1>2, <1>3, Inductive
<1>5. \A i \in DOMAIN a : i \in DOMAIN s /\ a[i] = s[i]
  <2> SUFFICES ASSUME NEW i \in DOMAIN a PROVE i \in DOMAIN s /\ a[i] = s[i]
    OBVIOUS
  <2>1. i \in S /\ i <= i
    BY <1>1, <1>4
  <2> QED
    BY <2>1
<1>6. Len(a) <= Len(s)
  <2>1. CASE Len(a) = 0
    BY <1>1, <2>1
  <2>2. CASE Len(a) # 0
    <3>1. Len(a) \in DOMAIN a
      BY <1>1, <2>2
    <3>2. Len(a) \in DOMAIN s
      BY <1>5, <3>1
    <3> QED
      BY <1>1, <3>2
  <2> QED
    BY <2>1, <2>2
<1> QED
  BY <1>5, <1>6

(* So it is determined by its records.                                      *)
LEMMA OrderedSame ==
  ASSUME NEW a, NEW s, Ordered(a), Ordered(s), Members(a) = Members(s)
  PROVE  a = s
<1>1. Len(a) <= Len(s) /\ \A i \in DOMAIN a : i \in DOMAIN s /\ a[i] = s[i]
  BY OrderedPrefix
<1>2. Len(s) <= Len(a)
  BY OrderedPrefix
<1>3. a \in Seq(Record) /\ s \in Seq(Record)
  BY DEF Ordered
<1>4. Len(a) = Len(s)
  BY <1>1, <1>2, <1>3
<1> QED
  BY <1>1, <1>3, <1>4

(* A part of an ordered sequence.                                           *)
LEMMA OrderedPart ==
  ASSUME NEW s, Ordered(s), NEW n \in 0..Len(s)
  PROVE  /\ Ordered(SubSeq(s, 1, n)) /\ Ordered(SubSeq(s, n + 1, Len(s)))
         /\ Len(SubSeq(s, 1, n)) = n
         /\ \A x : x \in Members(SubSeq(s, 1, n)) <=> \E i \in DOMAIN s : i <= n /\ x = s[i]
         /\ \A x : x \in Members(SubSeq(s, n + 1, Len(s))) <=>
              \E i \in DOMAIN s : i > n /\ x = s[i]
<1>1. s \in Seq(Record) /\ Len(s) \in Nat /\ n \in Nat /\ n <= Len(s)
      /\ DOMAIN s = 1..Len(s) /\ \A i, j \in DOMAIN s : i < j => s[i].id < s[j].id
  BY DEF Ordered
<1> DEFINE a == SubSeq(s, 1, n)
           b == SubSeq(s, n + 1, Len(s))
<1>2. /\ a \in Seq(Record) /\ Len(a) = n /\ DOMAIN a = 1..n
      /\ \A i \in 1..n : a[i] = s[i]
  BY <1>1
<1>3. /\ b \in Seq(Record) /\ Len(b) = Len(s) - n /\ DOMAIN b = 1..(Len(s) - n)
      /\ \A i \in 1..(Len(s) - n) : b[i] = s[n + i]
  <2>1. n + 1 \in 1..(Len(s) + 1) /\ \A i \in (n + 1)..Len(s) : s[i] \in Record
    BY <1>1
  <2>2. /\ b \in Seq(Record) /\ Len(b) = IF n + 1 <= Len(s) THEN Len(s) - (n + 1) + 1 ELSE 0
        /\ \A i \in 1..(Len(s) - (n + 1) + 1) : b[i] = s[n + 1 + i - 1]
    BY ONLY <1>1, <2>1, SubSeqProperties
  <2> HIDE DEF b
  <2>3. Len(b) = Len(s) - n
    <3>1. /\ Len(s) \in Nat /\ n \in Nat /\ n <= Len(s)
          /\ Len(b) = IF n + 1 <= Len(s) THEN Len(s) - (n + 1) + 1 ELSE 0
      BY <1>1, <2>2
    <3> QED
      BY ONLY <3>1
  <2>4. ASSUME NEW i \in 1..(Len(s) - n)
        PROVE  b[i] = s[n + i]
    <3>1. i \in 1..(Len(s) - (n + 1) + 1) /\ n + 1 + i - 1 = n + i
      BY <1>1
    <3> QED
      BY <2>2, <3>1
  <2> QED
    BY <2>2, <2>3, <2>4
<1> HIDE DEF a, b
<1>4. Ordered(a)
  BY <1>1, <1>2 DEF Ordered
<1>5. Ordered(b)
  <2> SUFFICES ASSUME NEW i \in DOMAIN b, NEW j \in DOMAIN b, i < j PROVE b[i].id < b[j].id
    BY <1>3 DEF Ordered
  <2>1. n + i \in DOMAIN s /\ n + j \in DOMAIN s /\ n + i < n + j
    BY <1>1, <1>3
  <2>2. b[i] = s[n + i] /\ b[j] = s[n + j]
    BY <1>3
  <2> QED
    BY <1>1, <2>1, <2>2
<1>6. ASSUME NEW x
      PROVE  x \in Members(a) <=> \E i \in DOMAIN s : i <= n /\ x = s[i]
  <2>1. \A i \in DOMAIN s : i <= n <=> i \in DOMAIN a
    BY <1>1, <1>2
  <2>2. \A i \in DOMAIN a : i \in DOMAIN s
    BY <1>1, <1>2
  <2> QED
    BY <1>2, <2>1, <2>2, MembersOf
<1>7. ASSUME NEW x
      PROVE  x \in Members(b) <=> \E i \in DOMAIN s : i > n /\ x = s[i]
  <2>1. ASSUME NEW i \in DOMAIN s, i > n
        PROVE  i - n \in DOMAIN b /\ b[i - n] = s[i]
    <3>1. i - n \in 1..(Len(s) - n) /\ n + (i - n) = i
      BY <1>1, <2>1
    <3> QED
      BY <1>3, <3>1
  <2>2. ASSUME NEW i \in DOMAIN b
        PROVE  n + i \in DOMAIN s /\ n + i > n /\ b[i] = s[n + i]
    BY <1>1, <1>3
  <2> QED
    BY <2>1, <2>2, MembersOf
<1> QED
  BY <1>2, <1>4, <1>5, <1>6, <1>7 DEF a, b

(* One ordered sequence after another.                                      *)
LEMMA OrderedConcat ==
  ASSUME NEW a, NEW b, Ordered(a), Ordered(b),
         \A x \in Members(a) : \A y \in Members(b) : x.id < y.id
  PROVE  Ordered(a \o b) /\ Members(a \o b) = Members(a) \cup Members(b)
<1>1. /\ a \in Seq(Record) /\ b \in Seq(Record) /\ Len(a) \in Nat /\ Len(b) \in Nat
      /\ DOMAIN a = 1..Len(a) /\ DOMAIN b = 1..Len(b)
  BY DEF Ordered
<1> DEFINE c == a \o b
<1>2. /\ c \in Seq(Record) /\ DOMAIN c = 1..(Len(a) + Len(b))
      /\ \A i \in DOMAIN a : i \in DOMAIN c /\ c[i] = a[i]
      /\ \A i \in DOMAIN b : Len(a) + i \in DOMAIN c /\ c[Len(a) + i] = b[i]
  BY <1>1
<1> HIDE DEF c
<1>3. ASSUME NEW i \in DOMAIN c
      PROVE  \/ i \in DOMAIN a /\ c[i] = a[i]
             \/ i > Len(a) /\ i - Len(a) \in DOMAIN b /\ c[i] = b[i - Len(a)]
  <2>1. CASE i <= Len(a)
    BY <1>1, <1>2, <2>1
  <2>2. CASE i > Len(a)
    <3>1. i - Len(a) \in DOMAIN b /\ Len(a) + (i - Len(a)) = i
      BY <1>1, <1>2, <2>2
    <3> QED
      BY <1>2, <2>2, <3>1
  <2> QED
    BY <1>1, <1>2, <2>1, <2>2
<1>4. Members(c) = Members(a) \cup Members(b)
  <2>1. ASSUME NEW x \in Members(c)
        PROVE  x \in Members(a) \cup Members(b)
    <3>1. PICK i \in DOMAIN c : x = c[i]
      BY MembersOf
    <3> QED
      BY <1>3, <3>1, MembersOf
  <2>2. ASSUME NEW x \in Members(a) \cup Members(b)
        PROVE  x \in Members(c)
    BY <1>2, MembersOf
  <2> QED
    BY <2>1, <2>2
<1>5. ASSUME NEW i \in DOMAIN c, NEW j \in DOMAIN c, i < j
      PROVE  c[i].id < c[j].id
  <2>1. CASE j \in DOMAIN a /\ c[j] = a[j]
    <3>1. i \in DOMAIN a /\ c[i] = a[i]
      BY <1>1, <1>2, <1>5, <2>1
    <3> QED
      BY <1>5, <2>1, <3>1 DEF Ordered
  <2>2. CASE j > Len(a) /\ j - Len(a) \in DOMAIN b /\ c[j] = b[j - Len(a)]
    <3>1. CASE i \in DOMAIN a /\ c[i] = a[i]
      BY <2>2, <3>1, MembersOf
    <3>2. CASE i > Len(a) /\ i - Len(a) \in DOMAIN b /\ c[i] = b[i - Len(a)]
      <4>1. i - Len(a) < j - Len(a)
        BY <1>1, <1>2, <1>5
      <4> QED
        BY <2>2, <3>2, <4>1 DEF Ordered
    <3> QED
      BY <1>3, <3>1, <3>2
  <2> QED
    BY <1>3, <2>1, <2>2
<1> QED
  BY <1>2, <1>4, <1>5 DEF Ordered, c

(* The oldest records of an ordered sequence are a prefix of it.            *)
LEMMA OrderedCut ==
  ASSUME NEW s, Ordered(s), NEW P, P \subseteq Members(s),
         \A x \in P : \A y \in Members(s) : y.id < x.id => y \in P
  PROVE  \E n \in 0..Len(s) : /\ Members(SubSeq(s, 1, n)) = P
                              /\ Members(SubSeq(s, n + 1, Len(s))) = Members(s) \ P
<1>1. s \in Seq(Record) /\ Len(s) \in Nat /\ DOMAIN s = 1..Len(s)
  BY DEF Ordered
<1> DEFINE S == {i \in 1..Len(s) : s[i] \in P}
<1>2. \E n \in 0..Len(s) : \A i \in DOMAIN s : i <= n <=> s[i] \in P
  <2>1. CASE S = {}
    <3>1. \A i \in DOMAIN s : ~(i <= 0) /\ s[i] \notin P
      BY <1>1, <2>1
    <3> QED
      BY <1>1, <3>1
  <2>2. CASE S # {}
    <3>1. PICK n \in S : \A i \in S : i <= n
      <4>1. S \in SUBSET (1..Len(s))
        OBVIOUS
      <4> HIDE DEF S
      <4> QED
        BY <1>1, <2>2, <4>1, LargestPosition
    <3>2. n \in 0..Len(s) /\ n \in DOMAIN s /\ s[n] \in P
      BY <1>1
    <3>3. ASSUME NEW i \in DOMAIN s
          PROVE  i <= n <=> s[i] \in P
      <4>1. i < n => s[i].id < s[n].id
        BY <3>2 DEF Ordered
      <4>2. s[i] \in Members(s)
        BY MembersOf
      <4>3. i < n => s[i] \in P
        BY <3>2, <4>1, <4>2
      <4> QED
        BY <1>1, <3>1, <3>2, <4>3
    <3> QED
      BY <3>2, <3>3
  <2> QED
    BY <2>1, <2>2
<1>3. PICK n \in 0..Len(s) : \A i \in DOMAIN s : i <= n <=> s[i] \in P
  BY <1>2
<1>4. Members(SubSeq(s, 1, n)) = P
  <2>1. \A x : x \in Members(SubSeq(s, 1, n)) <=> \E i \in DOMAIN s : i <= n /\ x = s[i]
    BY OrderedPart
  <2>2. \A x \in P : \E i \in DOMAIN s : x = s[i]
    BY MembersOf
  <2>3. \A x : x \in P <=> \E i \in DOMAIN s : i <= n /\ x = s[i]
    BY <1>3, <2>2
  <2> QED
    BY <2>1, <2>3
<1>5. Members(SubSeq(s, n + 1, Len(s))) = Members(s) \ P
  <2>1. \A x : x \in Members(SubSeq(s, n + 1, Len(s))) <=> \E i \in DOMAIN s : i > n /\ x = s[i]
    BY OrderedPart
  <2>2. \A i \in DOMAIN s : i > n <=> s[i] \notin P
    BY <1>1, <1>3
  <2> QED
    BY <2>1, <2>2, MembersOf
<1> QED
  BY <1>4, <1>5

-----------------------------------------------------------------------------
(* P is the oldest part of the queue q.                                     *)
Oldest(P, q) ==
  P \subseteq Members(q) /\ \A x \in P : \A y \in Members(q) : y.id < x.id => y \in P

(* The steps of ShardLog, for an ordered log and an ordered queue behind    *)
(* it: which records move says which step it is.  A flush or a crash moves  *)
(* the oldest of the queue to the log,                                      *)
LEMMA MovesOldest ==
  ASSUME NEW l, NEW q, NEW m, Ordered(l), Ordered(q), Ordered(m), NEW P,
         \A x \in Members(l) : \A y \in Members(q) : x.id < y.id,
         Oldest(P, q), Members(m) = Members(l) \cup P
  PROVE  \E n \in 0..Len(q) :
           /\ m = l \o SubSeq(q, 1, n)
           /\ \A r : Ordered(r) /\ Members(r) = Members(q) \ P => r = SubSeq(q, n + 1, Len(q))
<1>1. PICK n \in 0..Len(q) : /\ Members(SubSeq(q, 1, n)) = P
                             /\ Members(SubSeq(q, n + 1, Len(q))) = Members(q) \ P
  BY OrderedCut DEF Oldest
<1>2. Ordered(SubSeq(q, 1, n)) /\ Ordered(SubSeq(q, n + 1, Len(q)))
  BY OrderedPart
<1>3. Ordered(l \o SubSeq(q, 1, n)) /\ Members(l \o SubSeq(q, 1, n)) = Members(l) \cup P
  <2>1. P \subseteq Members(q)
    BY DEF Oldest
  <2>2. \A x \in Members(l) : \A y \in Members(SubSeq(q, 1, n)) : x.id < y.id
    BY <1>1, <2>1
  <2> QED
    BY <1>1, <1>2, <2>2, OrderedConcat
<1>4. m = l \o SubSeq(q, 1, n)
  BY <1>3, OrderedSame
<1>5. \A r : Ordered(r) /\ Members(r) = Members(q) \ P => r = SubSeq(q, n + 1, Len(q))
  BY <1>1, <1>2, OrderedSame
<1> QED
  BY <1>4, <1>5

(* a submit puts newer ones behind the queue,                               *)
LEMMA AddsNewest ==
  ASSUME NEW q, NEW r, Ordered(q), Ordered(r), NEW P, P # {},
         Members(r) = Members(q) \cup P, \A x \in Members(q) : \A y \in P : x.id < y.id
  PROVE  Len(r) > Len(q) /\ SubSeq(r, 1, Len(q)) = q
<1>1. /\ q \in Seq(Record) /\ r \in Seq(Record) /\ Len(q) \in Nat /\ Len(r) \in Nat
      /\ DOMAIN q = 1..Len(q) /\ DOMAIN r = 1..Len(r)
  BY DEF Ordered
<1>2. \A x \in Members(r) : x.id \in Nat
  BY OrderedPlaces, MembersOf
<1>3. \A x \in Members(q) : \A y \in Members(r) : y.id < x.id => y \in Members(q)
  <2> SUFFICES ASSUME NEW x \in Members(q), NEW y \in P, y.id < x.id PROVE FALSE
    OBVIOUS
  <2>1. x.id < y.id /\ x.id \in Nat /\ y.id \in Nat
    BY <1>2
  <2> QED
    BY <2>1
<1>4. Len(q) <= Len(r) /\ \A i \in DOMAIN q : i \in DOMAIN r /\ q[i] = r[i]
  BY <1>3, OrderedPrefix
<1>5. Len(q) # Len(r)
  <2> SUFFICES ASSUME Len(q) = Len(r) PROVE FALSE
    OBVIOUS
  <2>1. q = r
    BY <1>1, <1>4
  <2>2. PICK y \in P : TRUE
    OBVIOUS
  <2>3. y \in Members(q) /\ y.id < y.id /\ y.id \in Nat
    BY <1>2, <2>1
  <2> QED
    BY <2>3
<1>6. SubSeq(r, 1, Len(q)) = q
  <2>1. Ordered(SubSeq(r, 1, Len(q))) /\ Len(SubSeq(r, 1, Len(q))) = Len(q)
    BY <1>1, <1>4, OrderedPart
  <2>2. SubSeq(r, 1, Len(q)) \in Seq(Record)
    BY <2>1 DEF Ordered
  <2>3. \A i \in 1..Len(q) : SubSeq(r, 1, Len(q))[i] = r[i]
    BY <1>1, <1>4
  <2> QED
    BY <1>1, <1>4, <2>1, <2>2, <2>3
<1>7. Len(r) > Len(q)
  <2>1. Len(q) \in Nat /\ Len(r) \in Nat /\ Len(q) <= Len(r) /\ Len(q) # Len(r)
    BY <1>1, <1>4, <1>5
  <2> QED
    BY ONLY <2>1
<1> QED
  BY <1>6, <1>7

(* What is before and behind a block of a sequence.                         *)
Around(l, p, n) == {l[i] : i \in {j \in DOMAIN l : j <= p \/ j > n}}

(* and cleanup takes a block out of the log.                                *)
LEMMA BlockRemoved ==
  ASSUME NEW l, NEW m, Ordered(l), Ordered(m), NEW p \in 0..Len(l), NEW n \in p..Len(l),
         Members(m) = Around(l, p, n)
  PROVE  m = SubSeq(l, 1, p) \o SubSeq(l, n + 1, Len(l))
<1> DEFINE a == SubSeq(l, 1, p)
           b == SubSeq(l, n + 1, Len(l))
<1>1. Len(l) \in Nat /\ DOMAIN l = 1..Len(l) /\ n \in 0..Len(l)
  BY DEF Ordered
<1>2. /\ Ordered(a) /\ Ordered(b)
      /\ \A x : x \in Members(a) <=> \E i \in DOMAIN l : i <= p /\ x = l[i]
      /\ \A x : x \in Members(b) <=> \E i \in DOMAIN l : i > n /\ x = l[i]
  BY <1>1, OrderedPart
<1> HIDE DEF a, b
<1>3. ASSUME NEW x \in Members(a), NEW y \in Members(b)
      PROVE  x.id < y.id
  <2>1. PICK i \in DOMAIN l : i <= p /\ x = l[i]
    BY <1>2
  <2>2. PICK j \in DOMAIN l : j > n /\ y = l[j]
    BY <1>2
  <2>3. i < j
    BY <1>1, <2>1, <2>2
  <2> QED
    BY <2>1, <2>2, <2>3 DEF Ordered
<1>4. Ordered(a \o b) /\ Members(a \o b) = Members(a) \cup Members(b)
  BY <1>2, <1>3, OrderedConcat
<1>5. Members(m) = Members(a \o b)
  BY <1>2, <1>4 DEF Around
<1> QED
  BY <1>4, <1>5, OrderedSame DEF a, b

-----------------------------------------------------------------------------
(* RecordsOf and Joined recurse over a sequence: a function that satisfies  *)
(* the equation exists for each, by induction on the length,                *)
Picks(F, c, known, m) ==
  F = [n \in 0..m |->
        IF n = 0 THEN <<>>
        ELSE IF IsRecord(c[n]) /\ c[n].id \notin known
             THEN Append(F[n - 1], c[n])
             ELSE F[n - 1]]

(* The same for Joined.                                                     *)
Joins(F, s, m) == F = [n \in 0..m |-> IF n = 0 THEN <<>> ELSE F[n - 1] \o s[n]]

(* Such a function exists for every length.                                 *)
LEMMA PicksExists ==
  ASSUME NEW c, NEW known, NEW m \in Nat
  PROVE  \E F : Picks(F, c, known, m)
<1> DEFINE S == {k \in Nat : \E F : Picks(F, c, known, k)}
<1>1. 0 \in S
  <2> DEFINE G == [n \in 0..0 |-> <<>>]
  <2>1. Picks(G, c, known, 0)
    BY DEF Picks
  <2> QED
    BY <2>1
<1>2. ASSUME NEW k \in Nat, k \in S
      PROVE  k + 1 \in S
  <2>1. PICK F : Picks(F, c, known, k)
    BY <1>2
  <2> DEFINE next == IF IsRecord(c[k + 1]) /\ c[k + 1].id \notin known
                     THEN Append(F[k], c[k + 1]) ELSE F[k]
             G == [n \in 0..(k + 1) |-> IF n <= k THEN F[n] ELSE next]
  <2>2. \A n \in 0..k : F[n] = IF n = 0 THEN <<>>
                               ELSE IF IsRecord(c[n]) /\ c[n].id \notin known
                                    THEN Append(F[n - 1], c[n])
                                    ELSE F[n - 1]
    BY <2>1 DEF Picks
  <2>3. \A n \in 0..k : G[n] = F[n]
    OBVIOUS
  <2>4. G[k + 1] = next
    OBVIOUS
  <2>5. DOMAIN G = 0..(k + 1) /\ G = [n \in 0..(k + 1) |-> G[n]]
    OBVIOUS
  <2> HIDE DEF G, next
  <2>6. ASSUME NEW n \in 0..(k + 1)
        PROVE  G[n] = IF n = 0 THEN <<>>
                      ELSE IF IsRecord(c[n]) /\ c[n].id \notin known
                           THEN Append(G[n - 1], c[n])
                           ELSE G[n - 1]
    <3>1. CASE n <= k
      <4>1. n \in 0..k /\ (n # 0 => n - 1 \in 0..k)
        BY <3>1
      <4> QED
        BY <2>2, <2>3, <4>1
    <3>2. CASE n = k + 1
      <4>1. n # 0 /\ n - 1 = k /\ G[k] = F[k]
        BY <2>3, <3>2
      <4> QED
        BY <2>4, <3>2, <4>1 DEF next
    <3> QED
      BY <3>1, <3>2
  <2>7. Picks(G, c, known, k + 1)
    BY <2>5, <2>6 DEF Picks
  <2> QED
    BY <2>7
<1> HIDE DEF S
<1>3. m \in S
  BY <1>1, <1>2, Inductive
<1> QED
  BY <1>3 DEF S

(* ... for segments too,                                                    *)
LEMMA JoinsExists ==
  ASSUME NEW s, NEW m \in Nat
  PROVE  \E F : Joins(F, s, m)
<1> DEFINE S == {k \in Nat : \E F : Joins(F, s, k)}
<1>1. 0 \in S
  <2> DEFINE G == [n \in 0..0 |-> <<>>]
  <2>1. Joins(G, s, 0)
    BY DEF Joins
  <2> QED
    BY <2>1
<1>2. ASSUME NEW k \in Nat, k \in S
      PROVE  k + 1 \in S
  <2>1. PICK F : Joins(F, s, k)
    BY <1>2
  <2> DEFINE next == F[k] \o s[k + 1]
             G == [n \in 0..(k + 1) |-> IF n <= k THEN F[n] ELSE next]
  <2>2. \A n \in 0..k : F[n] = IF n = 0 THEN <<>> ELSE F[n - 1] \o s[n]
    BY <2>1 DEF Joins
  <2>3. \A n \in 0..k : G[n] = F[n]
    OBVIOUS
  <2>4. G[k + 1] = next
    <3> HIDE DEF next
    <3> QED
      OBVIOUS
  <2>5. DOMAIN G = 0..(k + 1) /\ G = [n \in 0..(k + 1) |-> G[n]]
    OBVIOUS
  <2> HIDE DEF G, next
  <2>6. ASSUME NEW n \in 0..(k + 1)
        PROVE  G[n] = IF n = 0 THEN <<>> ELSE G[n - 1] \o s[n]
    <3>1. CASE n <= k
      <4>1. n \in 0..k /\ (n # 0 => n - 1 \in 0..k)
        BY <3>1
      <4> QED
        BY <2>2, <2>3, <4>1
    <3>2. CASE n = k + 1
      <4>1. n # 0 /\ n - 1 = k /\ G[k] = F[k]
        BY <2>3, <3>2
      <4> QED
        BY <2>4, <3>2, <4>1 DEF next
    <3> QED
      BY <3>1, <3>2
  <2>7. Joins(G, s, k + 1)
    BY <2>5, <2>6 DEF Joins
  <2> QED
    BY <2>7
<1> HIDE DEF S
<1>3. m \in S
  BY <1>1, <1>2, Inductive
<1> QED
  BY <1>3 DEF S

(* so each is such a function's last value.                                 *)
LEMMA RecordsOfIs ==
  ASSUME NEW c \in Seq(Cell), NEW known
  PROVE  \E F : Picks(F, c, known, Len(c)) /\ RecordsOf(c, known) = F[Len(c)]
<1> DEFINE first == CHOOSE F : Picks(F, c, known, Len(c))
<1>1. Picks(first, c, known, Len(c))
  <2>1. Len(c) \in Nat
    OBVIOUS
  <2> QED
    BY <2>1, PicksExists
<1>2. RecordsOf(c, known) = first[Len(c)]
  BY DEF RecordsOf, Picks
<1> QED
  BY <1>1, <1>2

(* ... and for Joined.                                                      *)
LEMMA JoinedIs ==
  ASSUME NEW s \in Seq(Seq(Cell))
  PROVE  \E F : Joins(F, s, Len(s)) /\ Joined(s) = F[Len(s)]
<1> DEFINE first == CHOOSE F : Joins(F, s, Len(s))
<1>1. Joins(first, s, Len(s))
  <2>1. Len(s) \in Nat
    OBVIOUS
  <2> QED
    BY <2>1, JoinsExists
<1>2. Joined(s) = first[Len(s)]
  BY DEF Joined, Joins
<1> QED
  BY <1>1, <1>2

(* The records among cells in order, without those already known.           *)
LEMMA RecordsOfCells ==
  ASSUME NEW c \in Seq(Cell), NEW known, Increasing("id", c)
  PROVE  /\ Ordered(RecordsOf(c, known))
         /\ \A x : x \in Members(RecordsOf(c, known)) <=>
              \E i \in DOMAIN c : IsRecord(c[i]) /\ c[i].id \notin known /\ x = c[i]
<1>1. PICK F : Picks(F, c, known, Len(c)) /\ RecordsOf(c, known) = F[Len(c)]
  BY RecordsOfIs
<1>2. Len(c) \in Nat /\ DOMAIN c = 1..Len(c) /\ \A i \in DOMAIN c : c[i] \in Cell
  OBVIOUS
<1>3. \A n \in 0..Len(c) : F[n] = IF n = 0 THEN <<>>
                                  ELSE IF IsRecord(c[n]) /\ c[n].id \notin known
                                       THEN Append(F[n - 1], c[n])
                                       ELSE F[n - 1]
  BY <1>1 DEF Picks
<1> DEFINE New(i) == IsRecord(c[i]) /\ c[i].id \notin known
           Good(n) == /\ Ordered(F[n])
                      /\ \A x : x \in Members(F[n]) <=>
                           \E i \in DOMAIN c : i <= n /\ New(i) /\ x = c[i]
           S == {n \in Nat : n <= Len(c) => Good(n)}
<1>4. 0 \in S
  <2>1. F[0] = <<>>
    BY <1>2, <1>3
  <2>2. Ordered(F[0])
    BY <2>1 DEF Ordered
  <2>3. \A x : x \notin Members(F[0])
    BY <2>1 DEF Members
  <2>4. \A i \in DOMAIN c : ~(i <= 0)
    BY <1>2
  <2> QED
    BY <2>2, <2>3, <2>4
<1>5. ASSUME NEW n \in Nat, n \in S
      PROVE  n + 1 \in S
  <2> SUFFICES ASSUME n + 1 <= Len(c) PROVE Good(n + 1)
    OBVIOUS
  <2>1. n + 1 \in DOMAIN c /\ n + 1 \in 0..Len(c) /\ n + 1 # 0 /\ (n + 1) - 1 = n /\ n <= Len(c)
    BY <1>2
  <2>2. Good(n)
    BY <1>5, <2>1
  <2>3. \A i \in DOMAIN c : i <= n + 1 <=> i <= n \/ i = n + 1
    BY <1>2
  <2>4. CASE ~New(n + 1)
    <3>1. F[n + 1] = F[n]
      BY <1>3, <2>1, <2>4
    <3>2. \A i \in DOMAIN c : i <= n + 1 /\ New(i) <=> i <= n /\ New(i)
      BY <2>3, <2>4
    <3> HIDE DEF New
    <3> QED
      BY <2>2, <3>1, <3>2
  <2>5. CASE New(n + 1)
    <3> DEFINE r == c[n + 1]
               q == F[n]
    <3>1. F[n + 1] = Append(q, r)
      BY <1>3, <2>1, <2>5
    <3>2. r \in Record
      BY <1>2, <2>1, <2>5, RecordKeys
    <3>3. q \in Seq(Record) /\ \A i, j \in DOMAIN q : i < j => q[i].id < q[j].id
      BY <2>2 DEF Ordered
    <3>4. \A x \in Members(q) : x.id < r.id
      <4> SUFFICES ASSUME NEW x \in Members(q) PROVE x.id < r.id
        OBVIOUS
      <4>1. PICK i \in DOMAIN c : i <= n /\ New(i) /\ x = c[i]
        BY <2>2
      <4>2. i < n + 1
        BY <1>2, <4>1
      <4> QED
        BY <2>1, <2>5, <4>1, <4>2 DEF Increasing
    <3> HIDE DEF q, r
    <3>5. /\ Append(q, r) \in Seq(Record) /\ DOMAIN Append(q, r) = 1..(Len(q) + 1)
          /\ DOMAIN q = 1..Len(q) /\ Len(q) \in Nat
          /\ \A i \in DOMAIN q : Append(q, r)[i] = q[i]
          /\ Append(q, r)[Len(q) + 1] = r
      BY <3>2, <3>3
    <3>6. Ordered(Append(q, r))
      <4> SUFFICES ASSUME NEW i \in DOMAIN Append(q, r), NEW j \in DOMAIN Append(q, r), i < j
                   PROVE  Append(q, r)[i].id < Append(q, r)[j].id
        BY <3>5 DEF Ordered
      <4>1. i \in DOMAIN q
        BY <3>5
      <4>2. CASE j \in DOMAIN q
        BY <3>3, <3>5, <4>1, <4>2
      <4>3. CASE j = Len(q) + 1
        <5>1. q[i].id < r.id
          BY <3>4, <4>1, MembersOf
        <5> QED
          BY <3>5, <4>1, <4>3, <5>1
      <4> QED
        BY <3>5, <4>2, <4>3
    <3>7. \A x : x \in Members(Append(q, r)) <=> x \in Members(q) \/ x = r
      <4>1. \A i \in DOMAIN Append(q, r) : i \in DOMAIN q \/ i = Len(q) + 1
        BY <3>5
      <4>2. Len(q) + 1 \in DOMAIN Append(q, r) /\ \A i \in DOMAIN q : i \in DOMAIN Append(q, r)
        BY <3>5
      <4>3. ASSUME NEW x \in Members(Append(q, r))
            PROVE  x \in Members(q) \/ x = r
        <5>1. PICK i \in DOMAIN Append(q, r) : x = Append(q, r)[i]
          BY MembersOf
        <5> QED
          BY <3>5, <4>1, <5>1, MembersOf
      <4>4. ASSUME NEW x \in Members(q)
            PROVE  x \in Members(Append(q, r))
        <5>1. PICK i \in DOMAIN q : x = q[i]
          BY MembersOf
        <5> QED
          BY <3>5, <4>2, <5>1, MembersOf
      <4>5. r \in Members(Append(q, r))
        BY <3>5, <4>2, MembersOf
      <4> QED
        BY <4>3, <4>4, <4>5
    <3>8. \A x : x \in Members(q) <=> \E i \in DOMAIN c : i <= n /\ New(i) /\ x = c[i]
      BY <2>2 DEF q
    <3> HIDE DEF New
    <3>9. \A x : x \in Members(Append(q, r)) <=>
             \E i \in DOMAIN c : i <= n + 1 /\ New(i) /\ x = c[i]
      BY <2>1, <2>3, <2>5, <3>7, <3>8 DEF r
    <3> QED
      BY <3>1, <3>6, <3>9
  <2> QED
    BY <2>4, <2>5
<1>6. Len(c) \in S
  <2> HIDE DEF S
  <2> QED
    BY <1>2, <1>4, <1>5, Inductive
<1>7. Good(Len(c)) /\ \A i \in DOMAIN c : i <= Len(c)
  BY <1>2, <1>6
<1> QED
  BY <1>1, <1>7

(* Segments in order give cells in order, and no others.                    *)
LEMMA JoinedCells ==
  ASSUME NEW s \in Seq(Seq(Cell)), \A a \in DOMAIN s : Increasing("id", s[a]),
         \A a, b \in DOMAIN s : a < b => AllBefore(s[a], s[b])
  PROVE  /\ Joined(s) \in Seq(Cell) /\ Increasing("id", Joined(s))
         /\ \A x : (\E i \in DOMAIN Joined(s) : x = Joined(s)[i])
                   <=> \E a \in DOMAIN s : \E i \in DOMAIN s[a] : x = s[a][i]
<1>1. PICK F : Joins(F, s, Len(s)) /\ Joined(s) = F[Len(s)]
  BY JoinedIs
<1>2. Len(s) \in Nat /\ DOMAIN s = 1..Len(s) /\ \A a \in DOMAIN s : s[a] \in Seq(Cell)
  OBVIOUS
<1>3. \A n \in 0..Len(s) : F[n] = IF n = 0 THEN <<>> ELSE F[n - 1] \o s[n]
  BY <1>1 DEF Joins
<1> DEFINE Good(n) == /\ F[n] \in Seq(Cell) /\ Increasing("id", F[n])
                      /\ \A x : (\E i \in DOMAIN F[n] : x = F[n][i])
                           <=> \E a \in DOMAIN s : a <= n /\ \E i \in DOMAIN s[a] : x = s[a][i]
           S == {n \in Nat : n <= Len(s) => Good(n)}
<1>4. 0 \in S
  <2>1. F[0] = <<>>
    BY <1>2, <1>3
  <2>2. F[0] \in Seq(Cell) /\ DOMAIN F[0] = {}
    BY <2>1
  <2>3. \A a \in DOMAIN s : ~(a <= 0)
    BY <1>2
  <2> QED
    BY <2>2, <2>3 DEF Increasing
<1>5. ASSUME NEW n \in Nat, n \in S
      PROVE  n + 1 \in S
  <2> SUFFICES ASSUME n + 1 <= Len(s) PROVE Good(n + 1)
    OBVIOUS
  <2>1. n + 1 \in DOMAIN s /\ n + 1 \in 0..Len(s) /\ n + 1 # 0 /\ (n + 1) - 1 = n /\ n <= Len(s)
    BY <1>2
  <2>2. Good(n)
    BY <1>5, <2>1
  <2> DEFINE p == F[n]
             t == s[n + 1]
             c == p \o t
  <2>3. F[n + 1] = c
    BY <1>3, <2>1
  <2>4. p \in Seq(Cell) /\ t \in Seq(Cell) /\ Increasing("id", p) /\ Increasing("id", t)
    BY <1>2, <2>1, <2>2
  <2>5. ASSUME NEW i \in DOMAIN p, NEW j \in DOMAIN t, IsRecord(p[i]), IsRecord(t[j])
        PROVE  p[i].id < t[j].id
    <3>1. PICK a \in DOMAIN s : a <= n /\ \E k \in DOMAIN s[a] : p[i] = s[a][k]
      BY <2>2, <2>5
    <3>2. a < n + 1
      BY <1>2, <3>1
    <3> QED
      BY <2>1, <2>5, <3>1, <3>2 DEF AllBefore
  <2>6. \A x : (\E i \in DOMAIN p : x = p[i])
               <=> \E a \in DOMAIN s : a <= n /\ \E i \in DOMAIN s[a] : x = s[a][i]
    BY <2>2
  <2>7. \A a \in DOMAIN s : a <= n + 1 <=> a <= n \/ a = n + 1
    BY <1>2
  <2>8. /\ c \in Seq(Cell) /\ DOMAIN c = 1..(Len(p) + Len(t))
        /\ \A i \in DOMAIN p : i \in DOMAIN c /\ c[i] = p[i]
        /\ \A i \in DOMAIN t : Len(p) + i \in DOMAIN c /\ c[Len(p) + i] = t[i]
        /\ Len(p) \in Nat /\ Len(t) \in Nat /\ DOMAIN p = 1..Len(p) /\ DOMAIN t = 1..Len(t)
    <3> HIDE DEF p, t
    <3> QED
      BY <2>4
  <2>9. t = s[n + 1]
    OBVIOUS
  <2> HIDE DEF p, t, c
  <2>10. ASSUME NEW i \in DOMAIN c
         PROVE  \/ i \in DOMAIN p /\ c[i] = p[i]
                \/ i > Len(p) /\ i - Len(p) \in DOMAIN t /\ c[i] = t[i - Len(p)]
    <3>1. CASE i <= Len(p)
      BY <2>8, <3>1
    <3>2. CASE i > Len(p)
      <4>1. i - Len(p) \in DOMAIN t /\ Len(p) + (i - Len(p)) = i
        BY <2>8, <3>2
      <4> QED
        BY <2>8, <3>2, <4>1
    <3> QED
      BY <2>8, <3>1, <3>2
  <2>11. ASSUME NEW i \in DOMAIN c, NEW j \in DOMAIN c, i < j, IsRecord(c[i]), IsRecord(c[j])
         PROVE  c[i].id < c[j].id
    <3>1. CASE j \in DOMAIN p /\ c[j] = p[j]
      <4>1. i \in DOMAIN p /\ c[i] = p[i]
        BY <2>8, <2>11, <3>1
      <4> QED
        BY <2>4, <2>11, <3>1, <4>1 DEF Increasing
    <3>2. CASE j > Len(p) /\ j - Len(p) \in DOMAIN t /\ c[j] = t[j - Len(p)]
      <4>1. CASE i \in DOMAIN p /\ c[i] = p[i]
        BY <2>5, <2>11, <3>2, <4>1
      <4>2. CASE i > Len(p) /\ i - Len(p) \in DOMAIN t /\ c[i] = t[i - Len(p)]
        <5>1. i - Len(p) < j - Len(p)
          BY <2>8, <2>11
        <5> QED
          BY <2>4, <2>11, <3>2, <4>2, <5>1 DEF Increasing
      <4> QED
        BY <2>10, <4>1, <4>2
    <3> QED
      BY <2>10, <3>1, <3>2
  <2>12. Increasing("id", c)
    BY <2>11 DEF Increasing
  <2>13. \A x : (\E i \in DOMAIN c : x = c[i])
                <=> (\E i \in DOMAIN p : x = p[i]) \/ \E i \in DOMAIN t : x = t[i]
    BY <2>8, <2>10
  <2>14. \A x : (\E i \in DOMAIN c : x = c[i])
                <=> \E a \in DOMAIN s : a <= n + 1 /\ \E i \in DOMAIN s[a] : x = s[a][i]
    <3> DEFINE Of(a, x) == \E i \in DOMAIN s[a] : x = s[a][i]
    <3>1. \A x : (\E i \in DOMAIN t : x = t[i]) <=> Of(n + 1, x)
      BY <2>9
    <3>4. \A x : (\E i \in DOMAIN p : x = p[i]) <=> \E a \in DOMAIN s : a <= n /\ Of(a, x)
      BY ONLY <2>6
    <3> HIDE DEF Of
    <3>2. \A x : (\E i \in DOMAIN c : x = c[i])
                 <=> (\E a \in DOMAIN s : a <= n /\ Of(a, x)) \/ Of(n + 1, x)
      <4> SUFFICES ASSUME NEW x
                   PROVE  (\E i \in DOMAIN c : x = c[i])
                            <=> (\E a \in DOMAIN s : a <= n /\ Of(a, x)) \/ Of(n + 1, x)
        OBVIOUS
      <4>1. (\E i \in DOMAIN c : x = c[i])
              <=> (\E i \in DOMAIN p : x = p[i]) \/ \E i \in DOMAIN t : x = t[i]
        BY ONLY <2>13
      <4>2. (\E i \in DOMAIN t : x = t[i]) <=> Of(n + 1, x)
        BY ONLY <3>1
      <4>3. (\E i \in DOMAIN p : x = p[i]) <=> \E a \in DOMAIN s : a <= n /\ Of(a, x)
        BY ONLY <3>4
      <4> QED
        BY ONLY <4>1, <4>2, <4>3
    <3>3. \A x : (\E a \in DOMAIN s : a <= n + 1 /\ Of(a, x))
                 <=> (\E a \in DOMAIN s : a <= n /\ Of(a, x)) \/ Of(n + 1, x)
      BY <2>1, <2>7
    <3> QED
      BY <3>2, <3>3 DEF Of
  <2> QED
    BY <2>3, <2>8, <2>12, <2>14
<1>6. Len(s) \in S
  <2> HIDE DEF S
  <2> QED
    BY <1>2, <1>4, <1>5, Inductive
<1>7. Good(Len(s)) /\ \A a \in DOMAIN s : a <= Len(s)
  BY <1>2, <1>6
<1>8. F[Len(s)] \in Seq(Cell) /\ Increasing("id", F[Len(s)])
  BY <1>7
<1>9. \A x : (\E i \in DOMAIN F[Len(s)] : x = F[Len(s)][i])
             <=> \E a \in DOMAIN s : \E i \in DOMAIN s[a] : x = s[a][i]
  BY ONLY <1>7
<1>10. Joined(s) = F[Len(s)]
  BY <1>1
<1> HIDE DEF Good, S
<1> QED
  BY ONLY <1>8, <1>9, <1>10

-----------------------------------------------------------------------------
(* OnDisk and Queued as functions of what they look at.                     *)
Disk(segments, f) == RecordsOf(Joined(Append(segments, f)), {})
(* What is queued behind a file: the tail and what waits, without the       *)
(* records the file already has.                                            *)
Behind(f, t, w) == RecordsOf(t \o w, Ids(f))

(* The records of the first n of some segments.                             *)
Leading(segments, n) == RecordsOf(Joined(SubSeq(segments, 1, n)), {})

(* The three operators, before and after a step.                            *)
LEMMA Logs ==
  /\ OnDisk = Disk(archives, file)
  /\ OnDisk' = Disk(archives', file')
  /\ Queued = Behind(file, tail, Waiting)
  /\ Queued' = Behind(file', tail', batch' \o pending')
  /\ Retired = Len(Leading(archives, Len(archives) - MaxArchived))
  /\ Retired' = Len(Leading(archives', Len(archives') - MaxArchived))
<1>1. OnDisk = Disk(archives, file) /\ Queued = Behind(file, tail, Waiting)
  BY DEF OnDisk, Disk, Queued, Behind, Waiting
<1>2. OnDisk' = Disk(archives', file')
  BY DEF OnDisk, Disk, RecordsOf, Joined, IsRecord
<1>3. Queued' = Behind(file', tail', batch' \o pending')
  BY DEF Queued, Behind, RecordsOf, Ids, IsRecord
<1>4. /\ Retired = Len(Leading(archives, Len(archives) - MaxArchived))
      /\ Retired' = Len(Leading(archives', Len(archives') - MaxArchived))
  BY DEF Retired, Leading, RecordsOf, Joined, IsRecord
<1> QED
  BY <1>1, <1>2, <1>3, <1>4

(* The records of some segments, each in order and before those after it.   *)
LEMMA SegmentRecords ==
  ASSUME NEW s \in Seq(Seq(Cell)), \A a \in DOMAIN s : Increasing("id", s[a]),
         \A a, b \in DOMAIN s : a < b => AllBefore(s[a], s[b])
  PROVE  /\ Ordered(RecordsOf(Joined(s), {}))
         /\ \A x : x \in Members(RecordsOf(Joined(s), {})) <=>
              \E a \in DOMAIN s : x \in Records(s[a])
<1> DEFINE c == Joined(s)
<1>1. /\ c \in Seq(Cell) /\ Increasing("id", c)
      /\ \A x : (\E i \in DOMAIN c : x = c[i])
                <=> \E a \in DOMAIN s : \E i \in DOMAIN s[a] : x = s[a][i]
  BY JoinedCells
<1> HIDE DEF c
<1>2. /\ Ordered(RecordsOf(c, {}))
      /\ \A x : x \in Members(RecordsOf(c, {})) <=> \E i \in DOMAIN c : IsRecord(c[i]) /\ x = c[i]
  BY <1>1, RecordsOfCells
<1>3. \A x : x \in Members(RecordsOf(c, {})) <=> \E a \in DOMAIN s : x \in Records(s[a])
  <2>1. \A x : x \in Members(RecordsOf(c, {})) <=> IsRecord(x) /\ \E i \in DOMAIN c : x = c[i]
    BY <1>2
  <2>2. \A x : \A a : x \in Records(s[a]) <=> IsRecord(x) /\ \E i \in DOMAIN s[a] : x = s[a][i]
    BY RecordsMember
  <2> QED
    BY <1>1, <2>1, <2>2
<1> QED
  BY <1>2, <1>3 DEF c

(* The disk holds the records of the archives and of the file, in order.    *)
LEMMA DiskRecords ==
  ASSUME NEW segments \in Seq(Seq(Cell)), NEW f \in Seq(Cell), Increasing("id", f),
         \A a \in DOMAIN segments : /\ Increasing("id", segments[a]) /\ AllBefore(segments[a], f)
                                    /\ \A b \in DOMAIN segments :
                                         a < b => AllBefore(segments[a], segments[b])
  PROVE  /\ Ordered(Disk(segments, f))
         /\ \A x : x \in Members(Disk(segments, f)) <=>
              x \in Records(f) \/ \E a \in DOMAIN segments : x \in Records(segments[a])
<1> DEFINE s == Append(segments, f)
<1>1. /\ s \in Seq(Seq(Cell)) /\ DOMAIN s = 1..(Len(segments) + 1)
      /\ s[Len(segments) + 1] = f /\ \A a \in DOMAIN segments : s[a] = segments[a]
      /\ Len(segments) \in Nat /\ DOMAIN segments = 1..Len(segments)
  OBVIOUS
<1> HIDE DEF s
<1>2. \A a \in DOMAIN s : a \in DOMAIN segments \/ a = Len(segments) + 1
  BY <1>1
<1>3. \A a \in DOMAIN s : Increasing("id", s[a])
  BY <1>1, <1>2
<1>4. \A a, b \in DOMAIN s : a < b => AllBefore(s[a], s[b])
  <2> SUFFICES ASSUME NEW a \in DOMAIN s, NEW b \in DOMAIN s, a < b PROVE AllBefore(s[a], s[b])
    OBVIOUS
  <2>1. a \in DOMAIN segments
    BY <1>1
  <2> QED
    BY <1>1, <1>2, <2>1
<1> DEFINE log == RecordsOf(Joined(s), {})
<1>5. Ordered(log) /\ \A x : x \in Members(log) <=> \E a \in DOMAIN s : x \in Records(s[a])
  BY <1>1, <1>3, <1>4, SegmentRecords
<1> HIDE DEF log
<1>8. \A x : (\E a \in DOMAIN s : x \in Records(s[a]))
             <=> x \in Records(f) \/ \E a \in DOMAIN segments : x \in Records(segments[a])
  <2>1. Len(segments) + 1 \in DOMAIN s /\ \A a \in DOMAIN segments : a \in DOMAIN s
    BY <1>1
  <2> QED
    BY <1>1, <1>2, <2>1
<1> QED
  BY <1>5, <1>8 DEF Disk, log, s

(* The file f and the tail t at offset wo of a writer that was given the    *)
(* cells s and reported the first n of them written: the file's records are *)
(* those of the n cells, and the tail is what s ends with, with all records *)
(* that are not in the file.                                                *)
Exactly(f, t, wo, s, n) ==
  /\ n <= Len(s) /\ \A i \in 1..n : i <= Len(f) /\ f[i] = s[i]
  /\ \A i \in DOMAIN f : IsRecord(f[i]) => i <= n
  /\ Len(t) # 0 => wo + Len(t) = Len(s)
  /\ \A j \in DOMAIN t : t[j] = s[wo + j]
  /\ \A i \in DOMAIN s : i > n /\ IsRecord(s[i]) => i > wo /\ i - wo <= Len(t)

(* The records among the first n cells of c, and among the others.          *)
FrontPart(c, n) == {c[i] : i \in {j \in DOMAIN c : j <= n /\ IsRecord(c[j])}}
(* The records after the first n of some cells.                             *)
BackPart(c, n) == {c[i] : i \in {j \in DOMAIN c : j > n /\ IsRecord(c[j])}}

(* What is in the two halves.                                               *)
LEMMA FrontBack ==
  ASSUME NEW c, NEW n
  PROVE  /\ \A x : x \in FrontPart(c, n) <=> \E i \in DOMAIN c : i <= n /\ IsRecord(c[i]) /\ x = c[i]
         /\ \A x : x \in BackPart(c, n) <=> \E i \in DOMAIN c : i > n /\ IsRecord(c[i]) /\ x = c[i]
BY DEF FrontPart, BackPart

(* Adding what comes next to both sides.                                    *)
LEMMA SumShift == \A a, b, c, d \in Nat : a + b = c => a + (b + d) = c + d
OBVIOUS

(* Then the file holds the first n cells' records and the queue the others. *)
LEMMA QueueRecords ==
  ASSUME NEW f \in Seq(Cell), NEW t \in Seq(Cell), NEW wo \in Nat,
         NEW s \in Seq(Cell), NEW n \in Nat, NEW w \in Seq(Cell),
         Exactly(f, t, wo, s, n), Increasing("id", s \o w)
  PROVE  /\ Records(f) = FrontPart(s \o w, n)
         /\ Ordered(Behind(f, t, w)) /\ Members(Behind(f, t, w)) = BackPart(s \o w, n)
         /\ \A a : AllBefore(a, f) /\ AllBefore(a, t \o w) => AllBefore(a, s \o w)
<1> DEFINE c == s \o w
           v == t \o w
<1>1. /\ Len(s) \in Nat /\ Len(t) \in Nat /\ Len(w) \in Nat /\ Len(f) \in Nat
      /\ DOMAIN s = 1..Len(s) /\ DOMAIN f = 1..Len(f) /\ DOMAIN t = 1..Len(t)
      /\ DOMAIN w = 1..Len(w)
  OBVIOUS
<1>2. /\ c \in Seq(Cell) /\ DOMAIN c = 1..(Len(s) + Len(w))
      /\ \A i \in DOMAIN s : i \in DOMAIN c /\ c[i] = s[i]
      /\ \A i \in DOMAIN w : c[Len(s) + i] = w[i]
  OBVIOUS
<1>3. /\ v \in Seq(Cell) /\ DOMAIN v = 1..(Len(t) + Len(w))
      /\ \A i \in DOMAIN t : v[i] = t[i]
      /\ \A i \in DOMAIN w : v[Len(t) + i] = w[i]
  OBVIOUS
<1>4. /\ n \in 0..Len(s)
      /\ Len(t) # 0 => wo + Len(t) = Len(s)
  BY DEF Exactly
<1>21. \A i \in 1..n : i <= Len(f) /\ f[i] = s[i]
  BY DEF Exactly
<1>20. /\ \A i \in DOMAIN f : IsRecord(f[i]) => i <= n
       /\ \A j \in DOMAIN t : t[j] = s[wo + j]
       /\ \A i \in DOMAIN s : i > n /\ IsRecord(s[i]) => i > wo /\ i - wo <= Len(t)
  BY DEF Exactly
<1>5. PICK o \in Nat : o + Len(t) = Len(s) /\ (Len(t) # 0 => o = wo)
  <2>1. CASE Len(t) = 0
    <3>1. Len(s) + Len(t) = Len(s)
      BY <1>1, <2>1
    <3> QED
      BY <1>1, <2>1, <3>1
  <2>2. CASE Len(t) # 0
    BY <1>4, <2>2
  <2> QED
    BY <2>1, <2>2
<1>22. \A k \in Nat : o + (Len(t) + k) = Len(s) + k
  <2> SUFFICES ASSUME NEW k \in Nat PROVE o + (Len(t) + k) = Len(s) + k
    OBVIOUS
  <2>1. Len(s) \in Nat /\ Len(t) \in Nat /\ o + Len(t) = Len(s) /\ o \in Nat
    BY <1>1, <1>5
  <2>2. \A l, m \in Nat : o + l = m => o + (l + k) = m + k
    BY ONLY o \in Nat, k \in Nat
  <2> QED
    BY ONLY <2>1, <2>2
<1>6. Increasing("id", c)
  OBVIOUS
<1> HIDE DEF c, v
<1>7. ASSUME NEW j \in DOMAIN v
      PROVE  o + j \in DOMAIN c /\ v[j] = c[o + j]
  <2>1. CASE j <= Len(t)
    <3>1. j \in DOMAIN t /\ Len(t) # 0
      BY <1>1, <1>3, <2>1
    <3>2. o = wo /\ t[j] = s[wo + j]
      BY <1>5, <1>20, <3>1
    <3>3. o + j \in DOMAIN s
      BY <1>1, <1>5, <3>1
    <3> QED
      BY <1>2, <1>3, <3>1, <3>2, <3>3
  <2>2. CASE j > Len(t)
    <3>1. j \in Nat /\ j <= Len(t) + Len(w)
      BY <1>1, <1>3
    <3>2. PICK k \in DOMAIN w : j = Len(t) + k
      <4>1. j - Len(t) \in DOMAIN w /\ j = Len(t) + (j - Len(t))
        BY <1>1, <2>2, <3>1
      <4> QED
        BY <4>1
    <3>3. o + j = Len(s) + k
      <4>1. k \in Nat
        BY <1>1
      <4>2. o + (Len(t) + k) = Len(s) + k
        BY <1>22, <4>1
      <4> QED
        BY <3>2, <4>2
    <3>4. o + j \in DOMAIN c
      <4>1. Len(s) + k \in DOMAIN c
        BY <1>1, <1>2
      <4> QED
        BY <3>3, <4>1
    <3> QED
      BY <1>2, <1>3, <3>2, <3>3, <3>4
  <2> QED
    BY <1>1, <1>3, <2>1, <2>2
<1>8. ASSUME NEW i \in DOMAIN c, i > n, IsRecord(c[i])
      PROVE  i > o
  <2> SUFFICES ASSUME i <= o PROVE FALSE
    BY <1>2, <1>5
  <2>1. i \in DOMAIN s /\ c[i] = s[i]
    BY <1>1, <1>2, <1>5
  <2>2. i > wo /\ i - wo <= Len(t)
    BY <1>8, <1>20, <2>1
  <2>3. Len(t) # 0
    BY <1>1, <2>1, <2>2
  <2> QED
    BY <1>1, <1>5, <2>1, <2>2, <2>3
<1>9. ASSUME NEW i \in DOMAIN c, i > o
      PROVE  i - o \in DOMAIN v /\ v[i - o] = c[i]
  <2>1. i \in Nat /\ i <= Len(s) + Len(w)
    BY <1>1, <1>2
  <2>3. /\ o \in Nat /\ Len(t) \in Nat /\ Len(s) \in Nat /\ Len(w) \in Nat
        /\ o + Len(t) = Len(s) /\ i > o
    BY <1>1, <1>5, <1>9
  <2>4. i - o \in 1..(Len(t) + Len(w)) /\ o + (i - o) = i
    BY ONLY <2>1, <2>3
  <2>2. i - o \in DOMAIN v /\ o + (i - o) = i
    BY <1>3, <2>4
  <2> QED
    BY <1>7, <2>2
<1>10. \A i \in 1..n : i \in DOMAIN f /\ i \in DOMAIN c /\ f[i] = c[i]
  <2> SUFFICES ASSUME NEW i \in 1..n PROVE i \in DOMAIN f /\ i \in DOMAIN c /\ f[i] = c[i]
    OBVIOUS
  <2>1. i <= Len(f) /\ f[i] = s[i]
    BY <1>21
  <2>2. i \in DOMAIN s /\ i \in DOMAIN f
    BY <1>1, <1>4, <2>1
  <2> QED
    BY <1>2, <2>1, <2>2
<1>11. \A i \in DOMAIN f : IsRecord(f[i]) => i \in 1..n
  BY <1>1, <1>20
<1>12. Increasing("id", v)
  <2> SUFFICES ASSUME NEW i \in DOMAIN v, NEW j \in DOMAIN v, i < j, IsRecord(v[i]), IsRecord(v[j])
               PROVE  v[i].id < v[j].id
    BY DEF Increasing
  <2>1. o + i < o + j
    BY <1>3, <1>5
  <2> QED
    BY <1>6, <1>7, <2>1 DEF Increasing
<1>13. \A x : x \in Records(f) <=> x \in FrontPart(c, n)
  <2>1. \A i \in DOMAIN c : i <= n <=> i \in 1..n
    BY <1>2
  <2> QED
    BY <1>10, <1>11, <2>1, RecordsMember, FrontBack
<1> DEFINE q == RecordsOf(v, Ids(f))
<1>14. /\ Ordered(q)
       /\ \A x : x \in Members(q) <=>
            \E j \in DOMAIN v : IsRecord(v[j]) /\ v[j].id \notin Ids(f) /\ x = v[j]
  BY <1>3, <1>12, RecordsOfCells
<1> HIDE DEF q
<1>15. ASSUME NEW j \in DOMAIN v, IsRecord(v[j]), v[j].id \notin Ids(f)
       PROVE  o + j > n
  <2> SUFFICES ASSUME o + j \in 1..n PROVE FALSE
    BY <1>3, <1>5
  <2>1. f[o + j] = v[j] /\ o + j \in DOMAIN f
    BY <1>7, <1>10
  <2> QED
    BY <1>15, <2>1, IdsMember
<1>16. ASSUME NEW i \in DOMAIN c, i > n, IsRecord(c[i])
       PROVE  c[i].id \notin Ids(f)
  <2> SUFFICES ASSUME c[i].id \in Ids(f) PROVE FALSE
    OBVIOUS
  <2>1. PICK k \in DOMAIN f : IsRecord(f[k]) /\ c[i].id = f[k].id
    BY IdsMember
  <2>2. k \in 1..n /\ k \in DOMAIN c /\ f[k] = c[k]
    BY <1>10, <1>11, <2>1
  <2>3. k < i
    BY <1>2, <1>16, <2>2
  <2>4. c[k].id < c[i].id
    BY <1>6, <1>16, <2>1, <2>2, <2>3 DEF Increasing
  <2>5. c[i].id \in Nat
    BY <1>2, <1>16, RecordKeys
  <2> QED
    BY <2>1, <2>2, <2>4, <2>5
<1>17. \A x : x \in Members(q) <=> x \in BackPart(c, n)
  <2>1. ASSUME NEW x \in Members(q)
        PROVE  x \in BackPart(c, n)
    <3>1. PICK j \in DOMAIN v : IsRecord(v[j]) /\ v[j].id \notin Ids(f) /\ x = v[j]
      BY <1>14
    <3> QED
      BY <1>7, <1>15, <3>1, FrontBack
  <2>2. ASSUME NEW x \in BackPart(c, n)
        PROVE  x \in Members(q)
    <3>1. PICK i \in DOMAIN c : i > n /\ IsRecord(c[i]) /\ x = c[i]
      BY FrontBack
    <3>2. i - o \in DOMAIN v /\ v[i - o] = c[i] /\ c[i].id \notin Ids(f)
      BY <1>8, <1>9, <1>16, <3>1
    <3> QED
      BY <1>14, <3>1, <3>2
  <2> QED
    BY <2>1, <2>2
<1>18. ASSUME NEW a, AllBefore(a, f), AllBefore(a, v)
       PROVE  AllBefore(a, c)
  <2> SUFFICES ASSUME NEW k \in DOMAIN a, NEW i \in DOMAIN c, IsRecord(a[k]), IsRecord(c[i])
               PROVE  a[k].id < c[i].id
    BY DEF AllBefore
  <2>1. CASE i <= n
    <3>1. i \in DOMAIN f /\ f[i] = c[i]
      BY <1>2, <1>10, <2>1
    <3> QED
      BY <1>18, <3>1 DEF AllBefore
  <2>2. CASE i > n
    <3>1. i - o \in DOMAIN v /\ v[i - o] = c[i]
      BY <1>8, <1>9, <2>2
    <3> QED
      BY <1>18, <3>1 DEF AllBefore
  <2> QED
    BY <1>2, <2>1, <2>2
<1>19. q = Behind(f, t, w)
  BY DEF q, v, Behind
<1> QED
  BY <1>13, <1>14, <1>17, <1>18, <1>19 DEF c, v

-----------------------------------------------------------------------------
(* While the process knows its file, no record stands in it beyond what was *)
(* reported written, and a writer without a file, or one that has not read  *)
(* it, holds nothing in its tail.                                           *)
Exact ==
  /\ ~Offline => \A i \in DOMAIN file : IsRecord(file[i]) => i <= flushed
  /\ ~file_open \/ Offline => Len(tail) = 0

(* The segment ends with the tail.                                          *)
LEMMA TailEnds ==
  ASSUME Writer, ~misused, Exact
  PROVE  /\ Len(tail) # 0 => file_open /\ write_offset + Len(tail) = Len(stream)
         /\ \A j \in DOMAIN tail : write_offset + j \in 1..Len(stream)
                                   /\ tail[j] = stream[write_offset + j]
<1>1. /\ tail \in Seq(Cell) /\ stream \in Seq(Cell) /\ write_offset \in Nat
      /\ Len(tail) \in Nat /\ Len(stream) \in Nat /\ DOMAIN tail = 1..Len(tail)
  BY WriterParts, WriterTypes
<1>2. Len(tail) # 0 => file_open
  BY DEF Exact
<1>3. ASSUME Len(tail) # 0
      PROVE  write_offset + Len(tail) = Len(stream)
  <2>1. tail # <<>>
    BY <1>3
  <2>2. logical_size = write_offset + Len(tail)
    BY <1>2, <1>3, <2>1, WriterOptions, AWP!IndInvImplies DEF Writer, AWP!IndInv, AWP!OpenIntact
  <2>3. logical_size = Len(stream)
    BY <1>2, <1>3, WriterParts
  <2> QED
    BY <2>2, <2>3
<1>4. ASSUME NEW j \in DOMAIN tail
      PROVE  write_offset + j \in 1..Len(stream) /\ tail[j] = stream[write_offset + j]
  <2>1. Len(tail) # 0 /\ file_open
    BY <1>1, <1>2
  <2> DEFINE i == write_offset + j
  <2>2. i \in 1..Len(stream) /\ i > write_offset /\ i - write_offset = j
    BY <1>1, <1>3, <2>1
  <2> HIDE DEF i
  <2>3. tail[i - write_offset] = stream[i]
    BY <2>1, <2>2, WriterParts
  <2> QED
    BY <2>2, <2>3 DEF i
<1> QED
  BY <1>2, <1>3, <1>4

(* A write of the tail, reported.                                           *)
LEMMA TailExact ==
  ASSUME Writer, ~misused, Exact, ~Offline, Wrote(file', file, write_offset, tail, Len(tail)),
         flushed' = Len(stream)
  PROVE  \A i \in DOMAIN file' : IsRecord(file'[i]) => i <= flushed'
<1>1. /\ tail \in Seq(Cell) /\ file \in Seq(Cell) /\ stream \in Seq(Cell) /\ write_offset \in Nat
      /\ Len(stream) \in Nat /\ flushed \in Nat /\ flushed <= Len(stream)
  BY WriterParts, WriterTypes
<1>2. file' \in Seq(Cell)
  BY DEF Wrote
<1> SUFFICES ASSUME NEW i \in DOMAIN file', IsRecord(file'[i]) PROVE i <= Len(stream)
  OBVIOUS
<1>3. i \in Nat
  BY <1>2
<1>4. CASE i \in DOMAIN file /\ file'[i] = file[i]
  <2>1. i <= flushed
    BY <1>4 DEF Exact
  <2> QED
    BY <1>1, <1>3, <2>1
<1>5. CASE i > write_offset /\ i - write_offset \in DOMAIN tail
  <2>1. write_offset + (i - write_offset) \in 1..Len(stream)
    BY <1>5, TailEnds
  <2>2. write_offset + (i - write_offset) = i
    BY <1>1, <1>3
  <2> QED
    BY <1>1, <2>1, <2>2
<1> QED
  BY <1>4, <1>5 DEF Wrote

(* append_batch with full blocks reports all that it wrote.                 *)
LEMMA AppendExact ==
  ASSUME Writer, ~misused, Exact, ~Offline, AW!Ready, NEW b \in Seq(Record), AW!AppendBatch(b)
  PROVE  \A i \in DOMAIN file' : IsRecord(file'[i]) => i <= flushed'
<1> DEFINE bytes == tail \o b
           writable == AW!AlignDown(Len(bytes))
           buffer == SubSeq(bytes, 1, writable)
<1>1. /\ tail \in Seq(Cell) /\ file \in Seq(Cell) /\ write_offset \in Nat /\ flushed \in Nat
      /\ b \in Seq(Cell) /\ AW!TypeOK
  BY WriterParts, WriterTypes DEF Cell
<1>2. /\ writable > 0 => file' = AW!OverwriteAll(file, write_offset, buffer)
                         /\ flushed' = write_offset + writable
      /\ ~(writable > 0) => file' = file /\ flushed' = flushed
  BY DEF AW!AppendBatch, AW!WriteBuffer
<1>3. \A i \in 1..flushed : i \in 1..flushed'
  BY AppendReports
<1>4. bytes \in Seq(Cell) /\ Len(bytes) \in Nat
  BY <1>1
<1> HIDE DEF bytes
<1>5. writable \in Nat /\ writable <= Len(bytes)
  BY <1>4, DownCells
<1> HIDE DEF writable
<1>6. buffer \in Seq(Cell) /\ Len(buffer) = writable
  BY <1>4, <1>5
<1> HIDE DEF buffer
<1>7. CASE ~(writable > 0)
  BY <1>2, <1>7 DEF Exact
<1>8. CASE writable > 0
  <2> SUFFICES ASSUME NEW i \in DOMAIN file', IsRecord(file'[i]) PROVE i <= flushed'
    OBVIOUS
  <2>1. Wrote(file', file, write_offset, buffer, writable) /\ flushed' = write_offset + writable
    BY <1>1, <1>2, <1>6, <1>8, OverwriteAllCells
  <2>2. i \in Nat /\ i > 0
    BY <2>1 DEF Wrote
  <2>3. CASE i \in DOMAIN file /\ file'[i] = file[i]
    <3>1. i <= flushed
      BY <2>3 DEF Exact
    <3>2. i \in 1..flushed
      BY <1>1, <2>2, <3>1
    <3>3. i \in 1..flushed'
      BY <1>3, <3>2
    <3> QED
      BY <1>1, <1>5, <2>1, <3>3
  <2>4. CASE i > write_offset /\ i - write_offset <= writable
    BY <1>1, <1>5, <2>1, <2>2, <2>4
  <2> QED
    BY <2>1, <2>3, <2>4 DEF Wrote
<1> QED
  BY <1>7, <1>8

(* What force_flush, flush_tail and close leave.                            *)
LEMMA ExactFlushed ==
  ASSUME IndInv, Writer, ReadyInv, Exact, ~Offline, ~Offline',
         AW!ForceFlush \/ AW!FlushTail \/ AW!Close
  PROVE  Exact'
<1>0. /\ TypeOK /\ AW!TypeOK /\ logical_size <= write_offset + Len(tail) /\ ~misused
  BY ViewTypes DEF IndInv, Control, ReadyInv
<1>1. Wrote(file', file, write_offset, tail, Len(tail))
  BY <1>0, ForceFlushCells, SealCells
<1>2. flushed' = Len(stream)
  BY DEF AW!ForceFlush, AW!FlushTail, AW!Close
<1>3. \A i \in DOMAIN file' : IsRecord(file'[i]) => i <= flushed'
  BY <1>0, <1>1, <1>2, TailExact
<1>4. tail' = <<>> \/ (tail' = tail /\ file_open' = file_open)
  BY DEF AW!ForceFlush, AW!FlushTail, AW!Close, AW!memoryVars
<1>5. ~file_open' => Len(tail') = 0
  <2>1. CASE tail' = <<>>
    BY <2>1
  <2>2. CASE tail' = tail /\ file_open' = file_open
    BY <2>2 DEF Exact
  <2> QED
    BY <1>4, <2>1, <2>2
<1>6. (\A i \in DOMAIN file : IsRecord(file[i]) => i <= flushed)'
  BY <1>3 DEF IsRecord
<1> QED
  BY <1>5, <1>6 DEF Exact

(* A step that leaves the writer alone.                                     *)
LEMMA ExactQuiet ==
  ASSUME Exact, UNCHANGED writerVars, Offline' = Offline
  PROVE  Exact'
<1>1. UNCHANGED <<file, file_open, tail, flushed>>
  BY DEF writerVars
<1> QED
  BY <1>1 DEF Exact, IsRecord

(* Every step keeps it, as long as writes do not fail.                      *)
LEMMA ExactStep ==
  ASSUME Reliable, "write" \notin Faults, IndInv, Writer, ReadyInv, Exact, Next
  PROVE  Exact'
<1>0. /\ TypeOK /\ AW!TypeOK /\ Control /\ batch \in Seq(Record) /\ ~misused /\ life \in LifeKind
      /\ Len(<<>>) = 0
  BY ViewTypes, TypeParts DEF IndInv, ReadyInv
<1>00. ~Fault("write")
  BY DEF Fault
<1>1. ASSUME NEW s \in Submitters, NEW n \in 1..MaxMany, Submit(s, n)
      PROVE  Exact'
  BY <1>1, ExactQuiet DEF Submit, Offline
<1>2. ASSUME NEW s \in Submitters, Resume(s) \/ Wake(s)
      PROVE  Exact'
  BY <1>2, ExactQuiet DEF Resume, Wake, Offline
<1>3. CASE Timer \/ Stop \/ StopFlush \/ StopDrained \/ StopGate
  <2>1. /\ UNCHANGED writerVars
        /\ life \notin {"down", "recover"} /\ life' \notin {"down", "recover"}
    BY <1>3 DEF Timer, Stop, StopFlush, StopDrained, StopGate
  <2> QED
    BY <2>1, ExactQuiet DEF Offline
<1>4. CASE FlushAppend
  <2>1. flush.pc = "append" /\ AW!AppendBatch(batch) /\ life' = life
    BY <1>4 DEF FlushAppend
  <2>2. life \in {"up", "stopping", "gate"}
    BY <1>0, <2>1 DEF Control
  <2>3. AW!Ready
    BY <2>1, <2>2 DEF ReadyInv
  <2>4. file_open'
    BY <2>1, <2>3 DEF AW!AppendBatch, AW!Ready
  <2>5. \A i \in DOMAIN file' : IsRecord(file'[i]) => i <= flushed'
    BY <1>0, <2>1, <2>2, <2>3, AppendExact DEF Offline
  <2>6. ~Offline'
    BY <2>1, <2>2 DEF Offline
  <2> QED
    BY <2>4, <2>5, <2>6 DEF Exact, IsRecord
<1>5. CASE FlushForce \/ RotateCheckpoint \/ RotateCheckpointFails
  <2>1. /\ flush.pc # "idle" /\ AW!ForceFlush
    BY <1>5 DEF FlushForce, RotateCheckpoint, RotateCheckpointFails, PersistCheckpoint,
       PersistCheckpointFails
  <2>2. life \in {"up", "stopping", "gate"}
    BY <1>0, <2>1 DEF Control
  <2>3. life' = life \/ life' = "failed"
    BY <1>5 DEF FlushForce, RotateCheckpoint, RotateCheckpointFails, FlushThrows, ErrorReturned
  <2> QED
    BY <2>1, <2>2, <2>3, ExactFlushed DEF Offline
<1>6. CASE RotateSeal \/ RotateClose
  <2>1. /\ flush.pc # "idle" /\ life' = life
        /\ AW!FlushTail \/ AW!Close \/ UNCHANGED writerVars
    BY <1>6 DEF RotateSeal, RotateClose
  <2>2. life \in {"up", "stopping", "gate"}
    BY <1>0, <2>1 DEF Control
  <2> QED
    BY <2>1, <2>2, ExactFlushed, ExactQuiet DEF Offline
<1>7. CASE StopTail \/ StopCheckpoint \/ StopClose \/ StopFails \/ StartCheckpoint
  <2>1. /\ life \notin {"down", "recover"} /\ life' \notin {"down", "recover"}
        /\ AW!FlushTail \/ AW!Close \/ AW!ForceFlush \/ UNCHANGED writerVars
    BY <1>7, NoSuchFault DEF StopTail, StopCheckpoint, StopClose, StopFails, StartCheckpoint,
       PersistCheckpoint, PersistCheckpointFails
  <2> QED
    BY <2>1, ExactFlushed, ExactQuiet DEF Offline
<1>8. CASE RotateRename
  <2>1. flush.pc = "rename" /\ life' = life /\ ~file_open
    BY <1>0, <1>8 DEF RotateRename, Control
  <2>2. CASE present
    <3>1. file' = <<>> /\ UNCHANGED <<tail, file_open>>
      BY <1>8, <2>2 DEF RotateRename, AW!RenameAway, AW!memoryVars
    <3>2. Len(tail') = 0
      BY <2>1, <3>1 DEF Exact
    <3>3. DOMAIN file' = {}
      BY <3>1
    <3> QED
      BY <3>2, <3>3 DEF Exact
  <2>3. CASE ~present
    BY <1>8, <2>1, <2>3, ExactQuiet DEF RotateRename, Offline
  <2> QED
    BY <2>2, <2>3
<1>9. CASE RotateReopen
  <2>1. flush.pc = "reopen" /\ AW!Start(TruncateOnStart)
    BY <1>9 DEF RotateReopen
  <2>2. file = <<>>
    BY <1>0, <2>1 DEF Control
  <2>3. file' = <<>> /\ tail' = <<>>
    BY <2>1, <2>2 DEF AW!Start
  <2>4. DOMAIN file' = {} /\ Len(tail') = 0
    BY <2>3
  <2> QED
    BY <2>4 DEF Exact
<1>10. CASE FlushAppendFails \/ FlushForceFails \/ RotateCloseFails \/ RotateRenameFails
            \/ RotateCleanupFails \/ RotateReopenFails
  BY <1>00, <1>10, NoSuchFault DEF FlushAppendFails, FlushForceFails, RotateCloseFails,
     RotateRenameFails, RotateCleanupFails, RotateReopenFails
<1>11. CASE StartOpen
  <2>1. AW!Start(TruncateOnStart) /\ tail' = <<>>
        /\ life' = IF ~TruncateOnStart THEN "recover"
                   ELSE IF CheckpointEnabled THEN "start_checkpoint" ELSE "up"
    BY <1>11 DEF StartOpen, AW!Start
  <2>2. Len(tail') = 0
    BY <2>1
  <2>3. TruncateOnStart => DOMAIN file' = {}
    <3>1. life \in {"down", "stopped"}
      BY <1>11 DEF StartOpen
    <3>2. TruncateOnStart => file' = <<>>
      BY <1>0, <2>1, <3>1 DEF AW!Start, Control
    <3> QED
      BY <3>2
  <2>4. ~TruncateOnStart => Offline'
    BY <2>1 DEF Offline
  <2> QED
    BY <2>2, <2>3, <2>4 DEF Exact
<1>12. CASE Recover
  <2>1. PICK from \in Nat, next \in Nat :
          from <= Len(file) /\ AW!TruncateTo(Scan(from, next).size)
    BY <1>12, RecoverCase
  <2> DEFINE size == Scan(from, next).size
  <2>2. size \in Nat /\ AW!TruncateTo(size)
    BY <1>0, <2>1, ScanCells
  <2> HIDE DEF size
  <2>3. file_open /\ file_open' = file_open /\ file' = AW!Truncated(file, size) /\ flushed' = size
    BY <2>2 DEF AW!TruncateTo
  <2>4. file \in Seq(Cell)
    BY <1>0, WriterTypes
  <2>5. \A i \in DOMAIN file' : IsRecord(file'[i]) => i <= flushed'
    BY <2>2, <2>3, <2>4, TruncatedCells
  <2>6. life' \in {"start_checkpoint", "up"}
    BY <1>12 DEF Recover
  <2> QED
    BY <2>3, <2>5, <2>6 DEF Exact, IsRecord, Offline
<1>13. CASE Crash \/ AppendToNoFile \/ CrashInAppend
  <2>1. life' = "down" /\ tail' = <<>>
    BY <1>13 DEF Crash, AppendToNoFile, CrashInAppend, ProcessDies, AW!Crash, AW!ProcessForgets
  <2>2. Len(tail') = 0
    BY <2>1
  <2> QED
    BY <2>1, <2>2 DEF Exact, Offline
<1>14. CASE RotateCleanup
  BY <1>14, ExactQuiet DEF RotateCleanup, Offline
<1> QED
  BY <1>1, <1>2, <1>3, <1>4, <1>5, <1>6, <1>7, <1>8, <1>9, <1>10, <1>11, <1>12, <1>13, <1>14
     DEF Next, Task, FlushStep, FlushFails, StopStep, StartStep

(* Every state of a shard whose writes do not fail.                         *)
THEOREM Exactness == Reliable /\ "write" \notin Faults => (Spec => []Exact)
<1> SUFFICES ASSUME Reliable, "write" \notin Faults PROVE Spec => []Exact
  OBVIOUS
<1>1. Init => Exact
  <2> SUFFICES ASSUME Init PROVE Exact
    OBVIOUS
  <2>1. tail = <<>> /\ life = "down"
    BY DEF Init, AW!Init
  <2>2. Len(tail) = 0
    BY <2>1
  <2> QED
    BY <2>1, <2>2 DEF Exact, Offline
<1>2. IndInv /\ DurableInv /\ Exact /\ [Next]_vars => Exact'
  <2> SUFFICES ASSUME IndInv, DurableInv, Exact, [Next]_vars PROVE Exact'
    OBVIOUS
  <2>1. CASE Next
    BY <2>1, ExactStep DEF DurableInv
  <2>2. CASE UNCHANGED vars
    <3>1. UNCHANGED writerVars /\ life' = life
      BY <2>2 DEF vars
    <3> QED
      BY <3>1, ExactQuiet DEF Offline
  <2> QED
    BY <2>1, <2>2
<1> QED
  BY <1>1, <1>2, Invariance, Durability, PTL DEF Spec

-----------------------------------------------------------------------------
(* The cells of the active segment and of the queue behind it, in order.    *)
Chain == stream \o Waiting

(* They are in the order they were accepted, and come after the archives.   *)
Chained ==
  /\ Increasing("id", Chain)
  /\ \A a \in DOMAIN archives : AllBefore(archives[a], Chain)

(* The records of the archived segments.                                    *)
ArchivedRecords == UNION {Records(archives[a]) : a \in DOMAIN archives}

(* The log is the archives and what was reported of the chain, the queue is *)
(* the rest of it.                                                          *)
Pictured ==
  /\ Chain \in Seq(Cell) /\ flushed \in Nat
  /\ Ordered(OnDisk) /\ Ordered(Queued)
  /\ Members(OnDisk) = ArchivedRecords \cup FrontPart(Chain, flushed)
  /\ Members(Queued) = BackPart(Chain, flushed)

(* What holds of every state of a shard whose writes do not fail.           *)
Known == IndInv /\ Writer /\ ReadyInv /\ Exact

(* It says exactly where the records of the segment are.                    *)
LEMMA KnownExactly ==
  ASSUME Known, ~Offline
  PROVE  Exactly(file, tail, write_offset, stream, flushed)
<1>1. /\ tail \in Seq(Cell) /\ file \in Seq(Cell) /\ stream \in Seq(Cell) /\ write_offset \in Nat
      /\ Len(tail) \in Nat /\ Len(stream) \in Nat /\ flushed \in Nat /\ ~misused
      /\ DOMAIN stream = 1..Len(stream)
  BY WriterParts, WriterTypes DEF Known, ReadyInv
<1>2. flushed <= Len(stream) /\ \A i \in 1..flushed : i <= Len(file) /\ file[i] = stream[i]
  BY <1>1, WriterParts DEF Known
<1>3. \A i \in DOMAIN file : IsRecord(file[i]) => i <= flushed
  BY DEF Known, Exact
<1>4. /\ Len(tail) # 0 => write_offset + Len(tail) = Len(stream)
      /\ \A j \in DOMAIN tail : tail[j] = stream[write_offset + j]
  BY <1>1, TailEnds DEF Known
<1>5. ASSUME NEW i \in DOMAIN stream, i > flushed, IsRecord(stream[i])
      PROVE  i > write_offset /\ i - write_offset <= Len(tail)
  <2>1. file_open
    <3> SUFFICES ASSUME ~file_open PROVE FALSE
      OBVIOUS
    <3>1. flushed = Len(stream)
      BY <1>1, WriterParts DEF Known
    <3> QED
      BY <1>1, <1>5, <3>1
  <2>2. i > write_offset
    <3> SUFFICES ASSUME i <= write_offset PROVE FALSE
      BY <1>1
    <3>1. i <= Len(file) /\ file[i] = stream[i]
      BY <1>1, <2>1, WriterParts DEF Known
    <3>2. i \in DOMAIN file
      BY <1>1, <3>1
    <3>3. i <= flushed
      BY <1>3, <1>5, <3>1, <3>2
    <3> QED
      BY <1>1, <1>5, <3>3
  <2> QED
    BY <1>1, <2>1, <2>2, WriterParts DEF Known
<1> QED
  BY <1>2, <1>3, <1>4, <1>5 DEF Exactly

(* While the writer describes the file the chain is in order.               *)
LEMMA AttachedChain == Known /\ Attached => Chained
<1> SUFFICES ASSUME Known, Attached PROVE Chained
  OBVIOUS
<1>1. /\ tail \in Seq(Cell) /\ file \in Seq(Cell) /\ stream \in Seq(Cell) /\ write_offset \in Nat
      /\ flushed \in Nat /\ Waiting \in Seq(Cell)
  BY ViewTypes, WriterTypes DEF Known, IndInv
<1>2. Increasing("id", stream \o Waiting)
  BY KeyKinds, PlacedParts DEF Known, IndInv, Order
<1>3. Exactly(file, tail, write_offset, stream, flushed)
  BY KnownExactly DEF Attached, Offline
<1>4. \A a \in DOMAIN archives :
        AllBefore(archives[a], file) /\ AllBefore(archives[a], tail \o Waiting)
  BY DEF Known, IndInv, Archived, Ahead
<1>5. \A a \in DOMAIN archives : AllBefore(archives[a], stream \o Waiting)
  BY <1>1, <1>2, <1>3, <1>4, QueueRecords
<1> QED
  BY <1>2, <1>5 DEF Chained, Chain

(* An archived record is in one of the segments.                            *)
LEMMA ArchivedRecordsMember ==
  \A x : x \in ArchivedRecords <=> \E a \in DOMAIN archives : x \in Records(archives[a])
BY DEF ArchivedRecords

(* What is on disk, whatever the writer knows of it.                        *)
LEMMA OnDiskRecords ==
  IndInv => Ordered(OnDisk) /\ Members(OnDisk) = ArchivedRecords \cup Records(file)
<1> SUFFICES ASSUME IndInv
             PROVE  Ordered(OnDisk) /\ Members(OnDisk) = ArchivedRecords \cup Records(file)
  OBVIOUS
<1>1. archives \in Seq(Seq(Cell)) /\ file \in Seq(Cell)
  BY ViewTypes DEF IndInv
<1>2. /\ Increasing("id", file)
      /\ \A a \in DOMAIN archives :
           /\ Increasing("id", archives[a]) /\ AllBefore(archives[a], file)
           /\ \A b \in DOMAIN archives : a < b => AllBefore(archives[a], archives[b])
  BY KeyKinds DEF IndInv, Order, Archived
<1>3. /\ Ordered(Disk(archives, file))
      /\ \A x : x \in Members(Disk(archives, file)) <=>
              x \in Records(file) \/ \E a \in DOMAIN archives : x \in Records(archives[a])
  BY <1>1, <1>2, DiskRecords
<1>4. OnDisk = Disk(archives, file)
  BY DEF OnDisk, Disk
<1> QED
  BY <1>3, <1>4, ArchivedRecordsMember

(* A writer that has read its file gives the picture.                       *)
LEMMA Picture == Known /\ ~Offline /\ Chained => Pictured
<1> SUFFICES ASSUME Known, ~Offline, Chained PROVE Pictured
  OBVIOUS
<1>1. /\ tail \in Seq(Cell) /\ file \in Seq(Cell) /\ stream \in Seq(Cell) /\ write_offset \in Nat
      /\ flushed \in Nat /\ Waiting \in Seq(Cell)
  BY ViewTypes, WriterTypes DEF Known, IndInv
<1>2. Increasing("id", stream \o Waiting)
  BY DEF Chained, Chain
<1>3. Exactly(file, tail, write_offset, stream, flushed)
  BY KnownExactly
<1>4. /\ Records(file) = FrontPart(Chain, flushed)
      /\ Ordered(Behind(file, tail, Waiting))
      /\ Members(Behind(file, tail, Waiting)) = BackPart(Chain, flushed)
  BY <1>1, <1>2, <1>3, QueueRecords DEF Chain
<1>5. Queued = Behind(file, tail, Waiting)
  BY DEF Queued, Behind, Waiting
<1>6. Chain \in Seq(Cell)
  BY <1>1 DEF Chain
<1> QED
  BY <1>1, <1>4, <1>5, <1>6, OnDiskRecords DEF Pictured, Known

(* The same in the next state.                                              *)
LEMMA NextPicture ==
  /\ Known' /\ Attached' => Chained'
  /\ IndInv' => Ordered(OnDisk') /\ Members(OnDisk') = ArchivedRecords' \cup Records(file')
  /\ Known' /\ ~Offline' /\ Chained' => Pictured'
<1>1. (Known /\ Attached => Chained)'
  BY AttachedChain, PTL
<1>2. (Known /\ ~Offline /\ Chained => Pictured)'
  BY Picture, PTL
<1>3. (IndInv => Ordered(OnDisk) /\ Members(OnDisk) = ArchivedRecords \cup Records(file))'
  BY OnDiskRecords, PTL
<1>4. (Ordered(OnDisk))' = Ordered(OnDisk')
  BY DEF Ordered
<1>5. (Members(OnDisk))' = Members(OnDisk')
  BY DEF Members
<1>6. (Records(file))' = Records(file')
  BY DEF Records, IsRecord
<1> QED
  BY <1>1, <1>2, <1>3, <1>4, <1>5, <1>6

(* The picture after a step, part by part.                                  *)
LEMMA PicturedParts ==
  /\ Pictured' => /\ Chain' \in Seq(Cell) /\ flushed' \in Nat
                  /\ Ordered(OnDisk') /\ Ordered(Queued')
                  /\ Members(OnDisk') = ArchivedRecords' \cup FrontPart(Chain', flushed')
                  /\ Members(Queued') = BackPart(Chain', flushed')
  /\ archives' = archives => ArchivedRecords' = ArchivedRecords
<1>1. (Ordered(OnDisk))' = Ordered(OnDisk') /\ (Ordered(Queued))' = Ordered(Queued')
  BY DEF Ordered
<1>2. (Members(OnDisk))' = Members(OnDisk') /\ (Members(Queued))' = Members(Queued')
  BY DEF Members
<1>3. (FrontPart(Chain, flushed))' = FrontPart(Chain', flushed')
      /\ (BackPart(Chain, flushed))' = BackPart(Chain', flushed')
  BY DEF FrontPart, BackPart, IsRecord
<1>4. archives' = archives => ArchivedRecords' = ArchivedRecords
  BY DEF ArchivedRecords, Records, IsRecord
<1> QED
  BY <1>1, <1>2, <1>3, <1>4 DEF Pictured

(* In the chain identities increase with places.                            *)
LEMMA ChainPlaces ==
  ASSUME Pictured, Chained, NEW i \in DOMAIN Chain, NEW j \in DOMAIN Chain,
         IsRecord(Chain[i]), IsRecord(Chain[j])
  PROVE  /\ i \in Nat /\ Chain[i].id \in Nat
         /\ i < j => Chain[i].id < Chain[j].id
         /\ Chain[i].id < Chain[j].id => i < j
         /\ Chain[i] = Chain[j] => i = j
<1>1. Chain[i] \in Cell /\ Chain[j] \in Cell /\ i \in Nat /\ j \in Nat
  BY DEF Pictured
<1>2. Chain[i].id \in Nat /\ Chain[j].id \in Nat
  BY <1>1, RecordKeys
<1>3. /\ i < j => Chain[i].id < Chain[j].id
      /\ j < i => Chain[j].id < Chain[i].id
  BY DEF Chained, Increasing
<1>4. Chain[i].id < Chain[j].id => i < j
  BY <1>1, <1>2, <1>3
<1>5. Chain[i] = Chain[j] => i = j
  BY <1>1, <1>2, <1>3
<1> QED
  BY <1>1, <1>2, <1>3, <1>4, <1>5

(* The log is before the queue.                                             *)
LEMMA LogBeforeQueue ==
  ASSUME Pictured, Chained, NEW x \in Members(OnDisk), NEW y \in Members(Queued)
  PROVE  x.id < y.id
<1>1. PICK j \in DOMAIN Chain : j > flushed /\ IsRecord(Chain[j]) /\ y = Chain[j]
  BY FrontBack DEF Pictured
<1>2. CASE x \in FrontPart(Chain, flushed)
  <2>1. PICK i \in DOMAIN Chain : i <= flushed /\ IsRecord(Chain[i]) /\ x = Chain[i]
    BY <1>2, FrontBack
  <2>2. i < j
    BY <1>1, <2>1 DEF Pictured
  <2> QED
    BY <1>1, <2>1, <2>2, ChainPlaces
<1>3. CASE x \in ArchivedRecords
  <2>1. PICK a \in DOMAIN archives : x \in Records(archives[a])
    BY <1>3, ArchivedRecordsMember
  <2>2. PICK i \in DOMAIN archives[a] : IsRecord(archives[a][i]) /\ x = archives[a][i]
    BY <2>1, RecordsMember
  <2> QED
    BY <1>1, <2>2 DEF Chained, AllBefore
<1> QED
  BY <1>2, <1>3 DEF Pictured

(* A log m that holds the chain's records up to k is the log and the front  *)
(* of the queue, and what is after k is the rest of the queue.              *)
LEMMA MovesFront ==
  ASSUME Pictured, Chained, NEW m, Ordered(m), NEW k \in Nat, k >= flushed,
         Members(m) = ArchivedRecords \cup FrontPart(Chain, k)
  PROVE  \E n \in 0..Len(Queued) :
           /\ m = OnDisk \o SubSeq(Queued, 1, n)
           /\ \A r : Ordered(r) /\ Members(r) = BackPart(Chain, k)
                       => r = SubSeq(Queued, n + 1, Len(Queued))
<1> DEFINE P == BackPart(Chain, flushed) \cap FrontPart(Chain, k)
<1>1. /\ flushed \in Nat /\ DOMAIN Chain \subseteq Nat /\ Ordered(OnDisk) /\ Ordered(Queued)
      /\ Members(OnDisk) = ArchivedRecords \cup FrontPart(Chain, flushed)
      /\ Members(Queued) = BackPart(Chain, flushed)
  BY DEF Pictured
<1>2. \A x : x \in P <=> \E i \in DOMAIN Chain :
                           i > flushed /\ i <= k /\ IsRecord(Chain[i]) /\ x = Chain[i]
  <2>1. ASSUME NEW x \in P
        PROVE  \E i \in DOMAIN Chain : i > flushed /\ i <= k /\ IsRecord(Chain[i]) /\ x = Chain[i]
    <3>1. PICK i \in DOMAIN Chain : i > flushed /\ IsRecord(Chain[i]) /\ x = Chain[i]
      BY <2>1, FrontBack
    <3>2. PICK j \in DOMAIN Chain : j <= k /\ IsRecord(Chain[j]) /\ x = Chain[j]
      BY <2>1, FrontBack
    <3>3. i = j
      BY <3>1, <3>2, ChainPlaces
    <3> QED
      BY <3>1, <3>2, <3>3
  <2>2. ASSUME NEW i \in DOMAIN Chain, i > flushed, i <= k, IsRecord(Chain[i])
        PROVE  Chain[i] \in P
    BY <2>2, FrontBack
  <2> QED
    BY <2>1, <2>2
<1> HIDE DEF P
<1>3. P \subseteq Members(Queued)
  BY <1>1 DEF P
<1>4. ASSUME NEW x \in P, NEW y \in Members(Queued), y.id < x.id
      PROVE  y \in P
  <2>1. PICK i \in DOMAIN Chain : i > flushed /\ i <= k /\ IsRecord(Chain[i]) /\ x = Chain[i]
    BY <1>2
  <2>2. PICK j \in DOMAIN Chain : j > flushed /\ IsRecord(Chain[j]) /\ y = Chain[j]
    BY <1>1, FrontBack
  <2>3. j < i
    BY <1>4, <2>1, <2>2, ChainPlaces
  <2>4. j <= k
    BY <1>1, <2>1, <2>3
  <2> QED
    BY <1>2, <2>2, <2>4
<1>5. Members(m) = Members(OnDisk) \cup P
  <2>1. ASSUME NEW x \in FrontPart(Chain, k)
        PROVE  x \in FrontPart(Chain, flushed) \cup P
    <3>1. PICK i \in DOMAIN Chain : i <= k /\ IsRecord(Chain[i]) /\ x = Chain[i]
      BY <2>1, FrontBack
    <3>2. i <= flushed \/ i > flushed
      BY <1>1
    <3> QED
      BY <1>2, <3>1, <3>2, FrontBack
  <2>2. ASSUME NEW x \in FrontPart(Chain, flushed)
        PROVE  x \in FrontPart(Chain, k)
    <3>1. PICK i \in DOMAIN Chain : i <= flushed /\ IsRecord(Chain[i]) /\ x = Chain[i]
      BY <2>2, FrontBack
    <3>2. i <= k
      BY <1>1, <3>1
    <3> QED
      BY <3>1, <3>2, FrontBack
  <2>3. P \subseteq FrontPart(Chain, k)
    BY DEF P
  <2> QED
    BY <1>1, <2>1, <2>2, <2>3
<1>6. Members(Queued) \ P = BackPart(Chain, k)
  <2>1. ASSUME NEW x \in Members(Queued), x \notin P
        PROVE  x \in BackPart(Chain, k)
    <3>1. PICK i \in DOMAIN Chain : i > flushed /\ IsRecord(Chain[i]) /\ x = Chain[i]
      BY <1>1, FrontBack
    <3>2. i > k
      <4>1. ~(i <= k)
        BY <1>2, <2>1, <3>1
      <4> QED
        BY <1>1, <4>1
    <3> QED
      BY <3>1, <3>2, FrontBack
  <2>2. ASSUME NEW x \in BackPart(Chain, k)
        PROVE  x \in Members(Queued) /\ x \notin P
    <3>1. PICK i \in DOMAIN Chain : i > k /\ IsRecord(Chain[i]) /\ x = Chain[i]
      BY <2>2, FrontBack
    <3>2. i > flushed
      BY <1>1, <3>1
    <3>3. x \notin P
      <4> SUFFICES ASSUME x \in P PROVE FALSE
        OBVIOUS
      <4>1. PICK j \in DOMAIN Chain : j <= k /\ IsRecord(Chain[j]) /\ x = Chain[j]
        BY <1>2
      <4>2. i = j
        BY <3>1, <4>1, ChainPlaces
      <4> QED
        BY <1>1, <3>1, <4>1, <4>2
    <3> QED
      BY <1>1, <3>1, <3>2, <3>3, FrontBack
  <2> QED
    BY <2>1, <2>2
<1>7. \A x \in Members(OnDisk) : \A y \in Members(Queued) : x.id < y.id
  BY LogBeforeQueue
<1>8. PICK n \in 0..Len(Queued) :
         /\ m = OnDisk \o SubSeq(Queued, 1, n)
         /\ \A r : Ordered(r) /\ Members(r) = Members(Queued) \ P
                     => r = SubSeq(Queued, n + 1, Len(Queued))
  <2>0. Ordered(OnDisk) /\ Ordered(Queued)
    BY <1>1
  <2>1. \A x \in P : \A y \in Members(Queued) : y.id < x.id => y \in P
    BY <1>4
  <2>2. Oldest(P, Queued)
    BY <1>3, <2>1 DEF Oldest
  <2> QED
    BY ONLY <2>0, Ordered(m), <1>7, <2>2, <1>5, MovesOldest
<1> QED
  BY <1>6, <1>8

-----------------------------------------------------------------------------
(* Concatenation is associative.                                            *)
LEMMA ConcatCells ==
  ASSUME NEW a \in Seq(Cell), NEW b \in Seq(Cell), NEW c \in Seq(Cell)
  PROVE  a \o (b \o c) = (a \o b) \o c
BY ONLY SMTT(30), a \in Seq(Cell), b \in Seq(Cell), c \in Seq(Cell), ConcatAssociative

(* A step of ShardLog.                                                      *)
LogStep == Abstract!Next \/ UNCHANGED <<OnDisk, Queued, Retired>>

(* What may go changes with the archives only.                              *)
LEMMA RetiredSame == archives' = archives => Retired' = Retired
BY Logs

(* A step that persists or nothing.                                         *)
LEMMA PersistLog ==
  ASSUME Pictured, Chained, Pictured', Chain' = Chain, archives' = archives, flushed' >= flushed
  PROVE  LogStep
<1>1. /\ Ordered(OnDisk') /\ flushed' \in Nat
      /\ Members(OnDisk') = ArchivedRecords \cup FrontPart(Chain, flushed')
      /\ Ordered(Queued') /\ Members(Queued') = BackPart(Chain, flushed')
  BY PicturedParts
<1>2. PICK n \in 0..Len(Queued) :
           /\ OnDisk' = OnDisk \o SubSeq(Queued, 1, n)
           /\ Queued' = SubSeq(Queued, n + 1, Len(Queued))
  BY <1>1, MovesFront
<1>3. CASE n # 0
  <2>1. n \in 1..Len(Queued)
    BY <1>3
  <2>2. \E k \in 1..Len(Queued) : Abstract!Persist(k)
    BY <1>2, <2>1, RetiredSame DEF Abstract!Persist
  <2> QED
    BY <2>2, Zenon DEF LogStep, Abstract!Next
<1>4. CASE n = 0
  <2>1. OnDisk \in Seq(Record) /\ Queued \in Seq(Record)
    BY DEF Pictured, Ordered
  <2>2. SubSeq(Queued, 1, 0) = <<>> /\ SubSeq(Queued, 1, Len(Queued)) = Queued
    BY <2>1
  <2>3. OnDisk \o <<>> = OnDisk
    BY ONLY <2>1, ConcatEmptySeq
  <2> QED
    <3>1. n + 1 = 1
      BY <1>4
    <3>2. OnDisk' = OnDisk /\ Queued' = Queued
      BY ONLY <1>2, <1>4, <2>2, <2>3, <3>1
    <3> QED
      BY <3>2, RetiredSame DEF LogStep
<1> QED
  BY <1>3, <1>4

(* A step after which the log is the same and the queue is empty.           *)
LEMMA CrashLog ==
  ASSUME Queued' = <<>>, archives' = archives,
         NEW n \in 0..Len(Queued), OnDisk' = OnDisk \o SubSeq(Queued, 1, n)
  PROVE  LogStep
BY RetiredSame DEF LogStep, Abstract!Next, Abstract!Crash

(* ... in particular when the log does not change at all.                   *)
LEMMA KeepsLog ==
  ASSUME Queued' = <<>>, Queued \in Seq(Record), OnDisk \in Seq(Record), OnDisk' = OnDisk,
         archives' = archives
  PROVE  LogStep
<1>1. SubSeq(Queued, 1, 0) = <<>> /\ 0 \in 0..Len(Queued)
  OBVIOUS
<1>2. OnDisk \o <<>> = OnDisk
  BY ONLY OnDisk \in Seq(Record), ConcatEmptySeq
<1> QED
  BY <1>1, <1>2, CrashLog

(* A step that leaves the chain and the archives and reports no less.       *)
LEMMA ChainStep ==
  ASSUME Known, Known', Attached, ~Offline', Chain' = Chain, archives' = archives,
         flushed' >= flushed
  PROVE  LogStep
<1>1. Chained /\ Pictured
  BY AttachedChain, Picture DEF Attached, Offline
<1>2. Increasing("id", Chain)' /\ (\A a \in DOMAIN archives : AllBefore(archives[a], Chain))'
  BY <1>1 DEF Chained, Increasing, AllBefore, IsRecord
<1>3. Chained'
  BY <1>2 DEF Chained
<1> QED
  BY <1>1, <1>3, NextPicture, PersistLog

(* A step that does not move a record.                                      *)
LEMMA StillStep ==
  ASSUME UNCHANGED <<file, tail, batch, pending, archives>>
  PROVE  LogStep
BY Logs DEF LogStep, Waiting

(* What is known of the two states of a step.                               *)
LEMMA KnownTypes ==
  Known => /\ TypeOK /\ Control /\ ~misused /\ Writer
           /\ tail \in Seq(Cell) /\ file \in Seq(Cell) /\ stream \in Seq(Cell)
           /\ batch \in Seq(Record) /\ pending \in Seq(Record)
           /\ batch \in Seq(Cell) /\ pending \in Seq(Cell) /\ Waiting \in Seq(Cell)
           /\ write_offset \in Nat /\ flushed \in Nat
           /\ archives \in Seq(Seq(Cell)) /\ life \in LifeKind
<1> SUFFICES ASSUME Known
             PROVE  /\ TypeOK /\ Control /\ ~misused /\ Writer
                    /\ tail \in Seq(Cell) /\ file \in Seq(Cell) /\ stream \in Seq(Cell)
                    /\ batch \in Seq(Record) /\ pending \in Seq(Record)
                    /\ batch \in Seq(Cell) /\ pending \in Seq(Cell) /\ Waiting \in Seq(Cell)
                    /\ write_offset \in Nat /\ flushed \in Nat
                    /\ archives \in Seq(Seq(Cell)) /\ life \in LifeKind
  OBVIOUS
<1>1. TypeOK /\ Control /\ ~misused /\ Writer
  BY DEF Known, IndInv, ReadyInv
<1> QED
  BY <1>1, ViewTypes, WriterTypes, TypeParts

(* ... and after it.                                                        *)
LEMMA NextTypes ==
  Known' => /\ TypeOK' /\ Control' /\ flushed' \in Nat /\ stream' \in Seq(Cell)
            /\ file' \in Seq(Cell) /\ tail' \in Seq(Cell)
            /\ batch' \in Seq(Record) /\ pending' \in Seq(Record) /\ archives' \in Seq(Seq(Cell))
<1>1. (Known => /\ TypeOK /\ Control /\ flushed \in Nat /\ stream \in Seq(Cell)
                /\ file \in Seq(Cell) /\ tail \in Seq(Cell)
                /\ batch \in Seq(Record) /\ pending \in Seq(Record)
                /\ archives \in Seq(Seq(Cell)))'
  <2>1. Known => /\ TypeOK /\ Control /\ flushed \in Nat /\ stream \in Seq(Cell)
                 /\ file \in Seq(Cell) /\ tail \in Seq(Cell)
                 /\ batch \in Seq(Record) /\ pending \in Seq(Record)
                 /\ archives \in Seq(Seq(Cell))
    BY KnownTypes
  <2> QED
    BY <2>1, PTL
<1>2. (stream \in Seq(Cell))' = (stream' \in Seq(Cell))
      /\ (file \in Seq(Cell))' = (file' \in Seq(Cell))
      /\ (tail \in Seq(Cell))' = (tail' \in Seq(Cell))
      /\ (archives \in Seq(Seq(Cell)))' = (archives' \in Seq(Seq(Cell)))
      /\ (batch \in Seq(Record))' = (batch' \in Seq(Record))
      /\ (pending \in Seq(Record))' = (pending' \in Seq(Record))
  BY DEF Cell, Record
<1> QED
  BY <1>1, <1>2

(* One bound is beyond another when it covers all that is below it.         *)
LEMMA Reaches ==
  ASSUME NEW a \in Nat, NEW b \in Nat, \A i \in 1..a : i \in 1..b
  PROVE  b >= a
<1>1. CASE a = 0
  BY <1>1
<1>2. CASE a # 0
  <2>1. a \in 1..b
    BY <1>2
  <2> QED
    BY <2>1
<1> QED
  BY <1>1, <1>2

(* The steps that write the tail or nothing: of a flush, of a rotation up   *)
(* to the rename, of stop, the checkpoints, and taking the queue.           *)
LEMMA WritesLog ==
  ASSUME Known, Known', Attached, ~Offline', Waiting' = Waiting, archives' = archives,
         AW!ForceFlush \/ AW!FlushTail \/ AW!Close \/ UNCHANGED writerVars
  PROVE  LogStep
<1>1. Writer /\ ~misused /\ flushed \in Nat /\ flushed' \in Nat
  BY KnownTypes, NextTypes
<1>2. stream' = stream /\ \A i \in 1..flushed : i \in 1..flushed'
  BY <1>1, WriterReports
<1>3. flushed' >= flushed
  BY <1>1, <1>2, Reaches
<1>4. Chain' = Chain
  BY <1>2 DEF Chain
<1> QED
  BY <1>3, <1>4, ChainStep

(* The forced flush and the rotation, up to the rename and after the open.  *)
LEMMA FlushLog ==
  ASSUME Known, Known',
         FlushForce \/ RotateCheckpoint \/ RotateCheckpointFails \/ RotateSeal \/ RotateClose
  PROVE  LogStep
<1>1. /\ flush.pc # "idle" /\ archives' = archives
      /\ AW!ForceFlush \/ AW!FlushTail \/ AW!Close \/ UNCHANGED writerVars
  BY DEF FlushForce, RotateCheckpoint, RotateCheckpointFails, RotateSeal, RotateClose,
     PersistCheckpoint, PersistCheckpointFails, diskVars
<1>2. life \in {"up", "stopping", "gate"}
  BY <1>1, KnownTypes DEF Control
<1>3. life' = life \/ life' = "failed"
  BY DEF FlushForce, RotateCheckpoint, RotateCheckpointFails, RotateSeal, RotateClose,
     FlushThrows, ErrorReturned
<1>4. Waiting' = Waiting
  <2>1. CASE RotateCheckpointFails
    BY <1>1, <2>1, ThrowsOK DEF RotateCheckpointFails, Known
  <2>2. CASE FlushForce \/ RotateCheckpoint \/ RotateSeal \/ RotateClose
    BY <2>2 DEF FlushForce, RotateCheckpoint, RotateSeal, RotateClose, queueVars, Waiting
  <2> QED
    BY <2>1, <2>2
<1> QED
  BY <1>1, <1>2, <1>3, <1>4, WritesLog DEF Attached, Offline

(* The steps of stop that write, and the checkpoint of start.               *)
LEMMA StopLog ==
  ASSUME Reliable, Known, Known',
         StopTail \/ StopCheckpoint \/ StopClose \/ StopFails \/ StartCheckpoint
  PROVE  LogStep
<1>1. /\ archives' = archives /\ UNCHANGED queueVars
      /\ AW!ForceFlush \/ AW!FlushTail \/ AW!Close \/ UNCHANGED writerVars
  BY NoSuchFault DEF StopTail, StopCheckpoint, StopClose, StopFails, StartCheckpoint,
     PersistCheckpoint, PersistCheckpointFails, diskVars
<1>2. /\ life \in {"stop_tail", "stop_checkpoint", "stop_close", "start_checkpoint"}
      /\ life' \notin {"down", "recover"}
  BY DEF StopTail, StopCheckpoint, StopClose, StopFails, StartCheckpoint
<1>3. Waiting' = Waiting
  BY <1>1 DEF queueVars, Waiting
<1> QED
  BY <1>1, <1>2, <1>3, WritesLog DEF Attached, Offline

(* The timer or stop takes the queue: the records only change hands.        *)
LEMMA StartFlushLog ==
  ASSUME Known, Known', Timer \/ StopFlush
  PROVE  LogStep
<1>1. /\ UNCHANGED writerVars /\ archives' = archives
      /\ life \in {"up", "stopping"} /\ life' = life
  BY DEF Timer, StopFlush, diskVars
<1>2. PICK owner \in Submitters \cup {"timer", "stop"}, partial \in BOOLEAN :
        StartFlush(pending, owner, partial)
  BY DEF Timer, StopFlush
<1>3. Waiting' = pending /\ Waiting = pending
  BY <1>2, StartFlushOK, KnownTypes DEF Known
<1> QED
  BY <1>1, <1>3, WritesLog DEF Attached, Offline

(* append_batch puts the full blocks of tail and batch in the file.         *)
LEMMA AppendLog ==
  ASSUME Known, Known', FlushAppend
  PROVE  LogStep
<1>1. flush.pc = "append" /\ AW!AppendBatch(batch) /\ batch' = <<>> /\ pending' = pending
      /\ life' = life /\ archives' = archives
  BY DEF FlushAppend, diskVars
<1>2. life \in {"up", "stopping", "gate"}
  BY <1>1, KnownTypes DEF Control
<1>3. AW!Ready
  BY <1>1, <1>2 DEF Known, ReadyInv
<1>4. stream' = stream \o batch /\ \A i \in 1..flushed : i \in 1..flushed'
  BY <1>1, <1>3, KnownTypes, AppendReports
<1>5. flushed' >= flushed
  BY <1>4, KnownTypes, NextTypes, Reaches
<1>6. (stream \o batch) \o (<<>> \o pending) = stream \o (batch \o pending)
  <2>1. stream \in Seq(Cell) /\ batch \in Seq(Cell) /\ pending \in Seq(Cell)
    BY KnownTypes
  <2>2. <<>> \o pending = pending
    BY ONLY <2>1, ConcatEmptySeq
  <2>3. (stream \o batch) \o pending = stream \o (batch \o pending)
    BY <2>1, ConcatCells
  <2> QED
    BY <2>2, <2>3
<1>7. Chain' = Chain
  BY <1>1, <1>4, <1>6 DEF Chain, Waiting
<1> QED
  BY <1>1, <1>2, <1>5, <1>7, ChainStep DEF Attached, Offline

(* The next segment is opened: it has nothing in it, and nothing moves.     *)
LEMMA ReopenLog ==
  ASSUME Known, Known', RotateReopen
  PROVE  LogStep
<1>1. /\ flush.pc = "reopen" /\ life' = life /\ archives' = archives /\ UNCHANGED queueVars
      /\ stream' = <<>> /\ flushed' = 0
  BY DEF RotateReopen, AW!Start, diskVars
<1>2. life \in {"up", "stopping", "gate"}
  BY <1>1, KnownTypes DEF Control
<1>3. stream = <<>>
  BY <1>1 DEF Known, ReadyInv
<1>4. flushed <= Len(stream) /\ flushed \in Nat
  BY KnownTypes, WriterParts
<1>5. flushed' >= flushed
  BY <1>1, <1>3, <1>4
<1>6. Chain' = Chain
  BY <1>1, <1>3 DEF Chain, Waiting, queueVars
<1> QED
  BY <1>1, <1>2, <1>5, <1>6, ChainStep DEF Attached, Offline

(* The steps that only move a task.                                         *)
LEMMA TaskLog ==
  ASSUME \/ \E s \in Submitters : Resume(s) \/ Wake(s)
         \/ Stop \/ StopDrained \/ StopGate \/ UNCHANGED vars
  PROVE  LogStep
<1>1. UNCHANGED <<file, tail, batch, pending, archives>>
  BY DEF Resume, Wake, Stop, StopDrained, StopGate, vars, writerVars, queueVars, diskVars
<1> QED
  BY <1>1, StillStep

-----------------------------------------------------------------------------
(* RecordsOf returns records, in whatever order the cells are.              *)
LEMMA RecordsOfTyped ==
  ASSUME NEW c \in Seq(Cell), NEW known
  PROVE  RecordsOf(c, known) \in Seq(Record)
<1>1. PICK F : Picks(F, c, known, Len(c)) /\ RecordsOf(c, known) = F[Len(c)]
  BY RecordsOfIs
<1>2. Len(c) \in Nat /\ DOMAIN c = 1..Len(c) /\ \A i \in DOMAIN c : c[i] \in Cell
  OBVIOUS
<1>3. \A n \in 0..Len(c) : F[n] = IF n = 0 THEN <<>>
                                  ELSE IF IsRecord(c[n]) /\ c[n].id \notin known
                                       THEN Append(F[n - 1], c[n])
                                       ELSE F[n - 1]
  BY <1>1 DEF Picks
<1> DEFINE S == {n \in Nat : n <= Len(c) => F[n] \in Seq(Record)}
<1>4. 0 \in S
  <2>1. F[0] = <<>>
    BY <1>2, <1>3
  <2>2. F[0] \in Seq(Record)
    BY <2>1
  <2> QED
    BY <2>2
<1>5. ASSUME NEW n \in Nat, n \in S
      PROVE  n + 1 \in S
  <2> SUFFICES ASSUME n + 1 <= Len(c) PROVE F[n + 1] \in Seq(Record)
    OBVIOUS
  <2>1. n + 1 \in DOMAIN c /\ n + 1 \in 0..Len(c) /\ n + 1 # 0 /\ (n + 1) - 1 = n /\ n <= Len(c)
    BY <1>2
  <2>2. F[n] \in Seq(Record)
    BY <1>5, <2>1
  <2>3. F[n + 1] = IF IsRecord(c[n + 1]) /\ c[n + 1].id \notin known
                   THEN Append(F[n], c[n + 1]) ELSE F[n]
    BY <1>3, <2>1
  <2>4. IsRecord(c[n + 1]) => c[n + 1] \in Record
    BY <1>2, <2>1, RecordKeys
  <2> QED
    BY <2>2, <2>3, <2>4
<1>6. Len(c) \in S
  <2> HIDE DEF S
  <2> QED
    BY <1>2, <1>4, <1>5, Inductive
<1> QED
  BY <1>1, <1>2, <1>6

(* Queue and log are sequences of records in every state.                   *)
LEMMA QueueTyped == Known => Queued \in Seq(Record) /\ OnDisk \in Seq(Record)
<1> SUFFICES ASSUME Known PROVE Queued \in Seq(Record) /\ OnDisk \in Seq(Record)
  OBVIOUS
<1>1. tail \o Waiting \in Seq(Cell)
  BY KnownTypes
<1>2. Queued \in Seq(Record)
  BY <1>1, RecordsOfTyped DEF Queued, Waiting
<1> QED
  BY <1>2, OnDiskRecords DEF Known, Ordered

(* No cells, no records.                                                    *)
LEMMA NoRecords == \A known : RecordsOf(<<>>, known) = <<>>
<1> SUFFICES ASSUME NEW known PROVE RecordsOf(<<>>, known) = <<>>
  OBVIOUS
<1>1. <<>> \in Seq(Cell) /\ Len(<<>>) = 0
  OBVIOUS
<1>2. PICK F : Picks(F, <<>>, known, Len(<<>>)) /\ RecordsOf(<<>>, known) = F[Len(<<>>)]
  BY <1>1, RecordsOfIs
<1>3. Picks(F, <<>>, known, 0) /\ RecordsOf(<<>>, known) = F[0]
  BY ONLY <1>1, <1>2
<1> QED
  BY <1>3 DEF Picks

(* An empty tail, batch and queue are an empty queue of the abstract log.   *)
LEMMA NothingQueued ==
  /\ tail = <<>> /\ batch = <<>> /\ pending = <<>> => Queued = <<>>
  /\ tail' = <<>> /\ batch' = <<>> /\ pending' = <<>> => Queued' = <<>>
<1>1. <<>> \o (<<>> \o <<>>) = <<>>
  OBVIOUS
<1>2. \A f : Behind(f, <<>>, <<>> \o <<>>) = <<>>
  BY <1>1, NoRecords DEF Behind
<1> QED
  BY <1>2, Logs DEF Waiting

(* A start or the end of the process: what was queued is gone.              *)
LEMMA GoneLog ==
  ASSUME Known, file' = file, archives' = archives, tail' = <<>>, batch' = <<>>, pending' = <<>>
  PROVE  LogStep
<1>1. Queued' = <<>>
  BY NothingQueued
<1>2. OnDisk' = OnDisk
  BY Logs
<1> QED
  BY <1>1, <1>2, QueueTyped, KeepsLog

(* start opens the file, or the process dies between two writes.            *)
LEMMA StartLog ==
  ASSUME ~TruncateOnStart, Known, StartOpen \/ Crash \/ AppendToNoFile
  PROVE  LogStep
<1>1. file' = file /\ archives' = archives /\ tail' = <<>> /\ pending' = <<>>
  BY DEF StartOpen, Crash, AppendToNoFile, AW!Start, AW!Crash, AW!ProcessForgets, AW!diskVars,
     ProcessDies, diskVars
<1>2. batch' = <<>>
  <2>1. CASE StartOpen
    <3>1. life \in {"down", "stopped"} /\ batch' = batch
      BY <2>1 DEF StartOpen
    <3>2. flush.pc = "idle"
      BY <3>1, KnownTypes DEF Control
    <3> QED
      BY <3>1, <3>2, KnownTypes DEF Control
  <2>2. CASE Crash \/ AppendToNoFile
    BY <2>2 DEF Crash, AppendToNoFile, ProcessDies
  <2> QED
    BY <2>1, <2>2
<1> QED
  BY <1>1, <1>2, GoneLog

(* A log with the same records is the same log.                             *)
LEMMA SameLog ==
  ASSUME Known, Known', archives' = archives, Records(file') = Records(file)
  PROVE  OnDisk' = OnDisk
<1>1. Ordered(OnDisk) /\ Members(OnDisk) = ArchivedRecords \cup Records(file)
  BY OnDiskRecords DEF Known
<1>2. Ordered(OnDisk') /\ Members(OnDisk') = ArchivedRecords' \cup Records(file')
  BY NextPicture DEF Known
<1>3. ArchivedRecords' = ArchivedRecords
  BY PicturedParts
<1> QED
  BY <1>1, <1>2, <1>3, OrderedSame

(* Recovery keeps every record of the file and has none in memory.          *)
LEMMA RecoverLog ==
  ASSUME Known, Known', Recover
  PROVE  LogStep
<1>0. TypeOK /\ Control /\ file \in Seq(Cell) /\ IndInv /\ tail \in Seq(Cell)
  BY KnownTypes DEF Known
<1>1. PICK from \in Nat, next \in Nat :
        from <= Len(file) /\ AW!TruncateTo(Scan(from, next).size)
  BY <1>0, RecoverCase
<1> DEFINE size == Scan(from, next).size
<1>2. size \in Nat /\ AW!TruncateTo(size)
  BY <1>0, <1>1, ScanCells
<1>3. \A i \in DOMAIN file : IsRecord(file[i]) => i <= size
  BY <1>0, <1>1, ScanReaches
<1> HIDE DEF size
<1>4. /\ file' = AW!Truncated(file, size) /\ flushed' = size /\ stream' = file'
  BY <1>2 DEF AW!TruncateTo
<1>5. /\ file' \in Seq(Cell) /\ Len(file') = size
      /\ \A i \in DOMAIN file' : IsRecord(file'[i]) => i \in DOMAIN file /\ file'[i] = file[i]
      /\ \A i \in DOMAIN file : i <= size => i \in DOMAIN file' /\ file'[i] = file[i]
  BY <1>0, <1>2, <1>4, TruncatedCells
<1>6. /\ life = "recover" /\ life' \in {"start_checkpoint", "up"} /\ archives' = archives
      /\ UNCHANGED <<batch, pending>>
  BY DEF Recover, diskVars
<1>7. batch = <<>> /\ pending = <<>> /\ tail = <<>>
  <2>1. flush.pc = "idle" /\ pending = <<>>
    BY <1>0, <1>6 DEF Control
  <2>2. batch = <<>>
    BY <1>0, <2>1 DEF Control
  <2>3. Len(tail) = 0
    BY <1>6 DEF Known, Exact, Offline
  <2> QED
    BY <1>0, <2>1, <2>2, <2>3
<1>8. Queued = <<>>
  BY <1>7, NothingQueued
<1>9. Queued' = <<>>
  <2>1. Attached' /\ ~Offline'
    BY <1>6 DEF Attached, Offline
  <2>2. Pictured'
    BY <2>1, NextPicture
  <2>3. Ordered(Queued') /\ Members(Queued') = BackPart(Chain', flushed')
    BY <2>2, PicturedParts
  <2>4. Chain' = file'
    <3>1. <<>> \o <<>> = <<>> /\ file' \o <<>> = file'
      BY ONLY <1>5, ConcatEmptySeq
    <3>2. Waiting' = <<>>
      BY <1>6, <1>7, <3>1 DEF Waiting
    <3> QED
      BY <1>4, <3>1, <3>2 DEF Chain
  <2>5. \A i \in DOMAIN file' : ~(i > size)
    BY <1>2, <1>5
  <2>6. \A x : x \notin Members(Queued')
    BY <1>4, <2>3, <2>4, <2>5, FrontBack
  <2>7. Queued' \in Seq(Record) /\ DOMAIN Queued' = {}
    BY <2>3, <2>6, MembersOf DEF Ordered
  <2> QED
    BY <2>7
<1>10. Records(file') = Records(file)
  <2>1. \A x : x \in Records(file') => x \in Records(file)
    BY <1>5, RecordsMember
  <2>2. \A x : x \in Records(file) => x \in Records(file')
    BY <1>3, <1>5, RecordsMember
  <2> QED
    BY <2>1, <2>2
<1>11. OnDisk' = OnDisk
  BY <1>6, <1>10, SameLog
<1> QED
  BY <1>6, <1>8, <1>9, <1>11, RetiredSame DEF LogStep

-----------------------------------------------------------------------------
(* What an append is about to write is the chain from the write offset on.  *)
LEMMA AheadChain ==
  ASSUME Known, file_open, AW!Ready
  PROVE  /\ Len(stream) = write_offset + Len(tail)
         /\ \A i \in DOMAIN stream : i \in DOMAIN Chain /\ Chain[i] = stream[i]
         /\ \A j \in 1..Len(tail \o batch) : /\ write_offset + j \in DOMAIN Chain
                                             /\ Chain[write_offset + j] = (tail \o batch)[j]
<1>1. /\ tail \in Seq(Cell) /\ stream \in Seq(Cell) /\ write_offset \in Nat
      /\ batch \in Seq(Cell) /\ pending \in Seq(Cell) /\ Waiting \in Seq(Cell)
      /\ Len(tail) \in Nat /\ Len(stream) \in Nat /\ Len(batch) \in Nat /\ Len(pending) \in Nat
      /\ Writer /\ ~misused
  BY KnownTypes
<1>2. Len(stream) = write_offset + Len(tail)
  BY <1>1, WriterParts DEF AW!Ready
<1>3. /\ DOMAIN stream = 1..Len(stream) /\ DOMAIN Chain = 1..(Len(stream) + Len(Waiting))
      /\ \A i \in 1..Len(stream) : Chain[i] = stream[i]
      /\ \A i \in 1..Len(Waiting) : Chain[Len(stream) + i] = Waiting[i]
      /\ Len(Waiting) = Len(batch) + Len(pending)
      /\ \A i \in 1..Len(batch) : Waiting[i] = batch[i]
  BY <1>1 DEF Chain, Waiting
<1>4. \A i \in DOMAIN stream : i \in DOMAIN Chain /\ Chain[i] = stream[i]
  <2>1. Len(Waiting) \in Nat
    BY <1>1
  <2> QED
    BY <1>1, <1>3, <2>1
<1>5. /\ Len(tail \o batch) = Len(tail) + Len(batch)
      /\ \A j \in 1..Len(tail) : (tail \o batch)[j] = tail[j]
      /\ \A j \in 1..Len(batch) : (tail \o batch)[Len(tail) + j] = batch[j]
  BY <1>1
<1>6. ASSUME NEW j \in 1..Len(tail \o batch)
      PROVE  /\ write_offset + j \in DOMAIN Chain
             /\ Chain[write_offset + j] = (tail \o batch)[j]
  <2>1. CASE j <= Len(tail)
    <3>1. j \in 1..Len(tail) /\ j \in DOMAIN tail
      BY <1>1, <2>1
    <3>2. write_offset + j \in DOMAIN stream
      BY <1>1, <1>2, <1>3, <3>1
    <3>3. tail[j] = stream[write_offset + j]
      BY <1>1, <3>1, TailEnds DEF Known
    <3> QED
      BY <1>4, <1>5, <3>1, <3>2, <3>3
  <2>2. CASE j > Len(tail)
    <3>1. PICK i \in 1..Len(batch) : j = Len(tail) + i
      <4>1. j - Len(tail) \in 1..Len(batch) /\ j = Len(tail) + (j - Len(tail))
        BY <1>1, <1>5, <2>2
      <4> QED
        BY <4>1
    <3>2. /\ write_offset + j = Len(stream) + i /\ i \in 1..Len(Waiting)
          /\ Len(stream) + i \in 1..(Len(stream) + Len(Waiting))
      BY <1>1, <1>2, <1>3, <3>1
    <3> QED
      BY <1>3, <1>5, <3>1, <3>2
  <2> QED
    BY <1>1, <2>1, <2>2
<1> QED
  BY <1>2, <1>4, <1>6

(* The first blocks of an append that the process dies in hold the chain up *)
(* to some place behind all that was reported.                              *)
LEMMA CrashBlocks ==
  ASSUME Known, CrashInAppend
  PROVE  \E k \in Nat : k >= flushed /\ Records(file') = FrontPart(Chain, k)
<1>0. /\ tail \in Seq(Cell) /\ batch \in Seq(Cell) /\ file \in Seq(Cell) /\ stream \in Seq(Cell)
      /\ write_offset \in Nat /\ Len(tail) \in Nat /\ Len(file) \in Nat /\ flushed \in Nat
      /\ AW!TypeOK /\ TypeOK /\ Control /\ Writer /\ ~misused /\ Len(stream) \in Nat
  <2>1. /\ tail \in Seq(Cell) /\ batch \in Seq(Cell) /\ file \in Seq(Cell) /\ stream \in Seq(Cell)
        /\ write_offset \in Nat /\ flushed \in Nat /\ TypeOK /\ Control /\ Writer /\ ~misused
    BY KnownTypes
  <2>2. AW!TypeOK
    BY <2>1, ViewTypes
  <2>3. Len(tail) \in Nat /\ Len(file) \in Nat /\ Len(stream) \in Nat
    BY <2>1
  <2> QED
    BY <2>1, <2>2, <2>3
<1> DEFINE bytes == tail \o batch
<1>1. /\ file_open /\ flush.pc = "append"
      /\ \E last \in 1..(Len(bytes) \div Alignment) :
           file' = AW!OverwriteAll(file, write_offset, SubSeq(bytes, 1, last * Alignment))
  BY DEF CrashInAppend
<1>2. life \in {"up", "stopping", "gate"} /\ AW!Ready /\ ~Offline
  <2>1. life \in {"up", "stopping", "gate"}
    BY <1>0, <1>1 DEF Control
  <2> QED
    BY <1>1, <2>1 DEF Known, ReadyInv, Offline
<1>3. /\ Len(stream) = write_offset + Len(tail)
      /\ \A i \in DOMAIN stream : i \in DOMAIN Chain /\ Chain[i] = stream[i]
      /\ \A j \in 1..Len(bytes) : /\ write_offset + j \in DOMAIN Chain
                                  /\ Chain[write_offset + j] = bytes[j]
  BY <1>1, <1>2, AheadChain
<1>4. bytes \in Seq(Cell) /\ Len(bytes) \in Nat
  BY <1>0
<1> HIDE DEF bytes
<1>5. PICK last \in 1..(Len(bytes) \div Alignment) :
        file' = AW!OverwriteAll(file, write_offset, SubSeq(bytes, 1, last * Alignment))
  BY <1>1
<1> DEFINE n == last * Alignment
           buffer == SubSeq(bytes, 1, n)
<1>6. n \in Nat /\ n <= Len(bytes) /\ n >= Alignment /\ n % Alignment = 0
  <2> DEFINE q == Len(bytes) \div Alignment
  <2>1. Alignment \in Nat \ {0} /\ Len(bytes) \in Nat
    BY Options, <1>4
  <2>2. q \in Nat /\ Alignment * q <= Len(bytes)
    BY <2>1
  <2>3. last \in Nat /\ last <= q /\ last >= 1
    BY <2>2
  <2> HIDE DEF q
  <2>4. n \in Nat /\ n % Alignment = 0
    BY <2>3, WriterOptions, AWP!WholeBlocks
  <2>5. \E d \in Nat : q = last + d
    <3>1. q - last \in Nat /\ q = last + (q - last)
      BY <2>2, <2>3
    <3> QED
      BY <3>1
  <2>6. PICK d \in Nat : q = last + d
    BY <2>5
  <2>7. Alignment * q = last * Alignment + Alignment * d /\ Alignment * d \in Nat
    BY <2>1, <2>3, <2>6
  <2>8. n >= Alignment
    <3>1. PICK e \in Nat : last = 1 + e
      <4>1. last - 1 \in Nat /\ last = 1 + (last - 1)
        BY <2>3
      <4> QED
        BY <4>1
    <3>2. last * Alignment = Alignment + e * Alignment /\ e * Alignment \in Nat
      BY <2>1, <3>1
    <3> QED
      BY <2>1, <3>2
  <2> QED
    BY <2>1, <2>2, <2>4, <2>7, <2>8
<1>7. file' = AW!OverwriteAll(file, write_offset, buffer)
  BY <1>5
<1> HIDE DEF n
<1>8. buffer \in Seq(Cell) /\ Len(buffer) = n /\ \A j \in 1..n : buffer[j] = bytes[j]
  BY <1>4, <1>6
<1> HIDE DEF buffer
<1> DEFINE k == write_offset + n
<1>9. /\ flushed <= Len(stream) /\ Len(tail) < Alignment
      /\ \A i \in 1..Len(stream) : i <= write_offset => i <= Len(file) /\ file[i] = stream[i]
      /\ \A i \in 1..flushed : i <= Len(file) /\ file[i] = stream[i]
  BY <1>0, <1>1, WriterParts
<1>10. k \in Nat /\ k >= flushed
  BY <1>0, <1>3, <1>6, <1>9, Options
<1>11. \A i \in DOMAIN file' : IsRecord(file'[i]) => /\ i \in DOMAIN Chain /\ i <= k
                                                     /\ file'[i] = Chain[i]
  <2> SUFFICES ASSUME NEW i \in DOMAIN file', IsRecord(file'[i])
               PROVE  i \in DOMAIN Chain /\ i <= k /\ file'[i] = Chain[i]
    OBVIOUS
  <2>1. Wrote(file', file, write_offset, buffer, n)
    BY <1>0, <1>7, <1>8, OverwriteAllCells
  <2>2. i \in Nat /\ i > 0
    BY <2>1 DEF Wrote
  <2>3. CASE i \in DOMAIN file /\ file'[i] = file[i]
    <3>1. i <= flushed
      BY <1>2, <2>3 DEF Known, Exact
    <3>2. i \in 1..flushed /\ i \in DOMAIN stream /\ i <= k
      <4>1. flushed \in Nat /\ Len(stream) \in Nat /\ flushed <= Len(stream) /\ k \in Nat
            /\ k >= flushed
        BY <1>0, <1>9, <1>10
      <4>2. i \in 1..flushed /\ i \in 1..Len(stream) /\ i <= k
        BY ONLY <2>2, <3>1, <4>1
      <4> QED
        BY <1>0, <4>2
    <3>3. file[i] = stream[i] /\ i \in DOMAIN Chain /\ Chain[i] = stream[i]
      BY <1>3, <1>9, <3>2
    <3> HIDE DEF k
    <3> QED
      BY <2>3, <3>2, <3>3
  <2>4. CASE i > write_offset /\ i - write_offset <= n /\ i - write_offset \in DOMAIN buffer
             /\ file'[i] = buffer[i - write_offset]
    <3>1. i - write_offset \in 1..n /\ i - write_offset \in 1..Len(bytes)
          /\ write_offset + (i - write_offset) = i /\ i <= k
      BY <1>0, <1>4, <1>6, <2>2, <2>4
    <3> HIDE DEF k
    <3>2. write_offset + (i - write_offset) \in DOMAIN Chain
          /\ Chain[write_offset + (i - write_offset)] = bytes[i - write_offset]
      BY <1>3, <3>1
    <3>3. buffer[i - write_offset] = bytes[i - write_offset]
      BY <1>8, <3>1
    <3> QED
      BY <2>4, <3>1, <3>2, <3>3
  <2> QED
    BY <2>1, <2>3, <2>4 DEF Wrote
<1>12. \A i \in DOMAIN Chain : i <= k => i \in DOMAIN file' /\ file'[i] = Chain[i]
  <2> SUFFICES ASSUME NEW i \in DOMAIN Chain, i <= k
               PROVE  i \in DOMAIN file' /\ file'[i] = Chain[i]
    OBVIOUS
  <2>1. i \in Nat /\ i > 0
    BY <1>0, KnownTypes DEF Chain
  <2>2. CASE i <= write_offset
    <3>1. i \in 1..Len(stream) /\ i \in DOMAIN stream
      BY <1>0, <1>3, <2>1, <2>2
    <3>2. i <= Len(file) /\ file[i] = stream[i]
      BY <1>9, <2>2, <3>1
    <3>3. i \in DOMAIN file
      BY <1>0, <2>1, <3>2
    <3>4. /\ i \in DOMAIN file'
          /\ file'[i] = file[i] \/ i > write_offset
      BY <1>0, <1>7, <1>8, <3>3, OverwriteSpares
    <3>5. ~(i > write_offset)
      BY <1>0, <2>1, <2>2
    <3> QED
      BY <1>3, <3>1, <3>2, <3>4, <3>5
  <2>3. CASE i > write_offset
    <3>1. PICK j \in 1..n : i = write_offset + j
      <4>1. i - write_offset \in 1..n /\ i = write_offset + (i - write_offset)
        BY <1>0, <1>6, <2>1, <2>3
      <4> QED
        BY <4>1
    <3>2. j \in 1..Len(bytes) /\ j \in 1..Len(buffer)
      BY <1>4, <1>6, <1>8
    <3>3. AWP!WrittenWhole(file', write_offset, buffer)
      <4>1. file \in Seq(AWP!Bytes) /\ buffer \in Seq(AWP!Bytes)
        BY <1>0, <1>8 DEF AWP!Bytes, Cell
      <4>2. AWP!WrittenWhole(AWP!OverwriteAll(file, write_offset, buffer), write_offset, buffer)
        BY <1>0, <1>6, <1>8, <4>1, WriterOptions, AWP!OverwriteWhole
      <4> QED
        BY <1>7, <4>2, SameFile
    <3>4. write_offset + j <= Len(file') /\ file'[write_offset + j] = buffer[j]
      BY <3>2, <3>3 DEF AWP!WrittenWhole
    <3>5. i \in DOMAIN file'
      <4>1. Wrote(file', file, write_offset, buffer, n)
        BY <1>0, <1>7, <1>8, OverwriteAllCells
      <4>2. DOMAIN file' = 1..Len(file') /\ Len(file') \in Nat
        BY <4>1 DEF Wrote
      <4> QED
        BY <2>1, <3>1, <3>4, <4>2
    <3> QED
      BY <1>3, <1>8, <3>1, <3>2, <3>4, <3>5
  <2> QED
    BY <1>0, <2>1, <2>2, <2>3
<1>13. Records(file') = FrontPart(Chain, k)
  <2>1. \A x : x \in Records(file') => x \in FrontPart(Chain, k)
    <3> HIDE DEF k
    <3> QED
      BY <1>11, RecordsMember, FrontBack
  <2>2. \A x : x \in FrontPart(Chain, k) => x \in Records(file')
    <3> HIDE DEF k
    <3> QED
      BY <1>12, RecordsMember, FrontBack
  <2> QED
    BY <2>1, <2>2
<1> QED
  BY <1>10, <1>13

(* Such a crash moves the front of the queue to the log, and the rest is    *)
(* gone.                                                                    *)
LEMMA TornLog ==
  ASSUME Known, Known', CrashInAppend
  PROVE  LogStep
<1>1. PICK k \in Nat : k >= flushed /\ Records(file') = FrontPart(Chain, k)
  BY CrashBlocks
<1>2. /\ flush.pc = "append" /\ archives' = archives
      /\ tail' = <<>> /\ batch' = <<>> /\ pending' = <<>>
  BY DEF CrashInAppend, AW!ProcessForgets, ProcessDies, diskVars
<1>3. Attached /\ ~Offline
  BY <1>2, KnownTypes DEF Control, Attached, Offline
<1>4. Chained /\ Pictured
  BY <1>3, AttachedChain, Picture
<1>5. Ordered(OnDisk') /\ Members(OnDisk') = ArchivedRecords \cup FrontPart(Chain, k)
  <2>1. Ordered(OnDisk') /\ Members(OnDisk') = ArchivedRecords' \cup Records(file')
    BY NextPicture DEF Known
  <2>2. ArchivedRecords' = ArchivedRecords
    BY <1>2, PicturedParts
  <2> QED
    BY <1>1, <2>1, <2>2
<1>6. PICK n \in 0..Len(Queued) : OnDisk' = OnDisk \o SubSeq(Queued, 1, n)
  BY <1>1, <1>4, <1>5, MovesFront
<1>7. Queued' = <<>>
  BY <1>2, NothingQueued
<1> QED
  BY <1>2, <1>6, <1>7, CrashLog

-----------------------------------------------------------------------------
(* Some segments, each in order and before those after it, and a file       *)
(* behind them.                                                             *)
InPlace(s, f) ==
  /\ s \in Seq(Seq(Cell)) /\ f \in Seq(Cell) /\ Increasing("id", f)
  /\ \A a \in DOMAIN s : Increasing("id", s[a]) /\ AllBefore(s[a], f)
  /\ \A a, b \in DOMAIN s : a < b => AllBefore(s[a], s[b])

(* The segments of the shard are.                                           *)
LEMMA SegmentsInPlace ==
  /\ IndInv => InPlace(archives, file)
  /\ IndInv' => InPlace(archives', file')
<1>1. IndInv => InPlace(archives, file)
  BY ViewTypes, KeyKinds DEF IndInv, Order, Archived, InPlace
<1>2. (IndInv => InPlace(archives, file))'
  BY <1>1, PTL
<1>3. (InPlace(archives, file))' = InPlace(archives', file')
  BY DEF InPlace, Increasing, AllBefore, IsRecord, Cell, Record
<1> QED
  BY <1>1, <1>2, <1>3

(* Their records, on disk and by segment.                                   *)
LEMMA InPlaceRecords ==
  ASSUME NEW s, NEW f, InPlace(s, f)
  PROVE  /\ Ordered(Disk(s, f))
         /\ \A x : x \in Members(Disk(s, f)) <=>
              x \in Records(f) \/ \E a \in DOMAIN s : x \in Records(s[a])
         /\ \A x \in Members(Disk(s, f)) : x.id \in Nat
         /\ \A a \in DOMAIN s : \A x \in Records(s[a]) :
              /\ \A y \in Records(f) : x.id < y.id
              /\ \A b \in DOMAIN s : a < b => \A y \in Records(s[b]) : x.id < y.id
<1>1. /\ s \in Seq(Seq(Cell)) /\ f \in Seq(Cell) /\ Increasing("id", f)
      /\ \A a \in DOMAIN s : Increasing("id", s[a]) /\ AllBefore(s[a], f)
      /\ \A a, b \in DOMAIN s : a < b => AllBefore(s[a], s[b])
  BY DEF InPlace
<1>2. /\ Ordered(Disk(s, f))
      /\ \A x : x \in Members(Disk(s, f)) <=>
           x \in Records(f) \/ \E a \in DOMAIN s : x \in Records(s[a])
  BY <1>1, DiskRecords
<1>3. \A x \in Members(Disk(s, f)) : x.id \in Nat
  BY <1>2, OrderedPlaces, MembersOf
<1>4. ASSUME NEW g, NEW h, AllBefore(g, h), NEW x \in Records(g), NEW y \in Records(h)
      PROVE  x.id < y.id
  BY <1>4, RecordsMember DEF AllBefore
<1> QED
  BY <1>1, <1>2, <1>3, <1>4

(* The records of the first of them.                                        *)
LEMMA LeadingRecords ==
  ASSUME NEW s, NEW f, InPlace(s, f), NEW n \in Int, n <= Len(s)
  PROVE  /\ Ordered(Leading(s, n))
         /\ \A x : x \in Members(Leading(s, n)) <=>
              \E a \in DOMAIN s : a <= n /\ x \in Records(s[a])
<1> DEFINE t == SubSeq(s, 1, n)
<1>1. /\ s \in Seq(Seq(Cell)) /\ Len(s) \in Nat /\ DOMAIN s = 1..Len(s)
      /\ \A a \in DOMAIN s : Increasing("id", s[a])
      /\ \A a, b \in DOMAIN s : a < b => AllBefore(s[a], s[b])
  BY DEF InPlace
<1>2. /\ t \in Seq(Seq(Cell)) /\ Len(t) = (IF 1 <= n THEN n - 1 + 1 ELSE 0)
      /\ \A i \in 1..(n - 1 + 1) : t[i] = s[1 + i - 1]
  <2>1. 1 \in Int /\ n \in Int /\ \A i \in 1..n : s[i] \in Seq(Cell)
    BY <1>1
  <2> QED
    BY ONLY <2>1, SubSeqProperties
<1> HIDE DEF t
<1>3. /\ \A a \in DOMAIN t : a \in DOMAIN s /\ a <= n /\ t[a] = s[a]
      /\ \A a \in DOMAIN s : a <= n => a \in DOMAIN t
  <2>1. DOMAIN t = 1..Len(t)
    BY <1>2
  <2>2. \A i \in 1..n : i \in 1..(n - 1 + 1) /\ 1 + i - 1 = i /\ i \in 1..Len(s)
    BY <1>1
  <2>3. \A i \in 1..n : t[i] = s[i]
    BY <1>2, <2>2
  <2>4. \A a \in 1..Len(t) : a \in 1..n
    BY <1>2
  <2>5. \A a \in 1..Len(s) : a <= n => a \in 1..Len(t)
    BY <1>1, <1>2
  <2> QED
    BY <1>1, <2>1, <2>2, <2>3, <2>4, <2>5
<1>4. /\ Ordered(RecordsOf(Joined(t), {}))
      /\ \A x : x \in Members(RecordsOf(Joined(t), {})) <=> \E a \in DOMAIN t : x \in Records(t[a])
  <2>1. \A a \in DOMAIN t : Increasing("id", t[a])
    BY <1>1, <1>3
  <2>2. \A a, b \in DOMAIN t : a < b => AllBefore(t[a], t[b])
    BY <1>1, <1>3
  <2> QED
    BY <1>2, <2>1, <2>2, SegmentRecords
<1>5. Leading(s, n) = RecordsOf(Joined(t), {})
  BY DEF Leading, t
<1> QED
  BY <1>3, <1>4, <1>5

(* They are the first records on disk.                                      *)
LEMMA LeadingPlaces ==
  ASSUME NEW s, NEW f, InPlace(s, f), NEW n \in Int, n <= Len(s)
  PROVE  /\ Len(Leading(s, n)) \in 0..Len(Disk(s, f))
         /\ \A i \in DOMAIN Disk(s, f) :
              i <= Len(Leading(s, n)) <=> \E a \in DOMAIN s : a <= n /\ Disk(s, f)[i] \in Records(s[a])
<1> DEFINE l == Leading(s, n)
           d == Disk(s, f)
<1>1. Ordered(l) /\ \A x : x \in Members(l) <=> \E a \in DOMAIN s : a <= n /\ x \in Records(s[a])
  BY LeadingRecords
<1>2. /\ Ordered(d) /\ \A x \in Members(d) : x.id \in Nat
      /\ \A x : x \in Members(d) <=> x \in Records(f) \/ \E a \in DOMAIN s : x \in Records(s[a])
      /\ \A a \in DOMAIN s : \A x \in Records(s[a]) :
           /\ \A y \in Records(f) : x.id < y.id
           /\ \A b \in DOMAIN s : a < b => \A y \in Records(s[b]) : x.id < y.id
  BY InPlaceRecords
<1>3. DOMAIN s \subseteq Nat
  BY DEF InPlace
<1> HIDE DEF l, d
<1>4. Members(l) \subseteq Members(d)
  BY <1>1, <1>2
<1>5. ASSUME NEW x \in Members(l), NEW y \in Members(d), y.id < x.id
      PROVE  y \in Members(l)
  <2>1. PICK a \in DOMAIN s : a <= n /\ x \in Records(s[a])
    BY <1>1
  <2>2. ~(x.id < y.id)
    <3>1. x.id \in Nat /\ y.id \in Nat
      BY <1>2, <1>4
    <3> QED
      BY <1>5, <3>1
  <2>3. PICK b \in DOMAIN s : y \in Records(s[b]) /\ ~(a < b)
    BY <1>2, <2>1, <2>2
  <2>4. b <= n
    BY <1>3, <2>1, <2>3
  <2> QED
    BY <1>1, <2>3, <2>4
<1>6. Len(l) <= Len(d) /\ \A i \in DOMAIN l : i \in DOMAIN d /\ l[i] = d[i]
  BY <1>1, <1>2, <1>4, <1>5, OrderedPrefix
<1>7. /\ Len(l) \in Nat /\ Len(d) \in Nat /\ DOMAIN l = 1..Len(l) /\ DOMAIN d = 1..Len(d)
  BY <1>1, <1>2 DEF Ordered
<1>8. ASSUME NEW i \in DOMAIN d
      PROVE  i <= Len(l) <=> d[i] \in Members(l)
  <2>1. ASSUME i <= Len(l) PROVE d[i] \in Members(l)
    <3>1. i \in DOMAIN l
      BY <1>7, <2>1
    <3> QED
      BY <1>6, <3>1, MembersOf
  <2>2. ASSUME d[i] \in Members(l) PROVE i <= Len(l)
    <3>1. PICK j \in DOMAIN l : d[i] = l[j]
      BY <2>2, MembersOf
    <3>2. j \in DOMAIN d /\ d[i].id = d[j].id
      BY <1>6, <3>1
    <3>3. i = j
      BY <1>2, <3>2, OrderedPlaces
    <3> QED
      BY <1>7, <3>3
  <2> QED
    BY <2>1, <2>2
<1>9. Len(l) \in 0..Len(d)
  BY <1>6, <1>7
<1>10. \A i \in DOMAIN d : i <= Len(l) <=> \E a \in DOMAIN s : a <= n /\ d[i] \in Records(s[a])
  BY <1>1, <1>8
<1> QED
  BY <1>9, <1>10 DEF l, d

(* More segments have no fewer.                                             *)
LEMMA LeadingGrows ==
  ASSUME NEW s, NEW f, InPlace(s, f), NEW n \in Int, NEW m \in Int, m <= n, n <= Len(s)
  PROVE  Len(Leading(s, m)) <= Len(Leading(s, n))
<1> DEFINE p == Len(Leading(s, m))
           q == Len(Leading(s, n))
           d == Disk(s, f)
<1>0. Len(s) \in Nat /\ DOMAIN s \subseteq Nat
  BY DEF InPlace
<1>1. m <= Len(s)
  BY <1>0
<1>2. /\ p \in 0..Len(d) /\ q \in 0..Len(d)
      /\ \A i \in DOMAIN d : i <= p <=> \E a \in DOMAIN s : a <= m /\ d[i] \in Records(s[a])
      /\ \A i \in DOMAIN d : i <= q <=> \E a \in DOMAIN s : a <= n /\ d[i] \in Records(s[a])
  BY <1>1, LeadingPlaces
<1>3. Len(d) \in Nat /\ DOMAIN d = 1..Len(d)
  BY InPlaceRecords DEF Ordered
<1> HIDE DEF p, q, d
<1>4. ASSUME p = 0 PROVE p <= q
  BY <1>2, <1>3, <1>4
<1>5. ASSUME p # 0 PROVE p <= q
  <2>1. p \in DOMAIN d /\ p <= p
    BY <1>2, <1>3, <1>5
  <2>2. PICK a \in DOMAIN s : a <= m /\ d[p] \in Records(s[a])
    BY <1>2, <2>1
  <2>3. a <= n
    BY <1>0, <2>2
  <2> QED
    BY <1>2, <2>1, <2>2, <2>3
<1> QED
  BY <1>4, <1>5 DEF p, q

(* They depend on those segments only.                                      *)
LEMMA LeadingSame ==
  ASSUME NEW s \in Seq(Seq(Cell)), NEW t \in Seq(Seq(Cell)), NEW n \in Int,
         n <= Len(s), n <= Len(t), \A a \in 1..n : s[a] = t[a]
  PROVE  Leading(s, n) = Leading(t, n)
<1>1. \A a \in 1..n : s[a] \in Seq(Cell) /\ t[a] \in Seq(Cell)
  <2>1. Len(s) \in Nat /\ \A a \in 1..Len(s) : s[a] \in Seq(Cell)
    OBVIOUS
  <2>2. \A a \in 1..n : a \in 1..Len(s)
    BY <2>1
  <2> QED
    BY <2>1, <2>2
<1> DEFINE a == SubSeq(s, 1, n)
           b == SubSeq(t, 1, n)
<1>2. /\ a \in Seq(Seq(Cell)) /\ Len(a) = (IF 1 <= n THEN n - 1 + 1 ELSE 0)
      /\ \A i \in 1..(n - 1 + 1) : a[i] = s[1 + i - 1]
  BY <1>1, SubSeqProperties
<1>3. /\ b \in Seq(Seq(Cell)) /\ Len(b) = (IF 1 <= n THEN n - 1 + 1 ELSE 0)
      /\ \A i \in 1..(n - 1 + 1) : b[i] = t[1 + i - 1]
  BY <1>1, SubSeqProperties
<1> HIDE DEF a, b
<1>4. \A i \in 1..(n - 1 + 1) : i \in 1..n /\ 1 + i - 1 = i
  OBVIOUS
<1>5. \A i \in 1..(n - 1 + 1) : a[i] = b[i]
  BY <1>2, <1>3, <1>4
<1>6. \A i \in 1..Len(a) : i \in 1..(n - 1 + 1)
  BY <1>2
<1>7. a = b
  BY <1>2, <1>3, <1>5, <1>6
<1> QED
  BY <1>7 DEF Leading, a, b

(* The records of a chain whose segment is all reported, or has none, wait. *)
LEMMA BackOfAll ==
  ASSUME NEW s \in Seq(Cell), NEW w \in Seq(Cell)
  PROVE  BackPart(s \o w, Len(s)) = Records(w)
<1>1. /\ DOMAIN (s \o w) = 1..(Len(s) + Len(w)) /\ DOMAIN w = 1..Len(w)
      /\ Len(s) \in Nat /\ Len(w) \in Nat
      /\ \A j \in 1..Len(w) : (s \o w)[Len(s) + j] = w[j]
  OBVIOUS
<1> DEFINE c == s \o w
           m == Len(s)
<1>2. /\ \A i \in DOMAIN c : i > m => i - m \in DOMAIN w /\ m + (i - m) = i
      /\ \A j \in DOMAIN w : m + j \in DOMAIN c /\ m + j > m
      /\ \A j \in DOMAIN w : c[m + j] = w[j]
  BY <1>1
<1> HIDE DEF c, m
<1>3. \A x : x \in BackPart(c, m) => x \in Records(w)
  <2> SUFFICES ASSUME NEW x \in BackPart(c, m) PROVE x \in Records(w)
    OBVIOUS
  <2>1. PICK i \in DOMAIN c : i > m /\ IsRecord(c[i]) /\ x = c[i]
    BY FrontBack
  <2>2. i - m \in DOMAIN w /\ w[i - m] = c[i]
    BY <1>2, <2>1
  <2> QED
    BY <2>1, <2>2, RecordsMember
<1>4. \A x : x \in Records(w) => x \in BackPart(c, m)
  <2> SUFFICES ASSUME NEW x \in Records(w) PROVE x \in BackPart(c, m)
    OBVIOUS
  <2>1. PICK j \in DOMAIN w : IsRecord(w[j]) /\ x = w[j]
    BY RecordsMember
  <2> QED
    BY <1>2, <2>1, FrontBack
<1> QED
  BY <1>3, <1>4 DEF c, m

(* A rotation makes the segment the newest archive: the same log, and one   *)
(* segment more may go.                                                     *)
LEMMA RenameLog ==
  ASSUME Known, Known', RotateRename
  PROVE  LogStep
<1>0. TypeOK /\ Control /\ Writer /\ ~misused /\ IndInv /\ stream \in Seq(Cell)
      /\ Waiting \in Seq(Cell) /\ archives \in Seq(Seq(Cell)) /\ file \in Seq(Cell) /\ IndInv'
  BY KnownTypes DEF Known
<1>1. flush.pc = "rename" /\ life' = life /\ UNCHANGED queueVars
  BY DEF RotateRename
<1>2. life \in {"up", "stopping", "gate"} /\ ~file_open
  BY <1>0, <1>1 DEF Control
<1>3. Attached /\ ~Offline /\ Attached' /\ ~Offline'
  BY <1>1, <1>2 DEF Attached, Offline
<1>4. present
  BY <1>1, <1>3 DEF Known, ReadyInv
<1>5. /\ file' = <<>> /\ stream' = <<>> /\ flushed' = 0
      /\ archives' = Append(archives, file)
  BY <1>4 DEF RotateRename, AW!RenameAway
<1>6. Pictured /\ Pictured'
  BY <1>3, AttachedChain, Picture, NextPicture
<1>7. Waiting' = Waiting
  BY <1>1 DEF queueVars, Waiting
<1>8. Queued' = Queued
  <2>1. flushed = Len(stream)
    BY <1>0, <1>2, WriterParts
  <2>2. Ordered(Queued) /\ Members(Queued) = BackPart(stream \o Waiting, Len(stream))
    BY <1>6, <2>1 DEF Pictured, Chain
  <2>3. Chain' = <<>> \o Waiting
    BY <1>5, <1>7 DEF Chain
  <2>4. Ordered(Queued') /\ Members(Queued') = BackPart(<<>> \o Waiting, 0)
    BY <1>5, <1>6, <2>3, PicturedParts
  <2>5. <<>> \in Seq(Cell) /\ Len(<<>>) = 0
    OBVIOUS
  <2>6. Members(Queued) = Records(Waiting) /\ Members(Queued') = Records(Waiting)
    BY <1>0, <2>2, <2>4, <2>5, BackOfAll
  <2> QED
    BY <2>2, <2>4, <2>6, OrderedSame
<1> DEFINE s == archives
           t == Append(archives, file)
           d == Disk(t, <<>>)
<1>9. /\ InPlace(s, file) /\ InPlace(t, <<>>)
      /\ OnDisk = Disk(s, file) /\ OnDisk' = d
      /\ Retired = Len(Leading(s, Len(s) - MaxArchived))
      /\ Retired' = Len(Leading(t, Len(t) - MaxArchived))
  BY <1>0, <1>5, SegmentsInPlace, Logs
<1>10. /\ s \in Seq(Seq(Cell)) /\ t \in Seq(Seq(Cell)) /\ Len(s) \in Nat /\ Len(t) = Len(s) + 1
       /\ DOMAIN s = 1..Len(s) /\ DOMAIN t = 1..(Len(s) + 1)
       /\ t[Len(s) + 1] = file /\ \A a \in 1..Len(s) : t[a] = s[a]
  BY <1>0
<1> HIDE DEF s, t, d
<1>11. OnDisk' = OnDisk
  <2>1. Ordered(OnDisk) /\ \A x : x \in Members(OnDisk) <=>
          x \in Records(file) \/ \E a \in DOMAIN s : x \in Records(s[a])
    BY <1>9, InPlaceRecords
  <2>2. Ordered(OnDisk') /\ \A x : x \in Members(OnDisk') <=>
          x \in Records(<<>>) \/ \E a \in DOMAIN t : x \in Records(t[a])
    BY <1>9, InPlaceRecords DEF d
  <2>3. \A x : x \notin Records(<<>>)
    BY RecordsMember
  <2>4. \A x : (\E a \in DOMAIN t : x \in Records(t[a]))
               <=> x \in Records(file) \/ \E a \in DOMAIN s : x \in Records(s[a])
    <3>1. Len(s) + 1 \in DOMAIN t /\ \A a \in DOMAIN s : a \in DOMAIN t
      BY <1>10
    <3>2. \A a \in DOMAIN t : a \in DOMAIN s \/ a = Len(s) + 1
      BY <1>10
    <3> QED
      BY <1>10, <3>1, <3>2
  <2>5. Members(OnDisk) = Members(OnDisk')
    BY <2>1, <2>2, <2>3, <2>4
  <2> QED
    BY <2>1, <2>2, <2>5, OrderedSame
<1> DEFINE r == Len(s) - MaxArchived
<1>12. /\ r \in Int /\ r + 1 \in Int /\ r <= r + 1 /\ r <= Len(s) /\ r <= Len(t) /\ r + 1 <= Len(t)
       /\ Len(t) - MaxArchived = r + 1 /\ \A a \in 1..r : a \in 1..Len(s)
  <2>1. MaxArchived \in Nat \ {0}
    BY Options
  <2> QED
    BY <1>10, <2>1
<1>13. Retired = Len(Leading(s, r)) /\ Retired' = Len(Leading(t, r + 1))
  BY <1>9, <1>12
<1> HIDE DEF r
<1>14. Leading(s, r) = Leading(t, r)
  BY <1>10, <1>12, LeadingSame
<1>15. Retired <= Retired' /\ Retired' \in 0..Len(OnDisk) /\ Retired \in 0..Len(OnDisk)
  <2>1. Len(Leading(t, r)) <= Len(Leading(t, r + 1))
    BY <1>9, <1>12, LeadingGrows
  <2>2. Len(Leading(t, r + 1)) \in 0..Len(d) /\ Len(Leading(t, r)) \in 0..Len(d)
    BY <1>9, <1>12, LeadingPlaces DEF d
  <2> QED
    BY <1>9, <1>11, <1>13, <1>14, <2>1, <2>2
<1>16. CASE Retired' = Retired
  BY <1>8, <1>11, <1>16 DEF LogStep
<1>17. CASE Retired' # Retired
  <2>1. Retired' \in (Retired + 1)..Len(OnDisk)
    <3>1. Len(OnDisk) \in Nat
      BY <1>9, InPlaceRecords DEF Ordered
    <3> QED
      BY <1>15, <1>17, <3>1
  <2>2. \E n \in (Retired + 1)..Len(OnDisk) : Abstract!Retire(n)
    BY <1>8, <1>11, <2>1 DEF Abstract!Retire
  <2> QED
    BY <2>2, Zenon DEF LogStep, Abstract!Next
<1> QED
  BY <1>16, <1>17

(* Cleanup takes the records of one segment out of what may go.             *)
LEMMA CleanupLog ==
  ASSUME Known, Known', RotateCleanup
  PROVE  LogStep
<1>0. TypeOK /\ IndInv /\ IndInv' /\ archives \in Seq(Seq(Cell))
  BY KnownTypes DEF Known
<1>1. UNCHANGED <<file, tail, batch, pending>>
  BY DEF RotateCleanup, writerVars, queueVars
<1>2. CASE NextOut = 0
  <2>1. archives' = archives
    BY <1>2 DEF RotateCleanup
  <2> QED
    BY <1>1, <2>1, StillStep
<1>3. CASE NextOut # 0
  <2> DEFINE s == archives
             k == Len(archives) - MaxArchived
             t == RemoveAt(archives, k)
             d == Disk(s, file)
             n == Len(Leading(s, k))
             p == Len(Leading(t, k - 1))
  <2>1. k = NextOut /\ k \in DOMAIN s /\ s \in Seq(Seq(Cell)) /\ MaxArchived \in Nat
    BY <1>0, <1>3, NextOutKind, Options DEF NextOut
  <2>2. archives' = t
    BY <1>3, <2>1 DEF RotateCleanup
  <2>3. /\ t \in Seq(Seq(Cell)) /\ Len(t) = Len(s) - 1
        /\ \A a \in DOMAIN t : a < k => a \in DOMAIN s /\ t[a] = s[a]
        /\ \A a \in DOMAIN t : a >= k => a + 1 \in DOMAIN s /\ t[a] = s[a + 1]
    BY <2>1, OneRemoved
  <2>4. \A i \in DOMAIN s : i # k => \E a \in DOMAIN t : t[a] = s[i]
    BY <2>1, OthersStay
  <2>5. Len(t) - MaxArchived = k - 1
    BY <2>1, <2>3
  <2>6. /\ InPlace(s, file) /\ InPlace(t, file)
        /\ OnDisk = d /\ OnDisk' = Disk(t, file) /\ Retired = n /\ Retired' = p
    BY <1>0, <1>1, <2>2, <2>5, SegmentsInPlace, Logs
  <2>7. Queued' = Queued
    BY <1>1, Logs DEF Waiting
  <2> HIDE DEF s, t, k
  <2>8. /\ Len(s) \in Nat /\ DOMAIN s = 1..Len(s) /\ DOMAIN t = 1..(Len(s) - 1)
        /\ k \in 1..Len(s) /\ k - 1 \in Int /\ k \in Int /\ k - 1 <= k /\ k <= Len(s)
        /\ k - 1 <= Len(s) /\ k - 1 <= Len(t)
    BY <2>1, <2>3
  <2>9. Leading(t, k - 1) = Leading(s, k - 1)
    <3>1. \A a \in 1..(k - 1) : a \in DOMAIN t /\ a < k
      BY <2>8
    <3>2. \A a \in 1..(k - 1) : t[a] = s[a]
      BY <2>3, <3>1
    <3> QED
      BY <2>1, <2>3, <2>8, <3>2, LeadingSame
  <2>10. /\ n \in 0..Len(d) /\ p \in 0..Len(d) /\ p <= n
         /\ \A i \in DOMAIN d : i <= n <=> \E a \in DOMAIN s : a <= k /\ d[i] \in Records(s[a])
         /\ \A i \in DOMAIN d : i <= p <=> \E a \in DOMAIN s : a <= k - 1 /\ d[i] \in Records(s[a])
    BY <2>6, <2>8, <2>9, LeadingPlaces, LeadingGrows
  <2>11. /\ Ordered(d) /\ \A x \in Members(d) : x.id \in Nat
         /\ \A x : x \in Members(d) <=> x \in Records(file) \/ \E a \in DOMAIN s : x \in Records(s[a])
         /\ \A a \in DOMAIN s : \A x \in Records(s[a]) :
              /\ \A y \in Records(file) : x.id < y.id
              /\ \A b \in DOMAIN s : a < b => \A y \in Records(s[b]) : x.id < y.id
    BY <2>6, InPlaceRecords
  <2>12. Ordered(OnDisk') /\ \A x : x \in Members(OnDisk') <=>
           x \in Records(file) \/ \E a \in DOMAIN t : x \in Records(t[a])
    BY <2>6, InPlaceRecords
  <2> HIDE DEF d, n, p
  <2>13. DOMAIN d = 1..Len(d) /\ Len(d) \in Nat
    BY <2>11 DEF Ordered
  <2>14. \A x : x \in Members(OnDisk') <=>
           x \in Records(file) \/ \E a \in DOMAIN s : a # k /\ x \in Records(s[a])
    <3>1. \A a \in DOMAIN t : \E b \in DOMAIN s : b # k /\ t[a] = s[b]
      <4> SUFFICES ASSUME NEW a \in DOMAIN t PROVE \E b \in DOMAIN s : b # k /\ t[a] = s[b]
        OBVIOUS
      <4>1. CASE a < k
        BY <2>3, <2>8, <4>1
      <4>2. CASE a >= k
        <5>1. a + 1 \in DOMAIN s /\ t[a] = s[a + 1] /\ a + 1 # k
          BY <2>3, <2>8, <4>2
        <5> QED
          BY <5>1
      <4> QED
        BY <2>8, <4>1, <4>2
    <3> QED
      BY <2>4, <2>12, <3>1
  <2>15. ASSUME NEW x \in Members(OnDisk')
         PROVE  \E i \in DOMAIN d : (i <= p \/ i > n) /\ x = d[i]
    <3>1. x \in Members(d)
      BY <2>11, <2>14
    <3>2. PICK i \in DOMAIN d : x = d[i]
      BY <3>1, MembersOf
    <3>3. ~(x.id < x.id)
      BY <2>11, <3>1
    <3>4. CASE i <= n
      <4>1. PICK a \in DOMAIN s : a <= k /\ x \in Records(s[a])
        BY <2>10, <3>2, <3>4
      <4>2. PICK b \in DOMAIN s : b # k /\ x \in Records(s[b])
        BY <2>11, <2>14, <3>3, <4>1
      <4>3. ~(a < b)
        BY <2>11, <3>3, <4>1, <4>2
      <4>4. b <= k - 1
        BY <2>8, <4>1, <4>2, <4>3
      <4>5. i <= p
        BY <2>10, <3>2, <4>2, <4>4
      <4> QED
        BY <3>2, <4>5
    <3>5. CASE i > n
      BY <3>2, <3>5
    <3> QED
      BY <2>10, <2>13, <3>4, <3>5
  <2>16. ASSUME NEW i \in DOMAIN d, i <= p \/ i > n
         PROVE  d[i] \in Members(OnDisk')
    <3>1. CASE i <= p
      <4>1. PICK a \in DOMAIN s : a <= k - 1 /\ d[i] \in Records(s[a])
        BY <2>10, <3>1
      <4>2. a # k
        BY <2>8, <4>1
      <4> QED
        BY <2>14, <4>1, <4>2
    <3>2. CASE i > n
      <4>1. d[i] \in Members(d)
        BY MembersOf
      <4>2. ~(i <= n)
        BY <2>10, <2>13, <3>2
      <4>3. k <= k
        BY <2>8
      <4>4. d[i] \notin Records(s[k])
        BY <2>1, <2>10, <4>2, <4>3
      <4> QED
        BY <2>11, <2>14, <4>1, <4>4
    <3> QED
      BY <2>16, <3>1, <3>2
  <2>17. OnDisk' = SubSeq(d, 1, p) \o SubSeq(d, n + 1, Len(d))
    <3>1. p \in 0..Len(d) /\ n \in p..Len(d)
      BY <2>10, <2>13
    <3>2. Members(OnDisk') = Around(d, p, n)
      BY <2>15, <2>16 DEF Around
    <3>3. Ordered(d) /\ Ordered(OnDisk')
      BY <2>11, <2>12
    <3> QED
      BY ONLY <3>1, <3>2, <3>3, BlockRemoved
  <2>18. CASE p = n
    <3>1. \A i \in DOMAIN d : d[i] \in Members(OnDisk')
      BY <2>10, <2>13, <2>16, <2>18
    <3>2. Members(OnDisk') = Members(d)
      BY <2>15, <3>1, MembersOf
    <3>3. OnDisk' = d
      BY <2>11, <2>12, <3>2, OrderedSame
    <3> QED
      BY <2>6, <2>7, <2>18, <3>3 DEF LogStep
  <2>19. CASE p # n
    <3>1. p + 1 \in 1..n /\ n \in (p + 1)..n /\ (p + 1) - 1 = p /\ n - (n - (p + 1) + 1) = p
      BY <2>10, <2>13, <2>19
    <3>2. Abstract!Expire(p + 1, n)
      BY <2>6, <2>7, <2>17, <3>1 DEF Abstract!Expire
    <3>3. \E a \in 1..Retired : \E b \in a..Retired : Abstract!Expire(a, b)
      BY <2>6, <3>1, <3>2
    <3> QED
      BY <3>3, Zenon DEF LogStep, Abstract!Next
  <2> QED
    BY <2>18, <2>19
<1> QED
  BY <1>2, <1>3

-----------------------------------------------------------------------------
(* More cells behind a chain are more behind any place in it.               *)
LEMMA BackGrows ==
  ASSUME NEW c \in Seq(Cell), NEW new \in Seq(Cell), NEW m \in Nat, m <= Len(c)
  PROVE  BackPart(c \o new, m) = BackPart(c, m) \cup Records(new)
<1>1. /\ DOMAIN (c \o new) = 1..(Len(c) + Len(new)) /\ DOMAIN new = 1..Len(new)
      /\ DOMAIN c = 1..Len(c) /\ Len(c) \in Nat /\ Len(new) \in Nat
      /\ \A j \in 1..Len(new) : (c \o new)[Len(c) + j] = new[j]
      /\ \A j \in 1..Len(c) : (c \o new)[j] = c[j]
  OBVIOUS
<1> DEFINE d == c \o new
           l == Len(c)
<1>2. /\ \A i \in DOMAIN d : i \in DOMAIN c \/ (i - l \in DOMAIN new /\ l + (i - l) = i)
      /\ \A j \in DOMAIN new : l + j \in DOMAIN d /\ l + j > m
      /\ \A j \in DOMAIN c : j \in DOMAIN d /\ d[j] = c[j]
      /\ \A j \in DOMAIN new : d[l + j] = new[j]
  BY <1>1
<1> HIDE DEF d, l
<1>3. \A x : x \in BackPart(d, m) => x \in BackPart(c, m) \/ x \in Records(new)
  <2> SUFFICES ASSUME NEW x \in BackPart(d, m) PROVE x \in BackPart(c, m) \/ x \in Records(new)
    OBVIOUS
  <2>1. PICK i \in DOMAIN d : i > m /\ IsRecord(d[i]) /\ x = d[i]
    BY FrontBack
  <2>2. CASE i \in DOMAIN c
    BY <1>2, <2>1, <2>2, FrontBack
  <2>3. CASE i - l \in DOMAIN new /\ l + (i - l) = i
    <3>1. new[i - l] = d[i]
      BY <1>2, <2>3
    <3> QED
      BY <2>1, <2>3, <3>1, RecordsMember
  <2> QED
    BY <1>2, <2>2, <2>3
<1>4. \A x : x \in Records(new) => x \in BackPart(d, m)
  <2> SUFFICES ASSUME NEW x \in Records(new) PROVE x \in BackPart(d, m)
    OBVIOUS
  <2>1. PICK j \in DOMAIN new : IsRecord(new[j]) /\ x = new[j]
    BY RecordsMember
  <2> QED
    BY <1>2, <2>1, FrontBack
<1>5. \A x : x \in BackPart(c, m) => x \in BackPart(d, m)
  <2> SUFFICES ASSUME NEW x \in BackPart(c, m) PROVE x \in BackPart(d, m)
    OBVIOUS
  <2>1. PICK j \in DOMAIN c : j > m /\ IsRecord(c[j]) /\ x = c[j]
    BY FrontBack
  <2> QED
    BY <1>2, <2>1, FrontBack
<1> QED
  BY <1>3, <1>4, <1>5 DEF d

(* submit puts its records behind the queue.                                *)
LEMMA SubmitLog ==
  ASSUME Known, Known', NEW s \in Submitters, NEW n \in 1..MaxMany, Submit(s, n)
  PROVE  LogStep
<1> DEFINE new == [k \in 1..n |-> [id |-> submitted + k, seq |-> sequence + k - 1]]
           queue == pending \o new
<1>0. /\ TypeOK /\ IndInv /\ Writer /\ ~misused /\ submitted \in Nat /\ sequence \in Nat
      /\ batch \in Seq(Cell) /\ pending \in Seq(Cell) /\ pending \in Seq(Record)
      /\ stream \in Seq(Cell) /\ Waiting \in Seq(Cell) /\ flushed \in Nat
  BY KnownTypes, ViewTypes DEF Known
<1>1. n \in Nat
  OBVIOUS
<1>2. /\ new \in Seq(Record) /\ Len(new) = n
      /\ \A j \in 1..n : new[j].id = submitted + j
  <2>1. submitted \in Nat /\ sequence \in Nat
    BY <1>0
  <2>2. /\ new \in Seq(Record) /\ Len(new) = n
        /\ \A j \in 1..n : new[j].id = submitted + j /\ new[j].seq = sequence + j - 1
        /\ Increasing("id", new) /\ Increasing("seq", new)
        /\ Under("id", new, submitted + 1 + n) /\ Under("seq", new, sequence + n)
    BY <1>1, <2>1, SubmitRecords
  <2> QED
    BY <2>2
<1>3. /\ life = "up" /\ life' = life /\ UNCHANGED <<writerVars, diskVars>>
      /\ StartFlush(queue, s, TRUE) \/ (pending' = queue /\ batch' = batch)
  BY DEF Submit
<1> HIDE DEF new
<1>4. queue \in Seq(Record) /\ new \in Seq(Cell)
  BY <1>0, <1>2 DEF Cell
<1>5. Waiting' = Waiting \o new
  <2>1. CASE StartFlush(queue, s, TRUE)
    <3>1. s \in Submitters \cup {"timer", "stop"} /\ TRUE \in BOOLEAN
      OBVIOUS
    <3>2. Waiting' = queue /\ Waiting = pending
      BY ONLY <1>0, <1>4, <2>1, <3>1, StartFlushOK
    <3> QED
      BY <3>2
  <2>2. CASE pending' = queue /\ batch' = batch
    <3>1. batch \o (pending \o new) = (batch \o pending) \o new
      <4>1. batch \in Seq(Cell) /\ pending \in Seq(Cell) /\ new \in Seq(Cell)
        BY <1>0, <1>4
      <4> QED
        BY ONLY <4>1, ConcatCells
    <3> QED
      BY <2>2, <3>1 DEF Waiting
  <2> QED
    BY <1>3, <2>1, <2>2
<1>6. UNCHANGED <<file, tail, stream, flushed, archives>>
  BY <1>3 DEF writerVars, diskVars
<1>7. Attached /\ ~Offline /\ Attached' /\ ~Offline'
  BY <1>3 DEF Attached, Offline
<1>8. Chained /\ Pictured /\ Pictured'
  BY <1>7, AttachedChain, Picture, NextPicture
<1>9. OnDisk' = OnDisk
  BY <1>6, Logs
<1>10. Chain' = Chain \o new
  <2>1. stream \o (Waiting \o new) = (stream \o Waiting) \o new
    <3>1. stream \in Seq(Cell) /\ Waiting \in Seq(Cell) /\ new \in Seq(Cell)
      BY <1>0, <1>4
    <3> QED
      BY ONLY <3>1, ConcatCells
  <2> QED
    BY <1>5, <1>6, <2>1 DEF Chain
<1>11. flushed <= Len(Chain) /\ Chain \in Seq(Cell)
  <2>1. flushed <= Len(stream) /\ Len(stream) \in Nat /\ Len(Waiting) \in Nat
        /\ Len(Chain) = Len(stream) + Len(Waiting)
    BY <1>0, WriterParts DEF Chain
  <2>2. flushed <= Len(Chain)
    BY ONLY <1>0, <2>1
  <2> QED
    BY <1>0, <2>2 DEF Chain
<1>12. /\ Ordered(Queued) /\ Members(Queued) = BackPart(Chain, flushed)
       /\ Ordered(Queued') /\ Members(Queued') = BackPart(Chain \o new, flushed)
  BY <1>6, <1>8, <1>10, PicturedParts DEF Pictured
<1>13. Members(Queued') = Members(Queued) \cup Records(new)
  BY <1>0, <1>4, <1>11, <1>12, BackGrows
<1>14. Records(new) # {} /\ \A y \in Records(new) : y.id \in Nat /\ y.id >= submitted + 1
  <2>1. DOMAIN new = 1..n /\ 1 \in 1..n
    BY <1>2
  <2>2. \A j \in 1..n : new[j] \in Record /\ IsRecord(new[j])
    BY <1>2, <2>1, Options DEF IsRecord
  <2>3. new[1] \in Records(new)
    BY <2>1, <2>2, RecordsMember
  <2>4. \A j \in 1..n : new[j].id \in Nat /\ new[j].id >= submitted + 1
    <3>1. \A j \in 1..n : submitted + j \in Nat /\ submitted + j >= submitted + 1
      BY <1>0, <1>1
    <3> QED
      BY <1>2, <3>1
  <2> QED
    BY <2>1, <2>3, <2>4, RecordsMember
<1>15. \A x \in Members(Queued) : x.id \in Nat /\ x.id < submitted + 1
  <2>1. Under("id", Chain, submitted + 1)
    <3>1. Number("id") = submitted + 1
      BY DEF Number
    <3>2. Under("id", stream \o Waiting, Number("id"))
      BY <1>0, <1>7, KeyKinds, PlacedParts DEF IndInv, Order
    <3> QED
      BY <3>1, <3>2 DEF Chain
  <2> SUFFICES ASSUME NEW x \in Members(Queued) PROVE x.id \in Nat /\ x.id < submitted + 1
    OBVIOUS
  <2>2. PICK i \in DOMAIN Chain : IsRecord(Chain[i]) /\ x = Chain[i]
    BY <1>12, FrontBack
  <2>3. Chain[i] \in Cell
    BY <1>11
  <2>4. x.id \in Nat
    BY <2>2, <2>3, RecordKeys
  <2> QED
    BY <2>1, <2>2, <2>4 DEF Under
<1>16. \A x \in Members(Queued) : \A y \in Records(new) : x.id < y.id
  <2> SUFFICES ASSUME NEW x \in Members(Queued), NEW y \in Records(new) PROVE x.id < y.id
    OBVIOUS
  <2>1. x.id \in Nat /\ x.id < submitted + 1 /\ y.id \in Nat /\ y.id >= submitted + 1
    BY <1>14, <1>15
  <2> QED
    BY ONLY <1>0, <2>1
<1>17. Len(Queued') > Len(Queued) /\ SubSeq(Queued', 1, Len(Queued)) = Queued
  BY <1>12, <1>13, <1>14, <1>16, AddsNewest
<1>18. Abstract!Accept
  BY <1>6, <1>9, <1>17, RetiredSame DEF Abstract!Accept
<1> QED
  BY <1>18, Zenon DEF LogStep, Abstract!Next

-----------------------------------------------------------------------------
(* Every step of the shard is a step of ShardLog, or invisible to it.       *)
LEMMA EveryLogStep ==
  ASSUME Reliable, "write" \notin Faults, ~TruncateOnStart, Known, Known', [Next]_vars
  PROVE  LogStep
<1>0. ~Fault("write")
  BY DEF Fault
<1>1. ASSUME NEW s \in Submitters, NEW n \in 1..MaxMany, Submit(s, n)
      PROVE  LogStep
  BY <1>1, SubmitLog
<1>2. ASSUME NEW s \in Submitters, Resume(s) \/ Wake(s)
      PROVE  LogStep
  BY <1>2, TaskLog
<1>3. CASE Stop \/ StopDrained \/ StopGate \/ UNCHANGED vars
  BY <1>3, TaskLog
<1>4. CASE Timer \/ StopFlush
  BY <1>4, StartFlushLog
<1>5. CASE FlushAppend
  BY <1>5, AppendLog
<1>6. CASE FlushForce \/ RotateCheckpoint \/ RotateCheckpointFails \/ RotateSeal \/ RotateClose
  BY <1>6, FlushLog
<1>7. CASE RotateRename
  BY <1>7, RenameLog
<1>8. CASE RotateCleanup
  BY <1>8, CleanupLog
<1>14. CASE RotateReopen
  BY <1>14, ReopenLog
<1>9. CASE FlushAppendFails \/ FlushForceFails \/ RotateCloseFails \/ RotateRenameFails
           \/ RotateCleanupFails \/ RotateReopenFails
  BY <1>0, <1>9, NoSuchFault DEF FlushAppendFails, FlushForceFails, RotateCloseFails,
     RotateRenameFails, RotateCleanupFails, RotateReopenFails
<1>10. CASE StopTail \/ StopCheckpoint \/ StopClose \/ StopFails \/ StartCheckpoint
  BY <1>10, StopLog
<1>11. CASE StartOpen \/ Crash \/ AppendToNoFile
  BY <1>11, StartLog
<1>12. CASE Recover
  BY <1>12, RecoverLog
<1>13. CASE CrashInAppend
  BY <1>13, TornLog
<1> QED
  BY <1>1, <1>2, <1>3, <1>4, <1>5, <1>6, <1>7, <1>8, <1>9, <1>10, <1>11, <1>12, <1>13,
     <1>14 DEF Next, Task, FlushStep, FlushFails, StopStep, StartStep

(* An empty directory is an empty log.                                      *)
LEMMA LogStart ==
  ASSUME Init
  PROVE  Abstract!Init
<1>1. /\ file = <<>> /\ archives = <<>> /\ tail = <<>> /\ batch = <<>> /\ pending = <<>>
  BY DEF Init, AW!Init
<1>2. Queued = <<>>
  BY <1>1, NothingQueued
<1>3. Ordered(OnDisk) /\ Members(OnDisk) = ArchivedRecords \cup Records(file)
  BY InitialState, OnDiskRecords
<1>4. DOMAIN file = {} /\ DOMAIN archives = {}
  BY <1>1
<1>5. \A x : x \notin Members(OnDisk)
  BY <1>3, <1>4, ArchivedRecordsMember, RecordsMember
<1>6. OnDisk \in Seq(Record) /\ DOMAIN OnDisk = {}
  BY <1>3, <1>5, MembersOf DEF Ordered
<1>7. OnDisk = <<>>
  BY <1>6
<1>8. Retired = 0
  <2>1. Len(archives) - MaxArchived \in Int /\ Len(archives) - MaxArchived <= Len(archives)
    BY <1>1, Options
  <2>2. Ordered(Leading(archives, Len(archives) - MaxArchived))
        /\ \A x : x \notin Members(Leading(archives, Len(archives) - MaxArchived))
    BY <1>4, <2>1, InitialState, SegmentsInPlace, LeadingRecords
  <2> DEFINE l == Leading(archives, Len(archives) - MaxArchived)
  <2> HIDE DEF l
  <2>3. l \in Seq(Record) /\ DOMAIN l = {}
    BY <2>2, MembersOf DEF Ordered, l
  <2>4. Len(l) = 0
    BY <2>3
  <2> QED
    BY <2>4, Logs DEF l
<1> QED
  BY <1>2, <1>7, <1>8 DEF Abstract!Init

(* A shard is a ShardLog, whenever it dies, the removals of a cleanup       *)
(* included, unless a write, a close, a rename, the gzip or a removal of a  *)
(* rotation or an open fails or it is told to truncate its file at start.   *)
THEOREM ShardIsALog ==
  Reliable /\ "write" \notin Faults /\ ~TruncateOnStart => (Spec => ImplementsShardLog)
<1> SUFFICES ASSUME Reliable, "write" \notin Faults, ~TruncateOnStart
             PROVE  Spec => ImplementsShardLog
  OBVIOUS
<1>1. Init => Abstract!Init
  BY LogStart
<1>2. Known /\ Known' /\ [Next]_vars => [Abstract!Next]_(Abstract!vars)
  <2> SUFFICES ASSUME Known, Known', [Next]_vars
               PROVE  Abstract!Next \/ UNCHANGED Abstract!vars
    OBVIOUS
  <2>1. LogStep
    BY EveryLogStep
  <2> QED
    BY <2>1 DEF LogStep, Abstract!vars
<1>3. IndInv /\ DurableInv /\ Exact => Known
  BY DEF DurableInv, Known
<1>4. Spec => []IndInv /\ []DurableInv /\ []Exact
  BY Invariance, Durability, Exactness
<1> QED
  BY <1>1, <1>2, <1>3, <1>4, PTL DEF Spec, ImplementsShardLog, Abstract!Spec
=============================================================================
