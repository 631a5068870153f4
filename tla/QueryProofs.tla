---------------------------- MODULE QueryProofs -----------------------------
(****************************************************************************)
(* Proofs about the files of one shard and a query over them, for every     *)
(* payload, record format, number of rotations, crashes and damages: a      *)
(* reply has every record once and in order (OnceInOrder), the archive      *)
(* loses nothing but what it says it loses (ArchiveKeeps), and the segments *)
(* that are kept are younger than all that expired, however far a cleanup   *)
(* got (OldestExpire).  IndInv is the inductive invariant.  Of the files it says how the records are ordered within and  *)
(* across them, which names a rotation may still take, and when each        *)
(* segment was written to; of the reader, that everything it may still read *)
(* is younger than all it has found.                                        *)
(*                                                                          *)
(* The second part is about what is in the lines: what the codec reads of   *)
(* a line it wrote and of each piece of one, and with that, by the          *)
(* invariant Content, that a reply has what was written (Authentic) and     *)
(* misses nothing that it should find (Complete).                           *)
(****************************************************************************)
EXTENDS Query, FiniteSetTheorems, SequenceTheorems, WellFoundedInduction, TLAPS

(* The line of record id, written with sequence number n.                   *)
LineOf(codec, id, n) ==
  Encode(codec, [ts |-> id, shard |-> 0, seq |-> n, level |-> id % 3, payload |-> Payload[id]])

(* What may stand in a file: a line of a record, or a piece of one.         *)
AnyLine ==
  UNION {{LineOf(c, id, n)} \cup Fragments(LineOf(c, id, n)) :
           c \in CodecConfig, id \in Records, n \in Nat}

AnyEntry == [id : Nat, seq : Nat, line : AnyLine, whole : BOOLEAN]
AnyFile == [present : BOOLEAN, lines : Seq(AnyEntry), intact : BOOLEAN, mtime : Nat]
AnySegment == [archived : BOOLEAN, name : Name, gz : BOOLEAN]
AnyHit == [of : AnyEntry, record : {Parsed(l) : l \in AnyLine}]
AnyQuery == {NoQuery.query} \cup {Limited(q) : q \in Queries}

(* The engine is between the rename of a rotation and its new active log,   *)
(* or a step of the rotation failed and the next one has to open it; the    *)
(* name that a rotation takes now.                                          *)
Working == engine.at \in {"gzip", "remove", "cleanup", "expire", "reopen"}
Failed == engine.at = "failed"
Fresh == <<clock, rotation>>

(* Types, and the rotation index under its bound.                           *)
Typed ==
  /\ config \in Configs
  /\ active \in AnyFile /\ plain \in [Name -> AnyFile] /\ gz \in [Name -> AnyFile]
  /\ engine \in [at : {"idle", "writing", "gzip", "remove", "cleanup", "expire", "reopen",
                       "failed", "down"},
                 name : Name, aged : SUBSET Name, excess : SUBSET Name]
  /\ sequence \in Nat /\ clock \in 0..MaxTime
  /\ rotations \in 0..MaxRotations /\ crashes \in Nat
  /\ rotation \in Nat /\ rotation <= FirstIndex + rotations
  /\ Working \/ Failed => rotation + 1 <= FirstIndex + rotations
  /\ written \in 0..Len(Payload)
  /\ finished \subseteq 1..written /\ expired \subseteq finished /\ cut \subseteq finished

ReaderTyped ==
  /\ reader \in [at : {"idle", "archive", "active", "read", "done"}, segments : Seq(AnySegment),
                 records : Seq(AnyHit), query : AnyQuery]
  /\ corrupted \in Nat /\ broken \in Nat /\ owed \subseteq finished

(* The ids of the lines of a file, in pieces or whole.                      *)
LineIds(file) == {file.lines[i].id : i \in DOMAIN file.lines}

(* A file's lines are in the order of writing.                              *)
Sound(file, last, done) ==
  /\ \A i, j \in DOMAIN file.lines : i < j => file.lines[i].id < file.lines[j].id
  /\ \A i \in DOMAIN file.lines : file.lines[i].id \in 1..last
  /\ \A i \in DOMAIN file.lines : file.lines[i].whole => file.lines[i].id \in done
  /\ ~file.present => file = None

InOrder(file) == Sound(file, written, finished)

Archived(file) == \A i \in DOMAIN file.lines : file.lines[i].whole

(* The archive has whole lines only; a piece ends the active log, while it  *)
(* is being written or after a crash.                                       *)
Files ==
  /\ InOrder(active) /\ \A n \in Name : InOrder(plain[n]) /\ InOrder(gz[n])
  /\ \A n \in Name : Archived(plain[n]) /\ Archived(gz[n])
  /\ \A i \in DOMAIN active.lines : ~active.lines[i].whole =>
       i = Len(active.lines) /\ engine.at \in {"writing", "down"}
  /\ engine.at \in {"idle", "writing"} => active.present
  /\ engine.at = "writing" =>
       /\ active.lines # <<>> /\ ~active.lines[Len(active.lines)].whole
       /\ active.lines[Len(active.lines)].id = written /\ written \notin finished
  /\ Working => engine.name = Fresh
  /\ Working \/ Failed => active = None

(* A name that the engine has used is older than the one it takes next.     *)
Used(n) ==
  /\ engine.at \in {"idle", "writing", "failed"} => Before(n, Fresh)
  /\ Working => Before(n, Fresh) \/ n = Fresh
  /\ n[1] <= clock

(* The records of an older name were written before those of a younger, and *)
(* all of them before those of the active log.                              *)
Older(ids, others) == \A x \in ids, y \in others : x < y
Archive(n) == LineIds(plain[n]) \cup LineIds(gz[n])

Ordered ==
  /\ \A n \in Named : Used(n)
  /\ \A m, n \in Name : Before(m, n) => Older(Archive(m), Archive(n))
  /\ \A n \in Name : Older(Archive(n), LineIds(active))

(* A segment under compression has no twin yet, or one that has all of it.  *)
Twins ==
  /\ engine.at = "gzip" => plain[engine.name].present /\ ~gz[engine.name].present
  /\ engine.at = "remove" =>
       /\ gz[engine.name].present
       /\ LineIds(plain[engine.name]) \subseteq LineIds(gz[engine.name]) \cup cut

(* A file was written to last no later than its name says, and no earlier   *)
(* than any older name.                                                     *)
Times ==
  /\ \A n \in Name : plain[n].present => plain[n].mtime <= n[1]
  /\ \A n \in Name : gz[n].present => gz[n].mtime <= n[1]
  /\ \A m, n \in Named : Before(m, n) =>
       /\ plain[n].present => m[1] <= plain[n].mtime
       /\ gz[n].present => m[1] <= gz[n].mtime
  /\ active.present => active.mtime <= clock /\ \A n \in Named : n[1] <= active.mtime

(* Every finished record is somewhere.                                      *)
NothingLost == finished \ (expired \cup cut) \subseteq Ids(active) \cup UNION {Archive(n) : n \in Name}

(* What expired is older than the active log and than what did not expire   *)
(* of the segments that are kept: as many of the youngest as the            *)
(* configuration says, and all that a cleanup leaves once it is through.    *)
(* While one is under way, what it has still to remove (Due) is also older  *)
(* than what it keeps; and each segment over the count has as many younger  *)
(* ones among those as are kept, so that it does not move up to them when   *)
(* the newest goes first.                                                   *)
Later(n, names) == {m \in names : Before(n, m)}
Due == engine.aged \cup engine.excess
Live(n) == Archive(n) \ expired

Expiry ==
  /\ Older(expired, LineIds(active))
  /\ \A n \in Named : Cardinality(Later(n, Named)) < MaxArchived => Older(expired, Live(n))
  /\ engine.at = "reopen" => \A n \in Name : Older(expired, Live(n))
  /\ engine.at = "expire" =>
       /\ \A n \in Name \ Due : Older(expired, Live(n)) /\ \A d \in Due : Older(Archive(d), Live(n))
       /\ \A n \in engine.excess : Cardinality(Later(n, Named) \ Due) >= MaxArchived

(* The whole lines of the active log are what the encoder wrote.            *)
Encoded ==
  \A i \in DOMAIN active.lines : active.lines[i].whole =>
    active.lines[i].line = LineOf(config.codec, active.lines[i].id, active.lines[i].seq)

(* Recovery cuts off no whole line of a record the codec brings back.       *)
Uncut == broken = 0 /\ (\A id \in 1..written : CodecRestores(id)) => cut = {}

(* What a segment may be read from.                                         *)
Sources(s) == IF s.archived THEN Archive(s.name) ELSE LineIds(active)

(* What the reader may still read is younger than all it has found, and the *)
(* segments it still has to read are in order, the active log the last.     *)
ReaderSound ==
  /\ reader.at \in {"idle", "archive", "done"} => reader.segments = <<>>
  /\ reader.at \in {"idle", "archive", "active"} => reader.records = <<>>
  /\ reader.at = "active" => \A i \in DOMAIN reader.segments : reader.segments[i].archived
  /\ \A i \in DOMAIN reader.segments : reader.segments[i].archived => Used(reader.segments[i].name)
  /\ \A i, j \in DOMAIN reader.segments : i < j =>
       /\ reader.segments[i].archived
       /\ reader.segments[j].archived => Before(reader.segments[i].name, reader.segments[j].name)
  /\ \A i \in DOMAIN reader.records : reader.records[i].of.id <= written
  /\ \A i \in DOMAIN reader.records : \A j \in DOMAIN reader.segments :
       \A y \in Sources(reader.segments[j]) : reader.records[i].of.id < y

DiskInv == Typed /\ Files /\ Ordered /\ Twins /\ Times /\ NothingLost /\ Expiry /\ Encoded
IndInv == DiskInv /\ ReaderTyped /\ Uncut /\ ReaderSound /\ OnceInOrder

-----------------------------------------------------------------------------
(* A set of naturals has a least element: the induction these proofs rest   *)
(* on.                                                                      *)
LEMMA Least ==
  ASSUME NEW T, T \subseteq Nat, T # {}
  PROVE  \E x \in T : \A y \in T : x <= y
<1> DEFINE R == OpToRel(<, Nat)
<1>1. \A x, y \in Nat : <<x, y>> \in R <=> x < y
  BY DEF OpToRel
<1>2. IsWellFoundedOn(R, Nat)
  BY NatLessThanWellFounded
<1> HIDE DEF R
<1>3. PICK x \in T : \A y \in T : ~ (<<y, x>> \in R)
  BY <1>2, WFMin
<1>4. \A y \in T : x <= y
  <2> TAKE y \in T
  <2>1. x \in Nat /\ y \in Nat
    OBVIOUS
  <2>2. ~ (y < x)
    BY <1>1, <1>3, <2>1
  <2> QED
    BY <2>1, <2>2
<1> QED
  BY <1>4

(* R orders the elements of S one behind the other.                         *)
Orders(R, S) ==
  /\ \A x, y \in S : x # y => <<x, y>> \in R \/ <<y, x>> \in R
  /\ \A x, y, z \in S : <<x, y>> \in R /\ <<y, z>> \in R => <<x, z>> \in R

LEMMA OrdersSubset ==
  ASSUME NEW R, NEW S, Orders(R, S), NEW T \in SUBSET S
  PROVE  Orders(R, T)
BY DEF Orders

(* Every finite set so ordered has a last element.                          *)
LEMMA Last ==
  ASSUME NEW R, NEW S, IsFiniteSet(S), S # {}, Orders(R, S)
  PROVE  \E x \in S : \A y \in S \ {x} : <<y, x>> \in R
<1> DEFINE HasLast(T) == \E x \in T : \A y \in T \ {x} : <<y, x>> \in R
           Wrong == {n \in Nat : \E T \in SUBSET S :
                     T # {} /\ Cardinality(T) = n /\ ~HasLast(T)}
<1>1. SUFFICES Wrong = {}
  <2>1. Cardinality(S) \in Nat
    BY FS_CardinalityType
  <2> QED
    BY <1>1, <2>1
<1>2. SUFFICES ASSUME Wrong # {} PROVE FALSE
  OBVIOUS
<1>3. PICK n \in Wrong : \A k \in Wrong : n <= k
  BY <1>2, Least
<1>4. PICK T \in SUBSET S : T # {} /\ Cardinality(T) = n /\ ~HasLast(T)
  BY <1>3
<1>5. PICK x \in T : TRUE
  BY <1>4
<1> DEFINE U == T \ {x}
<1>6. IsFiniteSet(T) /\ n \in Nat
  BY <1>3, FS_Subset
<1>7. Cardinality(U) = n - 1
  BY <1>4, <1>5, <1>6, FS_RemoveElement
<1>8. U # {}
  BY <1>4, <1>5
<1>9. IsFiniteSet(U) /\ Cardinality(U) \in Nat
  BY <1>6, FS_RemoveElement, FS_CardinalityType
<1>10. HasLast(U)
  <2>1. Cardinality(U) < n
    BY <1>6, <1>7, <1>9
  <2>2. Cardinality(U) \notin Wrong
    BY <1>3, <1>6, <1>9, <2>1
  <2> QED
    BY <1>8, <1>9, <2>2
<1>11. PICK m \in U : \A y \in U \ {m} : <<y, m>> \in R
  BY <1>10
<1>12. CASE <<x, m>> \in R
  <2>1. \A y \in T \ {m} : <<y, m>> \in R
    BY <1>11, <1>12
  <2> QED
    BY <1>4, <2>1
<1>13. CASE <<m, x>> \in R
  <2>1. \A y \in U : <<y, x>> \in R
    <3> TAKE y \in U
    <3>1. CASE y = m
      BY <1>13, <3>1
    <3>2. CASE y # m
      <4>1. <<y, m>> \in R
        BY <1>11, <3>2
      <4> QED
        BY <1>5, <1>11, <1>13, <4>1 DEF Orders
    <3> QED
      BY <3>1, <3>2
  <2> QED
    BY <1>4, <1>5, <2>1
<1> QED
  BY <1>5, <1>11, <1>12, <1>13 DEF Orders

(* The elements of S in the order R, each once.                             *)
Listing(R, S, s) ==
  /\ s \in [1..Cardinality(S) -> S]
  /\ \A i, j \in 1..Cardinality(S) : i < j => <<s[i], s[j]>> \in R

(* Every finite set so ordered can be listed.                               *)
LEMMA Listed ==
  ASSUME NEW R, NEW S, IsFiniteSet(S), Orders(R, S)
  PROVE  \E s : Listing(R, S, s)
<1> DEFINE HasListing(T) == \E s : Listing(R, T, s)
           Wrong == {n \in Nat : \E T \in SUBSET S : Cardinality(T) = n /\ ~HasListing(T)}
<1>1. SUFFICES Wrong = {}
  <2>1. Cardinality(S) \in Nat
    BY FS_CardinalityType
  <2> QED
    BY <1>1, <2>1
<1>2. SUFFICES ASSUME Wrong # {} PROVE FALSE
  OBVIOUS
<1>3. PICK n \in Wrong : \A k \in Wrong : n <= k
  BY <1>2, Least
<1>4. PICK T \in SUBSET S : Cardinality(T) = n /\ ~HasListing(T)
  BY <1>3
<1>5. IsFiniteSet(T) /\ n \in Nat
  BY <1>3, FS_Subset
<1>6. T # {}
  <2> SUFFICES ASSUME T = {} PROVE FALSE
    OBVIOUS
  <2>1. n = 0
    BY <1>4, FS_EmptySet
  <2>2. Listing(R, T, [i \in 1..0 |-> 0])
    BY <1>4, <2>1 DEF Listing
  <2> QED
    BY <1>4, <2>2
<1>7a. Orders(R, T)
  BY OrdersSubset
<1>7. PICK x \in T : \A y \in T \ {x} : <<y, x>> \in R
  <2> HIDE DEF HasListing, Wrong
  <2> QED
    BY <1>5, <1>6, <1>7a, Last
<1> DEFINE U == T \ {x}
<1>8. Cardinality(U) = n - 1 /\ IsFiniteSet(U) /\ Cardinality(U) \in Nat
  BY <1>4, <1>5, <1>7, FS_RemoveElement, FS_CardinalityType
<1>9. HasListing(U)
  <2>1. Cardinality(U) < n
    BY <1>5, <1>8
  <2>2. Cardinality(U) \notin Wrong
    BY <1>3, <1>5, <1>8, <2>1
  <2> QED
    BY <1>8, <2>2
<1>10. PICK s : Listing(R, U, s)
  BY <1>9
<1> DEFINE t == [i \in 1..n |-> IF i = n THEN x ELSE s[i]]
<1>11. t \in [1..n -> T]
  <2>1. \A i \in 1..n : i # n => i \in 1..(n - 1)
    BY <1>5
  <2> QED
    BY <1>7, <1>8, <1>10, <2>1 DEF Listing
<1>12. ASSUME NEW i \in 1..n, NEW j \in 1..n, i < j
       PROVE  <<t[i], t[j]>> \in R
  <2>1. i \in 1..(n - 1) /\ i # n
    BY <1>5, <1>12
  <2>2. s[i] \in U
    BY <1>8, <1>10, <2>1 DEF Listing
  <2>3. CASE j = n
    BY <1>7, <2>1, <2>2, <2>3
  <2>4. CASE j # n
    <3>1. j \in 1..(n - 1)
      BY <1>5, <2>4
    <3> QED
      BY <1>8, <1>10, <1>12, <2>1, <2>4, <3>1 DEF Listing
  <2> QED
    BY <2>3, <2>4
<1>13. Listing(R, T, t)
  BY <1>4, <1>11, <1>12 DEF Listing
<1> QED
  BY <1>4, <1>13

-----------------------------------------------------------------------------
(* The order of the archived segments.                                      *)
LEMMA NameParts ==
  ASSUME NEW n \in Name
  PROVE  n = <<n[1], n[2]>> /\ n[1] \in Nat /\ n[2] \in Nat /\ n[1] <= MaxTime
BY ArchiveAssumption DEF Name

LEMMA BeforeOrders ==
  /\ \A n \in Name : ~Before(n, n)
  /\ \A m, n \in Name : m # n => Before(m, n) \/ Before(n, m)
  /\ \A k, m, n \in Name : Before(k, m) /\ Before(m, n) => Before(k, n)
  /\ \A m, n \in Name : Before(m, n) => ~Before(n, m) /\ m[1] <= n[1]
<1>1. \A m, n \in Name : m # n => Before(m, n) \/ Before(n, m)
  <2> SUFFICES ASSUME NEW m \in Name, NEW n \in Name, m # n
               PROVE  Before(m, n) \/ Before(n, m)
    OBVIOUS
  <2>1. m[1] # n[1] \/ m[2] # n[2]
    BY NameParts
  <2> QED
    BY <2>1, NameParts DEF Before
<1> QED
  BY <1>1, NameParts DEF Before

LEMMA NamesFinite == IsFiniteSet(Name)
<1> DEFINE A == 0..MaxTime
           B == 0..(FirstIndex + MaxRotations)
<1>1. IsFiniteSet(A) /\ IsFiniteSet(B)
  BY ArchiveAssumption, FS_Interval
<1>2. IsFiniteSet(A \X B)
  <2> HIDE DEF A, B
  <2> QED
    BY <1>1, FS_Product
<1> QED
  BY <1>2 DEF Name

(* A directory of the archive is listed in that order, each name once.      *)
LEMMA SortedLists ==
  ASSUME NEW S \in SUBSET Name
  PROVE  /\ Sorted(S) \in [1..Cardinality(S) -> S] /\ Cardinality(S) \in Nat
         /\ \A i, j \in 1..Cardinality(S) : i < j => Before(Sorted(S)[i], Sorted(S)[j])
<1> DEFINE R == {p \in Name \X Name : Before(p[1], p[2])}
<1>1. \A m, n \in Name : <<m, n>> \in R <=> Before(m, n)
  OBVIOUS
<1>2. IsFiniteSet(S) /\ Cardinality(S) \in Nat
  BY NamesFinite, FS_Subset, FS_CardinalityType
<1>3. Orders(R, S)
  BY <1>1, BeforeOrders DEF Orders
<1>4. PICK s : Listing(R, S, s)
  <2> HIDE DEF R
  <2> QED
    BY <1>2, <1>3, Listed
<1>5. /\ s \in [1..Cardinality(S) -> S]
      /\ \A i, j \in 1..Cardinality(S) : i < j => Before(s[i], s[j])
  <2>1. s \in [1..Cardinality(S) -> S]
    BY <1>4 DEF Listing
  <2>2. ASSUME NEW i \in 1..Cardinality(S), NEW j \in 1..Cardinality(S), i < j
        PROVE  Before(s[i], s[j])
    <3>1. <<s[i], s[j]>> \in R
      BY <1>4, <2>2 DEF Listing
    <3>2. s[i] \in Name /\ s[j] \in Name
      BY <2>1
    <3> QED
      BY <1>1, <3>1, <3>2
  <2> QED
    BY <2>1, <2>2
<1> QED
  BY <1>2, <1>5 DEF Sorted

(* Numbers are listed in ascending order.                                   *)
LEMMA AscendingLists ==
  ASSUME NEW S \in SUBSET Nat, IsFiniteSet(S)
  PROVE  /\ Ascending(S) \in [1..Cardinality(S) -> S] /\ Cardinality(S) \in Nat
         /\ \A i, j \in 1..Cardinality(S) : i < j => Ascending(S)[i] < Ascending(S)[j]
<1> DEFINE R == {p \in Nat \X Nat : p[1] < p[2]}
<1>1. \A m, n \in Nat : <<m, n>> \in R <=> m < n
  OBVIOUS
<1>2. Cardinality(S) \in Nat
  BY FS_CardinalityType
<1>3. Orders(R, S)
  <2>1. \A x, y \in S : x # y => x < y \/ y < x
    OBVIOUS
  <2>2. \A x, y, z \in S : x < y /\ y < z => x < z
    OBVIOUS
  <2> HIDE DEF R
  <2> QED
    BY <1>1, <2>1, <2>2 DEF Orders
<1>4. PICK s : Listing(R, S, s)
  <2> HIDE DEF R
  <2> QED
    BY <1>3, Listed
<1>5. /\ s \in [1..Cardinality(S) -> S]
      /\ \A i, j \in 1..Cardinality(S) : i < j => s[i] < s[j]
  <2>1. s \in [1..Cardinality(S) -> S]
    BY <1>4 DEF Listing
  <2>2. ASSUME NEW i \in 1..Cardinality(S), NEW j \in 1..Cardinality(S), i < j
        PROVE  s[i] < s[j]
    <3>1. <<s[i], s[j]>> \in R
      BY <1>4, <2>2 DEF Listing
    <3>2. s[i] \in Nat /\ s[j] \in Nat
      BY <2>1
    <3> QED
      BY <1>1, <3>1, <3>2
  <2> QED
    BY <2>1, <2>2
<1> QED
  BY <1>2, <1>5 DEF Ascending

-----------------------------------------------------------------------------
(* What the assumptions say of the options.                                 *)
LEMMA Options ==
  /\ Configs \subseteq [codec : CodecConfig, compress : BOOLEAN, retention : Nat]
  /\ MaxArchived \in Nat \ {0} /\ FirstIndex \in Nat /\ TickSeconds \in Nat
  /\ MaxTime \in Nat /\ MaxRotations \in Nat /\ MaxCrashes \in Nat
  /\ Payload \in Seq(Seq(Piece) \ {<<>>}) /\ Records = 1..Len(Payload) /\ Len(Payload) \in Nat
  /\ BrokenGz \in Nat /\ DefaultLimit \in Nat
BY ArchiveAssumption, QueryAssumption DEF Records

LEMMA PayloadPieces ==
  ASSUME NEW id \in Records
  PROVE  /\ Payload[id] \in Seq(Piece) /\ Payload[id] # <<>> /\ Len(Payload[id]) \in Nat \ {0}
         /\ Payload[id][1] \in Piece
<1>1. Payload[id] \in Seq(Piece) \ {<<>>}
  BY Options
<1>2. Len(Payload[id]) \in Nat \ {0}
  BY <1>1
<1> QED
  BY <1>1, <1>2

-----------------------------------------------------------------------------
(* The fields before the payload.                                           *)
MetadataFields(id, n) ==
  {Field("ts", <<>>, id), Field("shard", <<>>, 0), Field("seq", <<>>, n), Field("level", <<>>, id % 3)}

TextOf(id) == Sanitized(Payload[id])
PayloadField(id) == Field("payload", TextOf(id), NaN)

RecordFor(id, n) ==
  [ts |-> id, shard |-> 0, seq |-> n, level |-> id % 3, payload |-> Payload[id]]
MetadataOf(codec, id, n) == Metadata(codec, RecordFor(id, n))

LEMMA MetadataIs ==
  ASSUME NEW c \in CodecConfig, NEW id \in Records, NEW n \in Nat
  PROVE  /\ MetadataOf(c, id, n) \in Seq(MetadataFields(id, n))
         /\ c.fields # {} => Len(MetadataOf(c, id, n)) > 0
<1> DEFINE S == MetadataFields(id, n)
           rec == RecordFor(id, n)
           w(key) == IF key \in c.fields THEN <<Field(key, <<>>, rec[key])>> ELSE <<>>
<1>1. /\ rec["ts"] = id /\ rec["shard"] = 0 /\ rec["seq"] = n /\ rec["level"] = id % 3
  BY DEF RecordFor
<1>2. w("ts") \in Seq(S) /\ w("shard") \in Seq(S) /\ w("seq") \in Seq(S) /\ w("level") \in Seq(S)
  <2>1. <<>> \in Seq(S)
    OBVIOUS
  <2>2. \A x \in S : <<x>> \in Seq(S)
    OBVIOUS
  <2>3. /\ Field("ts", <<>>, rec["ts"]) \in S /\ Field("shard", <<>>, rec["shard"]) \in S
        /\ Field("seq", <<>>, rec["seq"]) \in S /\ Field("level", <<>>, rec["level"]) \in S
    BY <1>1 DEF MetadataFields
  <2> HIDE DEF S, rec
  <2> QED
    BY <2>1, <2>2, <2>3
<1>3. MetadataOf(c, id, n) = w("ts") \o w("shard") \o w("seq") \o w("level")
  BY DEF MetadataOf, Metadata
<1>4. /\ \A key \in c.fields : Len(w(key)) = 1
      /\ c.fields \subseteq {"ts", "shard", "seq", "level"}
  BY DEF CodecConfig
<1> HIDE DEF w, S
<1>5. Len(MetadataOf(c, id, n)) = Len(w("ts")) + Len(w("shard")) + Len(w("seq")) + Len(w("level"))
  BY <1>2, <1>3
<1>6. MetadataOf(c, id, n) \in Seq(S)
  BY <1>2, <1>3
<1>7. ASSUME c.fields # {} PROVE Len(MetadataOf(c, id, n)) > 0
  <2>1. PICK key \in c.fields : TRUE
    BY <1>7
  <2>2. Len(w(key)) = 1
    BY <1>4
  <2>3. Len(w("ts")) \in Nat /\ Len(w("shard")) \in Nat /\ Len(w("seq")) \in Nat /\ Len(w("level")) \in Nat
    BY <1>2
  <2> QED
    BY <1>4, <1>5, <2>1, <2>2, <2>3
<1> QED
  BY <1>6, <1>7 DEF S

(* A structured line: the metadata, then the payload.                       *)
LEMMA StructuredLine ==
  ASSUME NEW c \in CodecConfig, NEW id \in Records, NEW n \in Nat, Structured(c)
  PROVE  LET l == LineOf(c, id, n)
             m == MetadataOf(c, id, n)
         IN  /\ l = [prefix |-> [class |-> c.crc, sum |-> Covered(c.crc, m, l.body),
                                 hash |-> IF c.crc = "payload_hash" THEN TextOf(id) ELSE <<>>],
                     body |-> l.body]
             /\ l.body = m \o <<PayloadField(id)>>
             /\ l.body \in Seq(MetadataFields(id, n) \cup {PayloadField(id)})
             /\ Len(l.body) = Len(m) + 1 /\ Len(m) \in Nat
             /\ l.body[Len(m) + 1] = PayloadField(id)
             /\ \A i \in 1..Len(m) : l.body[i] = m[i] /\ m[i] \in MetadataFields(id, n)
<1> DEFINE l == LineOf(c, id, n)
           m == MetadataOf(c, id, n)
           S == MetadataFields(id, n) \cup {PayloadField(id)}
<1>1. m \in Seq(MetadataFields(id, n))
  BY MetadataIs
<1>2. l = [prefix |-> [class |-> c.crc, sum |-> Covered(c.crc, m, m \o <<PayloadField(id)>>),
                       hash |-> IF c.crc = "payload_hash" THEN TextOf(id) ELSE <<>>],
           body |-> m \o <<PayloadField(id)>>]
  <2>1. RecordFor(id, n).payload = Payload[id]
    BY DEF RecordFor
  <2>2. l = Encode(c, RecordFor(id, n))
    BY DEF LineOf, RecordFor
  <2> QED
    BY <2>1, <2>2 DEF Encode, MetadataOf, PayloadField, TextOf
<1>3. l.body = m \o <<PayloadField(id)>>
  BY <1>2
<1> HIDE DEF l, m
<1>4. m \in Seq(S) /\ <<PayloadField(id)>> \in Seq(S)
  <2>1. MetadataFields(id, n) \subseteq S /\ PayloadField(id) \in S
    OBVIOUS
  <2> HIDE DEF S
  <2> QED
    BY <1>1, <2>1
<1> HIDE DEF S
<1>5. l.body \in Seq(S) /\ Len(l.body) = Len(m) + 1 /\ Len(m) \in Nat
  BY <1>3, <1>4
<1>6. l.body[Len(m) + 1] = PayloadField(id)
  BY <1>3, <1>4
<1>7. \A i \in 1..Len(m) : l.body[i] = m[i] /\ m[i] \in MetadataFields(id, n)
  BY <1>1, <1>3, <1>4
<1> QED
  BY <1>2, <1>3, <1>5, <1>6, <1>7 DEF l, m, S

(* The fields with keys of K and texts of T; a line's fields are of some    *)
(* such kind.                                                               *)
Fields(K, T) == [key : K, text : T, num : Nat \cup {NaN}]
IsBody(b) == \E K, T : b \in Seq(Fields(K, T))

LEMMA FieldIs ==
  ASSUME NEW K, NEW T, NEW k \in K, NEW t \in T, NEW x \in Nat \cup {NaN}
  PROVE  Field(k, t, x) \in Fields(K, T)
BY DEF Field, Fields

LEMMA OneField ==
  ASSUME NEW k, NEW t, NEW x \in Nat \cup {NaN}
  PROVE  IsBody(<<Field(k, t, x)>>)
<1> DEFINE S == Fields({k}, {t})
           f == Field(k, t, x)
<1>1. f \in S
  BY FieldIs
<1>2. <<f>> \in Seq(S)
  <2> HIDE DEF f, S
  <2> QED
    BY <1>1
<1>3. \E K, T : <<f>> \in Seq(Fields(K, T))
  <2> HIDE DEF f
  <2> QED
    BY <1>2
<1> QED
  BY <1>3 DEF IsBody

LEMMA MetadataFieldsAre ==
  ASSUME NEW id \in Records, NEW n \in Nat
  PROVE  MetadataFields(id, n) \cup {PayloadField(id)}
           \subseteq Fields({"ts", "shard", "seq", "level", "payload"}, {<<>>, TextOf(id)})
<1> DEFINE K == {"ts", "shard", "seq", "level", "payload"}
           T == {<<>>, TextOf(id)}
<1>1. id \in Nat /\ id % 3 \in Nat /\ 0 \in Nat
  BY Options
<1>2. "ts" \in K /\ "shard" \in K /\ "seq" \in K /\ "level" \in K /\ "payload" \in K
  OBVIOUS
<1>3. <<>> \in T /\ TextOf(id) \in T
  OBVIOUS
<1> HIDE DEF K, T
<1>4. Field("ts", <<>>, id) \in Fields(K, T) /\ Field("level", <<>>, id % 3) \in Fields(K, T)
  BY <1>1, <1>2, <1>3, FieldIs
<1>5. Field("shard", <<>>, 0) \in Fields(K, T) /\ Field("seq", <<>>, n) \in Fields(K, T)
  BY <1>1, <1>2, <1>3, FieldIs
<1>6. PayloadField(id) \in Fields(K, T)
  BY <1>2, <1>3, FieldIs DEF PayloadField
<1> QED
  BY <1>4, <1>5, <1>6 DEF MetadataFields, K, T

LEMMA LineBody ==
  ASSUME NEW c \in CodecConfig, NEW id \in Records, NEW n \in Nat
  PROVE  /\ IsBody(LineOf(c, id, n).body)
         /\ LineOf(c, id, n) = [prefix |-> LineOf(c, id, n).prefix, body |-> LineOf(c, id, n).body]
<1>1. CASE Structured(c)
  <2> DEFINE S == Fields({"ts", "shard", "seq", "level", "payload"}, {<<>>, TextOf(id)})
  <2>1. LineOf(c, id, n).body \in Seq(MetadataFields(id, n) \cup {PayloadField(id)})
    BY <1>1, StructuredLine
  <2>2. LineOf(c, id, n).body \in Seq(S)
    <3>1. MetadataFields(id, n) \cup {PayloadField(id)} \subseteq S
      BY MetadataFieldsAre
    <3> HIDE DEF S
    <3> QED
      BY <2>1, <3>1
  <2>3. LineOf(c, id, n) = [prefix |-> LineOf(c, id, n).prefix, body |-> LineOf(c, id, n).body]
    <3> DEFINE m == MetadataOf(c, id, n)
               b == LineOf(c, id, n).body
               p == [class |-> c.crc, sum |-> Covered(c.crc, m, b),
                     hash |-> IF c.crc = "payload_hash" THEN TextOf(id) ELSE <<>>]
    <3>0. LineOf(c, id, n) = [prefix |-> p, body |-> b]
      BY <1>1, StructuredLine
    <3> HIDE DEF p
    <3>1. PICK r : LineOf(c, id, n) = [prefix |-> r, body |-> LineOf(c, id, n).body]
      BY <3>0
    <3>2. LineOf(c, id, n).prefix = r
      BY <3>1
    <3> QED
      BY <3>1, <3>2
  <2> QED
    BY <2>2, <2>3 DEF IsBody
<1>2. CASE ~Structured(c)
  <2> DEFINE p == Payload[id]
             x == IF Len(p) = 1 THEN p[1].num ELSE NaN
             f == Field(p[1].key, Tail(Sanitized(p)), x)
  <2>1. x \in Nat \cup {NaN}
    BY PayloadPieces DEF Piece
  <2>2. LineOf(c, id, n) = Bare(p)
    BY <1>2 DEF LineOf, Encode
  <2>3. Bare(p) = [prefix |-> [NoPrefix EXCEPT !.class = IF p[1].key = "crc" THEN "malformed" ELSE "none"],
                   body |-> <<f>>]
    BY DEF Bare
  <2>4. IsBody(<<f>>)
    BY <2>1, OneField
  <2> HIDE DEF f, p
  <2>6. LineOf(c, id, n).body = <<f>>
    BY <2>2, <2>3
  <2>8. LineOf(c, id, n) = [prefix |-> LineOf(c, id, n).prefix, body |-> LineOf(c, id, n).body]
    BY <2>2, <2>3
  <2> QED
    BY <2>4, <2>6, <2>8
<1> QED
  BY <1>1, <1>2

LEMMA FragmentBody ==
  ASSUME NEW l, IsBody(l.body), l = [prefix |-> l.prefix, body |-> l.body], NEW p \in Fragments(l)
  PROVE  IsBody(p.body)
<1> DEFINE upto(n) == SubSeq(l.body, 1, n)
           cutField(n) == [l.body[n] EXCEPT
             !.text = IF @ = <<>> THEN @ ELSE SubSeq(@, 1, Len(@) - 1),
             !.num  = IF @ = NaN THEN @ ELSE @ \div 10]
<1>1. \/ \E w \in {"cr", "NUL"} : p = [prefix |-> NoPrefix, body |-> <<Field("", <<w>>, NaN)>>]
      \/ \E q \in {l.prefix} \ {NoPrefix} : p = [prefix |-> [q EXCEPT !.class = "malformed"], body |-> <<>>]
      \/ \E n \in 1..Len(l.body) : p = [l EXCEPT !.body = Append(upto(n - 1), cutField(n))]
  BY DEF Fragments
<1>2. CASE \E w \in {"cr", "NUL"} : p = [prefix |-> NoPrefix, body |-> <<Field("", <<w>>, NaN)>>]
  <2>1. PICK w \in {"cr", "NUL"} : p = [prefix |-> NoPrefix, body |-> <<Field("", <<w>>, NaN)>>]
    BY <1>2
  <2>2. IsBody(<<Field("", <<w>>, NaN)>>)
    BY OneField
  <2> QED
    BY <2>1, <2>2
<1>3. CASE \E q \in {l.prefix} \ {NoPrefix} : p = [prefix |-> [q EXCEPT !.class = "malformed"], body |-> <<>>]
  <2>1. p.body = <<>>
    BY <1>3
  <2>2. <<>> \in Seq(Fields({}, {}))
    OBVIOUS
  <2> QED
    BY <2>1, <2>2 DEF IsBody
<1>4. CASE \E n \in 1..Len(l.body) : p = [l EXCEPT !.body = Append(upto(n - 1), cutField(n))]
  <2>1. PICK n \in 1..Len(l.body) : p = [l EXCEPT !.body = Append(upto(n - 1), cutField(n))]
    BY <1>4
  <2>2. PICK K, T : l.body \in Seq(Fields(K, T))
    BY DEF IsBody
  <2>3. l.body[n] \in Fields(K, T) /\ Len(l.body) \in Nat
    BY <2>1, <2>2
  <2> DEFINE g == l.body[n]
             t == IF g.text = <<>> THEN g.text ELSE SubSeq(g.text, 1, Len(g.text) - 1)
             x == IF g.num = NaN THEN g.num ELSE g.num \div 10
             U == T \cup {t}
  <2>4. x \in Nat \cup {NaN}
    BY <2>3 DEF Fields
  <2>5. cutField(n) = [g EXCEPT !.text = t, !.num = x]
    BY <2>3 DEF Fields
  <2>6. cutField(n) \in Fields(K, U)
    <3>1. g \in [key : K, text : T, num : Nat \cup {NaN}]
      BY <2>3 DEF Fields
    <3> HIDE DEF g, t, x, cutField
    <3> QED
      BY <2>4, <2>5, <3>1 DEF Fields
  <2> DEFINE S == Fields(K, U)
  <2> HIDE DEF cutField
  <2>7. p.body = Append(upto(n - 1), cutField(n))
    BY <2>1
  <2>8. Fields(K, T) \subseteq S
    BY DEF Fields
  <2>9. cutField(n) \in S
    BY <2>6
  <2>10. p.body \in Seq(S)
    <3> HIDE DEF S
    <3>1. l.body \in Seq(S)
      BY <2>2, <2>8
    <3>2. upto(n - 1) \in Seq(S)
      BY <2>3, <3>1
    <3> QED
      BY <2>7, <2>9, <3>2
  <2> QED
    BY <2>10 DEF IsBody
<1> QED
  BY <1>1, <1>2, <1>3, <1>4

LEMMA AnyLineBody ==
  ASSUME NEW l \in AnyLine
  PROVE  IsBody(l.body)
<1>1. PICK c \in CodecConfig, id \in Records, n \in Nat :
        l \in {LineOf(c, id, n)} \cup Fragments(LineOf(c, id, n))
  BY DEF AnyLine
<1> QED
  BY <1>1, LineBody, FragmentBody

(* A number extracted from a line is one, or none.                          *)
LEMMA ExtractedNumber ==
  ASSUME NEW l \in AnyLine, NEW key
  PROVE  NumberOr(l.body, key, NaN) \in Nat \cup {NaN}
<1>1. PICK K, U : l.body \in Seq(Fields(K, U))
  BY AnyLineBody DEF IsBody
<1>2. CASE Has(l.body, key)
  <2> DEFINE First(i) == l.body[i].key = key /\ \A j \in 1..(i - 1) : l.body[j].key # key
             T == {i \in DOMAIN l.body : l.body[i].key = key}
  <2>1. T \subseteq Nat /\ T # {}
    BY <1>1, <1>2 DEF Has
  <2>2. PICK i \in T : \A j \in T : i <= j
    BY <2>1, Least
  <2>3. i \in DOMAIN l.body /\ First(i)
    BY <1>1, <2>2
  <2> DEFINE k == CHOOSE i_1 \in DOMAIN l.body : First(i_1)
  <2>4. k \in DOMAIN l.body
    <3> HIDE DEF First
    <3> QED
      BY <2>3
  <2>5. Extract(l.body, key) = l.body[k]
    BY DEF Extract
  <2>6. l.body[k] \in Fields(K, U)
    <3> HIDE DEF k
    <3> QED
      BY <1>1, <2>4
  <2> QED
    BY <1>1, <1>2, <2>5, <2>6 DEF NumberOr, Fields
<1>3. CASE ~Has(l.body, key)
  BY <1>3 DEF NumberOr
<1> QED
  BY <1>2, <1>3

(* The lines that recovery keeps are the first ones.                        *)
LEMMA ValidLinesCount ==
  ASSUME NEW S, NEW lines \in Seq(S)
  PROVE  /\ ValidLines(lines) \in 0..Len(lines)
         /\ (\A i \in DOMAIN lines : Verifies(lines[i])) => ValidLines(lines) = Len(lines)
<1> DEFINE bad == {i \in DOMAIN lines : ~Verifies(lines[i])}
<1>1. CASE bad = {}
  BY <1>1 DEF ValidLines
<1>2. CASE bad # {}
  <2>1. bad \subseteq Nat
    OBVIOUS
  <2>2. PICK i \in bad : \A j \in bad : i <= j
    BY <1>2, <2>1, Least
  <2> DEFINE k == CHOOSE i_1 \in bad : \A j \in bad : i_1 <= j
  <2>3. k \in bad
    <3> HIDE DEF bad
    <3> QED
      BY <2>2
  <2>4. ValidLines(lines) = k - 1
    BY <1>2 DEF ValidLines
  <2>5. ~\A i_1 \in DOMAIN lines : Verifies(lines[i_1])
    BY <1>2
  <2> HIDE DEF k
  <2> QED
    BY <2>3, <2>4, <2>5
<1> QED
  BY <1>1, <1>2

(* The next sequence number after a recovery is a number.                   *)
LEMMA NextSequenceIs ==
  ASSUME NEW lines \in Seq(AnyLine)
  PROVE  NextSequence(lines) \in Nat
<1> DEFINE number(i) == NumberOr(lines[i].body, "seq", NaN)
           v == ValidLines(lines)
           numbered == {i \in 1..v : number(i) # NaN}
           last == CHOOSE i \in numbered : \A j \in numbered : j <= i
<1>1. v \in 0..Len(lines)
  BY ValidLinesCount
<1>2. CASE numbered = {}
  BY <1>1, <1>2 DEF NextSequence
<1>3. CASE numbered # {}
  <2> DEFINE T == {v - i : i \in numbered}
  <2>1. T \subseteq Nat /\ T # {}
    BY <1>1, <1>3
  <2>2. PICK m \in T : \A y \in T : m <= y
    <3> HIDE DEF T
    <3> QED
      BY <2>1, Least
  <2>3. PICK k \in numbered : m = v - k
    BY <2>2
  <2>4. \A j \in numbered : j <= k
    <3> TAKE j \in numbered
    <3>1. v - j \in T
      OBVIOUS
    <3>2. v - k <= v - j
      BY <2>2, <2>3, <3>1
    <3>3. j \in Int /\ k \in Int /\ v \in Int
      BY <1>1, <2>3
    <3> HIDE DEF v, numbered
    <3> QED
      BY <3>2, <3>3
  <2>5. last \in numbered
    <3> HIDE DEF numbered
    <3> QED
      BY <2>3, <2>4
  <2>6. NextSequence(lines) = number(last) + 1 + v - last
    BY <1>3 DEF NextSequence
  <2>7. last \in 1..v /\ number(last) # NaN
    <3> HIDE DEF last
    <3> QED
      BY <2>5
  <2>8. lines[last] \in AnyLine
    <3> HIDE DEF last, v
    <3> QED
      BY <1>1, <2>7
  <2>9. number(last) \in Nat \cup {NaN}
    BY <2>8, ExtractedNumber
  <2> HIDE DEF number, last, v
  <2> QED
    BY <1>1, <2>6, <2>7, <2>9
<1> QED
  BY <1>2, <1>3

(* A payload field is the first one with its key: nothing before it has it. *)
LEMMA PayloadIsLast ==
  ASSUME NEW c \in CodecConfig, NEW id \in Records, NEW n \in Nat, Structured(c)
  PROVE  LET b == LineOf(c, id, n).body
             m == MetadataOf(c, id, n)
         IN  /\ PayloadAt(b) = {Len(m) + 1} /\ FirstPayload(b) = Len(m) + 1
             /\ Rest(b, Len(m) + 1) = TextOf(id)
             /\ SubSeq(b, 1, Len(m)) = m
<1> DEFINE b == LineOf(c, id, n).body
           m == MetadataOf(c, id, n)
           k == Len(m) + 1
<1>1. /\ b = m \o <<PayloadField(id)>>
      /\ b \in Seq(MetadataFields(id, n) \cup {PayloadField(id)})
      /\ Len(b) = Len(m) + 1 /\ Len(m) \in Nat /\ b[k] = PayloadField(id)
      /\ \A i \in 1..Len(m) : b[i] = m[i] /\ m[i] \in MetadataFields(id, n)
  BY StructuredLine
<1>2. \A f \in MetadataFields(id, n) : f.key # "payload"
  BY DEF MetadataFields, Field
<1>3. PayloadField(id).key = "payload" /\ PayloadField(id).text = TextOf(id)
  BY DEF PayloadField, Field
<1>4. DOMAIN b = 1..k
  BY <1>1
<1> HIDE DEF b, m
<1>5. PayloadAt(b) = {k}
  BY <1>1, <1>2, <1>3, <1>4 DEF PayloadAt
<1>6. FirstPayload(b) = k
  BY <1>1, <1>5 DEF FirstPayload
<1>7. SubSeq(b, 1, Len(m)) = m
  <2>1. m \in Seq(MetadataFields(id, n))
    BY MetadataIs DEF m
  <2>2. DOMAIN SubSeq(b, 1, Len(m)) = 1..Len(m) /\ \A i \in 1..Len(m) : SubSeq(b, 1, Len(m))[i] = b[i]
    BY <1>1
  <2>3. SubSeq(b, 1, Len(m)) \in Seq(MetadataFields(id, n) \cup {PayloadField(id)})
    BY <1>1
  <2>4. Len(SubSeq(b, 1, Len(m))) = Len(m)
    BY <1>1
  <2>5. m \in Seq(MetadataFields(id, n) \cup {PayloadField(id)})
    BY <2>1
  <2> QED
    BY <1>1, <2>2, <2>3, <2>4, <2>5, SeqEqual
<1>8. Rest(b, k) = TextOf(id)
  <2> DEFINE F(f) == [i \in k..Len(b) |-> IF i = k THEN b[i].text
                                          ELSE f[i - 1] \o <<"\t">> \o Words(b[i])]
             f0 == [i \in k..Len(b) |-> b[i].text]
             up == CHOOSE f : f = F(f)
  <2>1. k..Len(b) = {k}
    BY <1>1
  <2>2. \A f : F(f)[k] = b[k].text /\ F(f) = f0
    BY <2>1
  <2>3. f0 = F(f0)
    BY <2>2
  <2>4. up = F(up)
    <3> HIDE DEF F, f0
    <3> QED
      BY <2>3
  <2>5. up[Len(b)] = b[k].text
    <3>1. F(up)[k] = b[k].text
      BY <2>2
    <3> HIDE DEF F, up
    <3> QED
      BY <1>1, <2>4, <3>1
  <2>6. Rest(b, k) = up[Len(b)]
    BY DEF Rest
  <2> QED
    BY <1>1, <1>3, <2>5, <2>6
<1> QED
  BY <1>5, <1>6, <1>7, <1>8 DEF b, m

(* A payload that does not look like a field.                               *)
Unlike(id) == Payload[id][1].key \in {"", "{"}

LEMMA UnlikeKeys ==
  ASSUME NEW id, Unlike(id)
  PROVE  Payload[id][1].key \notin {"crc", "shard", "seq", "level"}
BY Zenon DEF Unlike

LEMMA VerifiesBy ==
  ASSUME NEW l
  PROVE  /\ l.prefix.class = "full" /\ FullMatches(l) => Verifies(l)
         /\ l.prefix.class = "payload_hash" /\ HashMatches(l) => Verifies(l)
         /\ l.prefix.class = "header" /\ HeaderMatches(l) => Verifies(l)
         /\ l.prefix.class = "none" /\ Parses(l) => Verifies(l)
<1>1. l.prefix.class = "full" /\ FullMatches(l) => Checks(l)
  BY DEF Checks
<1>2. l.prefix.class = "payload_hash" /\ HashMatches(l) => Checks(l)
  BY DEF Checks
<1>3. l.prefix.class = "header" /\ HeaderMatches(l) => Checks(l)
  BY DEF Checks
<1> QED
  BY <1>1, <1>2, <1>3 DEF Verifies

(* What the encoder writes passes the check of recovery, as long as the     *)
(* codec can bring the record back.                                         *)
LEMMA EncodedVerifies ==
  ASSUME NEW c \in CodecConfig, NEW id \in Records, NEW n \in Nat,
         c.crc = "header" => c.fields # {},
         ~Structured(c) => Unlike(id)
  PROVE  Verifies(LineOf(c, id, n))
<1> DEFINE l == LineOf(c, id, n)
           b == l.body
           m == MetadataOf(c, id, n)
           k == Len(m) + 1
<1>1. CASE Structured(c)
  <2>1. /\ l = [prefix |-> [class |-> c.crc, sum |-> Covered(c.crc, m, b),
                            hash |-> IF c.crc = "payload_hash" THEN TextOf(id) ELSE <<>>],
                body |-> b]
        /\ b \in Seq(MetadataFields(id, n) \cup {PayloadField(id)})
        /\ Len(b) = k /\ Len(m) \in Nat
        /\ b[k] = PayloadField(id)
        /\ \A i \in 1..Len(m) : b[i] = m[i] /\ m[i] \in MetadataFields(id, n)
    BY <1>1, StructuredLine
  <2>2. /\ PayloadAt(b) = {k} /\ FirstPayload(b) = k
        /\ Rest(b, k) = TextOf(id) /\ SubSeq(b, 1, Len(m)) = m
    BY <1>1, PayloadIsLast
  <2> HIDE DEF l, m
  <2>3. /\ l.prefix.class = c.crc /\ l.prefix.sum = Covered(c.crc, m, b)
        /\ c.crc = "payload_hash" => l.prefix.hash = TextOf(id)
    <3> DEFINE p == [class |-> c.crc, sum |-> Covered(c.crc, m, b),
                     hash |-> IF c.crc = "payload_hash" THEN TextOf(id) ELSE <<>>]
    <3>1. l.prefix = p
      <4> HIDE DEF p
      <4> QED
        BY <2>1 DEF p
    <3> QED
      BY <3>1
  <2>4. CASE c.crc = "full"
    <3>1. l.prefix.class = "full" /\ l.prefix.sum = b
      BY <2>3, <2>4 DEF Covered
    <3>2. FullMatches(l)
      BY <3>1 DEF FullMatches
    <3>3. Verifies(l)
      BY <3>1, <3>2, VerifiesBy
    <3> QED
      BY <3>3 DEF l
  <2>5. CASE c.crc = "payload_hash"
    <3>1. l.prefix.sum = m /\ l.prefix.hash = TextOf(id)
      BY <2>3, <2>5 DEF Covered
    <3>2. HashMatches(l)
      BY <2>1, <2>2, <3>1 DEF HashMatches
    <3>3. Verifies(l)
      BY <2>3, <2>5, <3>2, VerifiesBy
    <3> QED
      BY <3>3 DEF l
  <2>6. CASE c.crc = "header"
    <3>1. l.prefix.sum = m
      BY <2>3, <2>6 DEF Covered
    <3>2. k > 1
      BY <2>1, <2>6, MetadataIs DEF m
    <3>3. {i \in PayloadAt(b) : i > 1} = {k}
      BY <2>2, <3>2
    <3> DEFINE at == {i \in PayloadAt(b) : i > 1}
               j0 == CHOOSE i \in at : \A j \in at : i <= j
    <3>4. j0 = k
      <4>1. k <= k
        BY <2>1
      <4> QED
        BY <3>3, <4>1
    <3>5. SubSeq(b, 1, j0 - 1) = m
      <4>1. k - 1 = Len(m)
        BY <2>1
      <4> HIDE DEF j0
      <4> QED
        BY <2>2, <3>4, <4>1
    <3>6. HeaderMatches(l)
      <4> HIDE DEF j0
      <4> QED
        BY <3>1, <3>3, <3>5 DEF HeaderMatches, j0
    <3>7. Verifies(l)
      BY <2>3, <2>6, <3>6, VerifiesBy
    <3> QED
      BY <3>7 DEF l
  <2>7. CASE c.crc = "none"
    <3>1. Checks(l)
      BY <2>3, <2>7 DEF Checks
    <3>2. \A i \in DOMAIN b : \/ b[i] = Field("ts", <<>>, id) \/ b[i] = Field("shard", <<>>, 0)
                              \/ b[i] = Field("seq", <<>>, n) \/ b[i] = Field("level", <<>>, id % 3)
                              \/ b[i] = PayloadField(id)
      BY <2>1 DEF MetadataFields
    <3>3. \A i \in DOMAIN b : /\ b[i].key = "shard" => b[i].num = 0
                              /\ b[i].key = "seq" => b[i].num = n
                              /\ b[i].key = "level" => b[i].num = id % 3
      BY <3>2 DEF Field, PayloadField
    <3>4. DOMAIN b \subseteq Nat
      BY <2>1
    <3>5. ASSUME NEW key, Has(b, key)
          PROVE  \E i \in DOMAIN b : b[i].key = key /\ Extract(b, key) = b[i]
      <4> DEFINE First(i) == b[i].key = key /\ \A j \in 1..(i - 1) : b[j].key # key
                 T == {i \in DOMAIN b : b[i].key = key}
      <4>1. T \subseteq Nat /\ T # {}
        BY <3>4, <3>5 DEF Has
      <4>2. PICK i \in T : \A j \in T : i <= j
        BY <4>1, Least
      <4>3. i \in DOMAIN b /\ First(i)
        <5>1. DOMAIN b = 1..k /\ i \in 1..k /\ k \in Nat
          BY <2>1, <4>2
        <5> QED
          BY <4>2, <5>1
      <4> DEFINE e == CHOOSE i_1 \in DOMAIN b : First(i_1)
      <4>4. e \in DOMAIN b /\ First(e)
        <5> HIDE DEF First
        <5> QED
          BY <4>3
      <4>5. Extract(b, key) = b[e]
        BY DEF Extract
      <4> HIDE DEF e
      <4> QED
        BY <4>4, <4>5
    <3>6. Parses(l)
      <4>1. Has(b, "shard") => Extract(b, "shard").num = 0
        BY <3>3, <3>5
      <4>2. Has(b, "seq") => Extract(b, "seq").num = n
        BY <3>3, <3>5
      <4>3. Has(b, "level") => Extract(b, "level").num = id % 3
        BY <3>3, <3>5
      <4>4. id % 3 \in Level
        BY Options DEF Level
      <4> QED
        BY <3>1, <4>1, <4>2, <4>3, <4>4 DEF Parses, NaN
    <3>7. Verifies(l)
      BY <2>3, <2>7, <3>6, VerifiesBy
    <3> QED
      BY <3>7 DEF l
  <2> QED
    BY <2>4, <2>5, <2>6, <2>7 DEF CodecConfig, CrcClass, l
<1>2. CASE ~Structured(c)
  <2> DEFINE p == Payload[id]
             f == Field(p[1].key, Tail(Sanitized(p)), IF Len(p) = 1 THEN p[1].num ELSE NaN)
  <2>1. p[1].key \notin {"crc", "shard", "seq", "level"}
    BY <1>2, UnlikeKeys
  <2>2. l = [prefix |-> [NoPrefix EXCEPT !.class = IF p[1].key = "crc" THEN "malformed" ELSE "none"],
             body |-> <<f>>]
    BY <1>2 DEF LineOf, Encode, Bare
  <2>3. l.prefix.class = "none"
    BY <2>1, <2>2 DEF NoPrefix
  <2>4a. f.key = p[1].key
    BY DEF Field
  <2>4. b = <<f>> /\ f.key = p[1].key
    <3> HIDE DEF f
    <3> QED
      BY <2>2, <2>4a
  <2> HIDE DEF f, p, l
  <2>5. ~Has(b, "shard") /\ ~Has(b, "seq") /\ ~Has(b, "level")
    <3>1. DOMAIN <<f>> = {1} /\ <<f>>[1] = f
      OBVIOUS
    <3> QED
      BY <2>1, <2>4, <3>1 DEF Has
  <2> QED
    BY <2>3, <2>5 DEF Verifies, Parses, Checks, l
<1> QED
  BY <1>1, <1>2

-----------------------------------------------------------------------------
(* Files and their lines.                                                   *)
LEMMA EntryParts ==
  ASSUME NEW e \in AnyEntry
  PROVE  e.id \in Nat /\ e.seq \in Nat /\ e.line \in AnyLine /\ e.whole \in BOOLEAN
BY DEF AnyEntry

LEMMA EntryAt ==
  ASSUME NEW lines \in Seq(AnyEntry), NEW i \in DOMAIN lines
  PROVE  /\ lines[i] \in AnyEntry /\ i \in 1..Len(lines) /\ Len(lines) \in Nat
         /\ lines[i].id \in Nat /\ lines[i].seq \in Nat /\ lines[i].line \in AnyLine
         /\ lines[i].whole \in BOOLEAN
<1>1. lines[i] \in AnyEntry /\ i \in 1..Len(lines) /\ Len(lines) \in Nat
  OBVIOUS
<1> QED
  BY <1>1, EntryParts

LEMMA FileIs ==
  /\ None \in AnyFile /\ None.lines = <<>> /\ ~None.present
  /\ \A lines \in Seq(AnyEntry), now \in Nat :
            /\ File(lines, now) \in AnyFile /\ File(lines, now).lines = lines
            /\ File(lines, now).present /\ File(lines, now).mtime = now
BY DEF None, File, AnyFile

LEMMA NameIs ==
  ASSUME Typed, rotation + 1 <= FirstIndex + rotations \/ rotations < MaxRotations
  PROVE  Fresh \in Name
BY Options DEF Typed, Fresh, Name

(* The record that comes next, and the pieces of its line.                  *)
LEMMA EntryIs ==
  ASSUME Typed, NEW id \in Records
  PROVE  /\ Entry(id) \in AnyEntry
         /\ Entry(id).id = id /\ Entry(id).seq = sequence /\ Entry(id).whole
         /\ Entry(id).line = LineOf(config.codec, id, sequence)
         /\ config.codec \in CodecConfig
         /\ \A piece \in Fragments(Entry(id).line) :
              LET e == [Entry(id) EXCEPT !.line = piece, !.whole = FALSE]
              IN  e \in AnyEntry /\ e.id = id /\ ~e.whole
<1> DEFINE l == LineOf(config.codec, id, sequence)
<1>1. config.codec \in CodecConfig /\ sequence \in Nat /\ id \in Nat
  BY Options DEF Typed
<1>2. Entry(id) = [id |-> id, seq |-> sequence, line |-> l, whole |-> TRUE]
  BY DEF Entry, RecordOf, LineOf
<1>3. l \in AnyLine /\ \A piece \in Fragments(l) : piece \in AnyLine
  <2> DEFINE S == {l} \cup Fragments(l)
  <2>1. S \subseteq AnyLine
    <3> HIDE DEF S
    <3>1. \E c \in CodecConfig, id_1 \in Records, n \in Nat :
            S = {LineOf(c, id_1, n)} \cup Fragments(LineOf(c, id_1, n))
      BY <1>1 DEF S
    <3> QED
      BY <3>1 DEF AnyLine
  <2> QED
    BY <2>1
<1> HIDE DEF l
<1>4. Entry(id) \in AnyEntry
  BY <1>1, <1>2, <1>3 DEF AnyEntry
<1>5. /\ Entry(id).id = id /\ Entry(id).seq = sequence /\ Entry(id).whole /\ Entry(id).line = l
  BY <1>2
<1>6. ASSUME NEW piece \in Fragments(l)
      PROVE  LET e == [Entry(id) EXCEPT !.line = piece, !.whole = FALSE]
             IN  e \in AnyEntry /\ e.id = id /\ ~e.whole
  <2>1. piece \in AnyLine
    BY <1>3
  <2> QED
    BY <1>4, <1>5, <2>1 DEF AnyEntry
<1> QED
  BY <1>1, <1>4, <1>5, <1>6 DEF l

(* What is left of some lines after their first n.                          *)
LEMMA Prefix ==
  ASSUME NEW lines \in Seq(AnyEntry), NEW n \in 0..Len(lines)
  PROVE  /\ SubSeq(lines, 1, n) \in Seq(AnyEntry)
         /\ Len(SubSeq(lines, 1, n)) = n /\ DOMAIN SubSeq(lines, 1, n) = 1..n
         /\ \A i \in 1..n : SubSeq(lines, 1, n)[i] = lines[i] /\ i \in DOMAIN lines
OBVIOUS

(* Without the piece at the end.                                            *)
LEMMA EndedIs ==
  ASSUME NEW lines \in Seq(AnyEntry),
         \A i \in DOMAIN lines : ~lines[i].whole => i = Len(lines)
  PROVE  \E n \in 0..Len(lines) :
           /\ Ended(lines) = SubSeq(lines, 1, n)
           /\ \A i \in 1..n : lines[i].whole
           /\ \A i \in DOMAIN lines : lines[i].whole => i <= n
<1>1. Len(lines) \in Nat /\ DOMAIN lines = 1..Len(lines)
  OBVIOUS
<1>2. CASE lines # <<>> /\ ~lines[Len(lines)].whole
  <2>1. Len(lines) - 1 \in 0..Len(lines)
    BY <1>1, <1>2
  <2>2. Ended(lines) = SubSeq(lines, 1, Len(lines) - 1)
    BY <1>2 DEF Ended
  <2>3. \A i \in 1..(Len(lines) - 1) : lines[i].whole
    BY <1>1
  <2>4. \A i \in DOMAIN lines : lines[i].whole => i <= Len(lines) - 1
    BY <1>1, <1>2
  <2> QED
    BY <2>1, <2>2, <2>3, <2>4
<1>3. CASE ~(lines # <<>> /\ ~lines[Len(lines)].whole)
  <2>1. Ended(lines) = lines
    BY <1>3 DEF Ended
  <2>4. Len(lines) \in 0..Len(lines)
    BY <1>1
  <2>2. lines = SubSeq(lines, 1, Len(lines))
    <3> DEFINE s == SubSeq(lines, 1, Len(lines))
    <3>1. s \in Seq(AnyEntry) /\ Len(s) = Len(lines) /\ \A i \in 1..Len(lines) : s[i] = lines[i]
      BY <2>4, Prefix
    <3> HIDE DEF s
    <3>2. s = lines
      BY <3>1, SeqEqual
    <3> QED
      BY <3>2 DEF s
  <2>3. \A i \in 1..Len(lines) : lines[i].whole
    <3> TAKE i \in 1..Len(lines)
    <3>1. CASE i = Len(lines)
      <4>1. lines # <<>>
        BY <1>1
      <4> QED
        BY <1>3, <3>1, <4>1
    <3>2. CASE i # Len(lines)
      BY <1>1, <3>2
    <3> QED
      BY <3>1, <3>2
  <2>5. Ended(lines) = SubSeq(lines, 1, Len(lines))
    BY <2>1, <2>2
  <2>6. \A i \in DOMAIN lines : lines[i].whole => i <= Len(lines)
    BY <1>1
  <2> QED
    BY <2>3, <2>4, <2>5, <2>6
<1> QED
  BY <1>2, <1>3

(* What a restart does to the files: it keeps some of the first lines of    *)
(* the active log, all of them whole, and all the whole ones if they        *)
(* verify.                                                                  *)
LEMMA BootEffect ==
  ASSUME Typed, Files, NEW checkpoint \in BOOLEAN, Boot(checkpoint)
  PROVE  /\ engine.at = "down" /\ engine' = [engine EXCEPT !.at = "idle"]
         /\ clock < MaxTime /\ clock' = clock + 1
         /\ \E n \in 0..Len(active.lines) :
              /\ active'.lines = SubSeq(active.lines, 1, n)
              /\ \A i \in 1..n : active.lines[i].whole
              /\ (\A i \in DOMAIN active.lines : active.lines[i].whole => Verifies(active.lines[i].line))
                   => \A i \in DOMAIN active.lines : active.lines[i].whole => i <= n
         /\ active' \in AnyFile /\ active'.present
         /\ active'.mtime = clock' \/ (active.present /\ active'.mtime = active.mtime)
         /\ sequence' \in Nat /\ rotation' \in {rotation, 0}
         /\ cut' = cut \cup (Ids(active) \ Ids(active'))
         /\ UNCHANGED <<config, plain, gz, written, finished, expired, crashes, rotations>>
<1> DEFINE lines == active.lines
           whole == Ended(lines)
           kept == IF checkpoint THEN whole ELSE SubSeq(lines, 1, Kept(lines))
           cutOff == Len(kept) < Len(lines) \/ ~active.present
           time == IF cutOff THEN clock' ELSE active.mtime
<1>1. /\ engine.at = "down" /\ engine' = [engine EXCEPT !.at = "idle"]
      /\ clock < MaxTime /\ clock' = clock + 1
      /\ active' = File(kept, time)
      /\ sequence' = IF checkpoint THEN sequence ELSE NextSequence(Lines(active'))
      /\ cut' = cut \cup (Ids(active) \ Ids(active'))
      /\ rotation' = IF checkpoint THEN rotation ELSE 0
      /\ UNCHANGED <<config, plain, gz, written, finished, expired, crashes, rotations>>
  BY DEF Boot, At, Go
<1>2. lines \in Seq(AnyEntry) /\ active.mtime \in Nat /\ active.present \in BOOLEAN /\ Len(lines) \in Nat
  BY DEF Typed, AnyFile
<1>3. PICK n \in 0..Len(lines) :
        /\ whole = SubSeq(lines, 1, n)
        /\ \A i \in 1..n : lines[i].whole
        /\ \A i \in DOMAIN lines : lines[i].whole => i <= n
  BY <1>2, EndedIs DEF Files
<1> DEFINE texts == [i \in DOMAIN whole |-> whole[i].line]
<1> HIDE DEF lines, whole
<1>4. /\ whole \in Seq(AnyEntry) /\ Len(whole) = n /\ DOMAIN whole = 1..n
      /\ \A i \in 1..n : whole[i] = lines[i] /\ i \in DOMAIN lines
  BY <1>2, <1>3, Prefix
<1>5. texts \in Seq(AnyLine) /\ Len(texts) = n
  <2>1. \A i \in 1..n : whole[i].line \in AnyLine
    BY <1>4, EntryAt
  <2> QED
    BY <1>4, <2>1
<1>6. Kept(lines) = ValidLines(texts)
  BY DEF Kept, whole
<1>7. PICK k \in 0..n :
        /\ kept = SubSeq(lines, 1, k)
        /\ (\A i \in 1..n : Verifies(lines[i].line)) => k = n
  <2>1. CASE checkpoint
    BY <1>3, <2>1
  <2>2. CASE ~checkpoint
    <3>1. Kept(lines) \in 0..n
      BY <1>5, <1>6, ValidLinesCount
    <3>2. ASSUME \A i \in 1..n : Verifies(lines[i].line) PROVE Kept(lines) = n
      <4>1. \A i \in DOMAIN texts : Verifies(texts[i])
        BY <1>4, <3>2
      <4> HIDE DEF texts
      <4> QED
        BY <1>5, <1>6, <4>1, ValidLinesCount
    <3> QED
      BY <2>2, <3>1, <3>2
  <2> QED
    BY <2>1, <2>2
<1>8. k \in 0..Len(lines)
  BY <1>2, <1>3, <1>7
<1>9. time \in Nat
  BY <1>1, <1>2 DEF Typed
<1>10. kept \in Seq(AnyEntry)
  BY <1>2, <1>7, <1>8, Prefix
<1>11. /\ active' \in AnyFile /\ active'.lines = kept /\ active'.present /\ active'.mtime = time
  <2> HIDE DEF time, kept
  <2> QED
    BY <1>1, <1>9, <1>10, FileIs
<1>12. Lines(active') \in Seq(AnyLine)
  <2>1. active'.lines \in Seq(AnyEntry)
    BY <1>10, <1>11
  <2>2. \A i \in DOMAIN active'.lines : active'.lines[i].line \in AnyLine
    BY <2>1, EntryAt
  <2>3. DOMAIN active'.lines = 1..Len(active'.lines) /\ Len(active'.lines) \in Nat
    BY <2>1
  <2> QED
    BY <2>2, <2>3 DEF Lines
<1>13. sequence' \in Nat
  <2>1. NextSequence(Lines(active')) \in Nat
    BY <1>12, NextSequenceIs
  <2> QED
    BY <1>1, <2>1 DEF Typed
<1>14. time = clock' \/ (active.present /\ time = active.mtime)
  OBVIOUS
<1>15. \A i \in 1..k : lines[i].whole
  BY <1>3, <1>7
<1>16. (\A i \in DOMAIN lines : lines[i].whole => Verifies(lines[i].line))
         => \A i \in DOMAIN lines : lines[i].whole => i <= k
  <2> SUFFICES ASSUME \A i \in DOMAIN lines : lines[i].whole => Verifies(lines[i].line)
               PROVE  \A i \in DOMAIN lines : lines[i].whole => i <= k
    OBVIOUS
  <2>1. \A i \in 1..n : Verifies(lines[i].line)
    BY <1>3, <1>4
  <2> QED
    BY <1>3, <1>7, <2>1
<1>17. rotation' \in {rotation, 0}
  BY <1>1
<1>18. \E n_1 \in 0..Len(lines) :
              /\ active'.lines = SubSeq(lines, 1, n_1)
              /\ \A i \in 1..n_1 : lines[i].whole
              /\ (\A i \in DOMAIN lines : lines[i].whole => Verifies(lines[i].line))
                   => \A i \in DOMAIN lines : lines[i].whole => i <= n_1
  BY <1>7, <1>8, <1>11, <1>15, <1>16
<1> HIDE DEF time, kept
<1> QED
  BY <1>1, <1>11, <1>13, <1>14, <1>17, <1>18 DEF lines

-----------------------------------------------------------------------------
(* The types.                                                               *)
LEMMA IdsAre ==
  ASSUME NEW f
  PROVE  /\ Ids(f) \subseteq LineIds(f) /\ (Archived(f) => Ids(f) = LineIds(f))
         /\ (InOrder(f) => LineIds(f) \subseteq 1..written /\ Ids(f) \subseteq finished)
         /\ (f.lines = <<>> => LineIds(f) = {} /\ Ids(f) = {})
BY DEF Ids, LineIds, Archived, InOrder, Sound

LEMMA NoneIs ==
  /\ LineIds(None) = {} /\ Ids(None) = {} /\ Archived(None)
  /\ \A last, done : Sound(None, last, done)
  /\ DOMAIN None.lines = {}
<1>1. None.lines = <<>> /\ DOMAIN None.lines = {}
  BY DEF None
<1> QED
  BY <1>1 DEF LineIds, Ids, Sound, Archived

LEMMA Bounds ==
  /\ Records = 1..Len(Payload) /\ Len(Payload) \in Nat
  /\ FirstIndex \in Nat /\ MaxTime \in Nat /\ MaxRotations \in Nat
BY Options

LEMMA Limits ==
  ASSUME NEW q \in AnyQuery
  PROVE  q.limit \in Nat
<1>1. CASE q = NoQuery.query
  BY <1>1 DEF NoQuery
<1>2. CASE \E p \in Queries : q = Limited(p)
  <2>1. PICK p \in Queries : q = Limited(p)
    BY <1>2
  <2>2. p \in [via : {"http", "grpc"}, seq_from : Bound, seq_to : Bound, time_from : Bound,
               time_to : Bound, source_id : STRING, agent_id : STRING, limit : Bound,
               include_archive : BOOLEAN]
    BY QueryAssumption
  <2> QED
    BY <2>1, <2>2, Options DEF Limited, Bound
<1> QED
  BY <1>1, <1>2 DEF AnyQuery

LEMMA TypedInit ==
  ASSUME Init
  PROVE  Typed /\ ReaderTyped
<1>1. /\ config \in Configs /\ active = File(<<>>, 0)
      /\ plain = [n \in Name |-> None] /\ gz = [n \in Name |-> None]
      /\ engine = [at |-> "idle", name |-> <<0, 0>>, aged |-> {}, excess |-> {}]
      /\ sequence = 0 /\ rotation = FirstIndex /\ clock = 0
      /\ written = 0 /\ finished = {} /\ expired = {} /\ cut = {} /\ crashes = 0 /\ rotations = 0
      /\ reader = NoQuery /\ corrupted = 0 /\ owed = {} /\ broken = 0
  BY DEF Init, ArchiveInit
<1>2. active \in AnyFile
  <2>1. <<>> \in Seq(AnyEntry) /\ 0 \in Nat
    OBVIOUS
  <2> QED
    BY <1>1, <2>1, FileIs
<1>3. <<0, 0>> \in Name
  BY Options DEF Name
<1>4. Typed
  BY <1>1, <1>2, <1>3, FileIs, Options DEF Typed, Working, Failed
<1>5. NoQuery.query \in AnyQuery
  BY DEF AnyQuery
<1>6. reader \in [at : {"idle", "archive", "active", "read", "done"}, segments : Seq(AnySegment),
                  records : Seq(AnyHit), query : AnyQuery]
  <2> DEFINE q == NoQuery.query
  <2>1. NoQuery = [at |-> "idle", segments |-> <<>>, records |-> <<>>, query |-> q]
    BY DEF NoQuery
  <2>2. q \in AnyQuery
    BY <1>5
  <2>3. <<>> \in Seq(AnySegment) /\ <<>> \in Seq(AnyHit)
    OBVIOUS
  <2> HIDE DEF q
  <2> QED
    BY <1>1, <2>1, <2>2, <2>3
<1> QED
  BY <1>1, <1>4, <1>6 DEF ReaderTyped

LEMMA TypedWrite ==
  ASSUME Typed, Files, WriteBegins \/ WriteEnds
  PROVE  Typed'
<1>1. CASE WriteBegins
  <2> DEFINE id == written + 1
  <2>1. id \in Records /\ id <= Len(Payload) /\ id \in Nat
    <3>1. id \in Records
      BY <1>1 DEF WriteBegins
    <3>2. written \in Nat
      BY Bounds DEF Typed
    <3> QED
      BY <3>1, <3>2, Bounds
  <2>2. PICK piece \in Fragments(Entry(id).line) :
          active' = File(Append(active.lines, [Entry(id) EXCEPT !.line = piece, !.whole = FALSE]), clock)
    BY <1>1 DEF WriteBegins
  <2> DEFINE e == [Entry(id) EXCEPT !.line = piece, !.whole = FALSE]
  <2>3. e \in AnyEntry
    BY <2>1, EntryIs
  <2>4. Append(active.lines, e) \in Seq(AnyEntry) /\ clock \in Nat
    <3> HIDE DEF e
    <3> QED
      BY <2>3 DEF Typed, AnyFile
  <2>5. active' \in AnyFile
    BY <2>2, <2>4, FileIs
  <2>6. /\ engine' = [engine EXCEPT !.at = "writing"] /\ engine.at = "idle" /\ written' = id
        /\ UNCHANGED <<config, plain, gz, sequence, rotation, clock, finished, expired, cut, crashes,
                       rotations>>
    BY <1>1 DEF WriteBegins
  <2>7. written' \in 0..Len(Payload) /\ finished' \subseteq 1..written'
    BY <2>1, <2>6, Bounds DEF Typed
  <2> HIDE DEF id
  <2> QED
    BY <2>5, <2>6, <2>7 DEF Typed, Working, Failed
<1>2. CASE WriteEnds
  <2>1. engine.at = "writing" /\ written \in 1..Len(Payload)
    <3>1. engine.at = "writing"
      BY <1>2 DEF WriteEnds
    <3>2. /\ active.lines # <<>> /\ active.lines[Len(active.lines)].id = written
          /\ active.lines \in Seq(AnyEntry)
      BY <3>1 DEF Files, Typed, AnyFile
    <3>3. Len(active.lines) \in DOMAIN active.lines
      BY <3>2
    <3> QED
      BY <3>1, <3>2, <3>3 DEF Files, InOrder, Sound, Typed
  <2>2. Entry(written) \in AnyEntry
    BY <2>1, EntryIs, Options
  <2>3. Append(SubSeq(active.lines, 1, Len(active.lines) - 1), Entry(written)) \in Seq(AnyEntry)
    <3>1. active.lines \in Seq(AnyEntry)
      BY DEF Typed, AnyFile
    <3>2. SubSeq(active.lines, 1, Len(active.lines) - 1) \in Seq(AnyEntry)
      BY <3>1
    <3> QED
      BY <2>2, <3>2
  <2>4. active' \in AnyFile
    <3>1. clock \in Nat
      BY DEF Typed
    <3> QED
      BY <1>2, <2>3, <3>1, FileIs DEF WriteEnds
  <2> QED
    BY <1>2, <2>1, <2>4 DEF WriteEnds, Typed, Working, Failed
<1> QED
  BY <1>1, <1>2

(* The removals of a cleanup, and the steps of a rotation that touch no     *)
(* file.                                                                    *)
Removal == \E n \in Name : Remove(n)
Quiet == CleanupLists \/ CleanupEnds \/ RotationFails

LEMMA RemoveEffect ==
  ASSUME Typed, NEW d \in Name, Remove(d)
  PROVE  /\ engine.at = "expire" /\ engine'.at = "expire" /\ engine'.name = engine.name
         /\ engine'.aged = engine.aged \ {d} /\ engine'.excess = engine.excess \ {d}
         /\ engine' = [engine EXCEPT !.aged = engine.aged \ {d}, !.excess = engine.excess \ {d}]
         /\ d \in Due /\ Goes(d)
         /\ plain' \in [Name -> AnyFile] /\ gz' \in [Name -> AnyFile]
         /\ \A n \in Name : n # d => plain'[n] = plain[n] /\ gz'[n] = gz[n]
         /\ plain'[d] = None /\ gz'[d] = IF plain[d].present THEN gz[d] ELSE None
         /\ expired' = expired \cup Ids(plain[d]) \cup Ids(gz[d])
         /\ UNCHANGED <<config, active, sequence, rotation, clock, written, finished, cut, crashes,
                        rotations>>
<1>1. /\ engine.at = "expire"
      /\ engine' = [engine EXCEPT !.aged = engine.aged \ {d}, !.excess = engine.excess \ {d}]
      /\ plain' = [plain EXCEPT ![d] = None]
      /\ gz' = [gz EXCEPT ![d] = IF plain[d].present THEN gz[d] ELSE None]
      /\ expired' = expired \cup Ids(plain[d]) \cup Ids(gz[d])
      /\ UNCHANGED <<config, active, sequence, rotation, clock, written, finished, cut, crashes,
                     rotations>>
  BY DEF Remove, At, Zipped, Typed
<1>2. d \in Due /\ Goes(d)
  BY DEF Remove, Goes, Due
<1>3. /\ plain \in [Name -> AnyFile] /\ gz \in [Name -> AnyFile]
      /\ engine \in [at : {"idle", "writing", "gzip", "remove", "cleanup", "expire", "reopen",
                           "failed", "down"},
                     name : Name, aged : SUBSET Name, excess : SUBSET Name]
  BY DEF Typed
<1>4. plain' \in [Name -> AnyFile] /\ gz' \in [Name -> AnyFile]
  BY <1>1, <1>3, FileIs
<1>5. /\ \A n \in Name : n # d => plain'[n] = plain[n] /\ gz'[n] = gz[n]
      /\ plain'[d] = None /\ gz'[d] = IF plain[d].present THEN gz[d] ELSE None
  BY <1>1, <1>3
<1>6. /\ engine'.at = "expire" /\ engine'.name = engine.name
      /\ engine'.aged = engine.aged \ {d} /\ engine'.excess = engine.excess \ {d}
  BY <1>1, <1>3
<1> QED
  BY <1>1, <1>2, <1>4, <1>5, <1>6

LEMMA QuietEffect ==
  ASSUME Typed, Quiet
  PROVE  /\ engine.at \in {"gzip", "remove", "cleanup", "expire"}
         /\ engine'.at \in {"expire", "reopen", "failed"} /\ engine'.name = engine.name
         /\ engine'.aged \subseteq Name /\ engine'.excess \subseteq Name
         /\ engine' = [engine EXCEPT !.at = engine'.at, !.aged = engine'.aged, !.excess = engine'.excess]
         /\ \/ engine'.at = "failed" /\ rotation' = rotation + 1 /\ rotations' = rotations + 1
               /\ rotations < MaxRotations
            \/ engine'.at # "failed" /\ UNCHANGED <<rotation, rotations>>
         /\ UNCHANGED <<config, active, plain, gz, sequence, clock, written, finished, expired, cut,
                        crashes>>
<1>1. engine \in [at : {"idle", "writing", "gzip", "remove", "cleanup", "expire", "reopen",
                       "failed", "down"},
                 name : Name, aged : SUBSET Name, excess : SUBSET Name]
  BY DEF Typed
<1>2. CASE CleanupLists
  <2>1. Aged \subseteq Name /\ Excess(Named \ Aged) \subseteq Name
    BY DEF Aged, Excess, Named
  <2> DEFINE a == Aged
             e == Excess(Named \ Aged)
  <2>2. /\ engine.at = "cleanup"
        /\ engine' = [engine EXCEPT !.at = "expire", !.aged = a, !.excess = e]
        /\ UNCHANGED <<config, active, plain, gz, sequence, rotation, rotations, clock, written, finished,
                       expired, cut, crashes>>
    BY <1>2 DEF CleanupLists, At, diskVars
  <2>3. a \subseteq Name /\ e \subseteq Name
    BY <2>1
  <2> HIDE DEF a, e
  <2> QED
    BY <1>1, <2>2, <2>3
<1>3. CASE CleanupEnds
  <2>1. /\ engine.at = "expire" /\ engine' = [engine EXCEPT !.at = "reopen"]
        /\ UNCHANGED <<config, active, plain, gz, sequence, rotation, rotations, clock, written, finished,
                       expired, cut, crashes>>
    BY <1>3 DEF CleanupEnds, At, Go, diskVars
  <2> QED
    BY <1>1, <2>1
<1>4. CASE RotationFails
  <2>1. /\ engine.at \in {"gzip", "remove", "cleanup", "expire"} /\ rotations < MaxRotations
        /\ engine' = [engine EXCEPT !.at = "failed", !.aged = {}, !.excess = {}]
        /\ rotation' = rotation + 1 /\ rotations' = rotations + 1
        /\ UNCHANGED <<config, active, plain, gz, sequence, clock, written, finished, expired, cut,
                       crashes>>
    BY <1>4 DEF RotationFails, diskVars
  <2> QED
    BY <1>1, <2>1
<1> QED
  BY <1>2, <1>3, <1>4 DEF Quiet

LEMMA TypedRotate ==
  ASSUME Typed, Files, RotateRename \/ GzipRename \/ GzipRemove \/ Removal \/ Quiet \/ Reopen
  PROVE  Typed'
<1>1. CASE RotateRename
  <2>1. Fresh \in Name
    BY <1>1, NameIs DEF RotateRename
  <2>2. plain' \in [Name -> AnyFile] /\ active' \in AnyFile
    BY <1>1, FileIs DEF RotateRename, Typed
  <2>3. engine' \in [at : {"idle", "writing", "gzip", "remove", "cleanup", "expire", "reopen",
                           "failed", "down"},
                     name : Name, aged : SUBSET Name, excess : SUBSET Name]
    BY <1>1, <2>1 DEF RotateRename, Fresh, Typed
  <2>4. /\ rotations' = rotations + 1 /\ rotations < MaxRotations
        /\ UNCHANGED <<config, gz, sequence, rotation, clock, written, finished, expired, cut, crashes>>
    BY <1>1 DEF RotateRename
  <2>5. /\ rotations' \in 0..MaxRotations /\ rotation <= FirstIndex + rotations' /\ rotation \in Nat
        /\ rotation + 1 <= FirstIndex + rotations'
    BY <2>4, Bounds DEF Typed
  <2>6. /\ config' \in Configs /\ gz' \in [Name -> AnyFile] /\ sequence' \in Nat /\ clock' \in 0..MaxTime
        /\ crashes' \in Nat /\ written' \in 0..Len(Payload)
        /\ finished' \subseteq 1..written' /\ expired' \subseteq finished' /\ cut' \subseteq finished'
    BY <2>4 DEF Typed
  <2> QED
    BY <2>2, <2>3, <2>4, <2>5, <2>6 DEF Typed
<1>2. CASE GzipRename
  <2>1. gz' \in [Name -> AnyFile]
    <3>1. File(plain[engine.name].lines, clock) \in AnyFile
      <4>1. plain[engine.name] \in AnyFile /\ clock \in Nat
        BY DEF Typed
      <4> QED
        BY <4>1, FileIs DEF AnyFile
    <3> QED
      BY <1>2, <3>1 DEF GzipRename, Typed
  <2> QED
    BY <1>2, <2>1 DEF GzipRename, Typed, Working, Failed, At, Go
<1>3. CASE GzipRemove
  <2>1. plain' \in [Name -> AnyFile]
    BY <1>3, FileIs DEF GzipRemove, Typed
  <2> QED
    BY <1>3, <2>1 DEF GzipRemove, Typed, Working, Failed, At, Go
<1>4. CASE Removal
  <2>1. PICK d \in Name : Remove(d)
    BY <1>4 DEF Removal
  <2>2. /\ engine.at = "expire" /\ engine'.at = "expire"
        /\ engine' = [engine EXCEPT !.aged = engine.aged \ {d}, !.excess = engine.excess \ {d}]
        /\ plain' \in [Name -> AnyFile] /\ gz' \in [Name -> AnyFile]
        /\ expired' = expired \cup Ids(plain[d]) \cup Ids(gz[d])
        /\ UNCHANGED <<config, active, sequence, rotation, clock, written, finished, cut, crashes,
                       rotations>>
    BY <2>1, RemoveEffect
  <2>3. Ids(plain[d]) \cup Ids(gz[d]) \subseteq finished
    BY IdsAre DEF Files
  <2>4. expired' \subseteq finished
    BY <2>2, <2>3 DEF Typed
  <2> QED
    BY <2>2, <2>4 DEF Typed, Working, Failed
<1>6. CASE Quiet
  <2>1. /\ engine.at \in {"gzip", "remove", "cleanup", "expire"}
        /\ engine'.at \in {"expire", "reopen", "failed"}
        /\ engine'.aged \subseteq Name /\ engine'.excess \subseteq Name
        /\ engine' = [engine EXCEPT !.at = engine'.at, !.aged = engine'.aged, !.excess = engine'.excess]
        /\ \/ engine'.at = "failed" /\ rotation' = rotation + 1 /\ rotations' = rotations + 1
              /\ rotations < MaxRotations
           \/ engine'.at # "failed" /\ UNCHANGED <<rotation, rotations>>
        /\ UNCHANGED <<config, active, plain, gz, sequence, clock, written, finished, expired, cut,
                       crashes>>
    BY <1>6, QuietEffect
  <2> DEFINE p == engine'.at
             a == engine'.aged
             e == engine'.excess
  <2>2. /\ p \in {"expire", "reopen", "failed"} /\ a \subseteq Name /\ e \subseteq Name
        /\ engine' = [engine EXCEPT !.at = p, !.aged = a, !.excess = e]
    BY <2>1
  <2> HIDE DEF p, a, e
  <2>3. engine' \in [at : {"idle", "writing", "gzip", "remove", "cleanup", "expire", "reopen",
                           "failed", "down"},
                     name : Name, aged : SUBSET Name, excess : SUBSET Name]
    BY <2>2 DEF Typed
  <2>4. /\ rotation \in Nat /\ rotations \in 0..MaxRotations /\ rotation + 1 <= FirstIndex + rotations
        /\ rotation <= FirstIndex + rotations
    BY <2>1 DEF Typed, Working
  <2>5. /\ rotation' \in Nat /\ rotations' \in 0..MaxRotations
        /\ rotation' + 1 <= FirstIndex + rotations' /\ rotation' <= FirstIndex + rotations'
    BY <2>1, <2>4, Bounds
  <2> QED
    BY <2>1, <2>3, <2>5 DEF Typed, Working, Failed
<1>5. CASE Reopen
  <2>1. active' \in AnyFile
    <3>1. <<>> \in Seq(AnyEntry) /\ clock \in Nat
      BY DEF Typed
    <3> QED
      BY <1>5, <3>1, FileIs DEF Reopen
  <2> QED
    BY <1>5, <2>1 DEF Reopen, Typed, Working, Failed, At, Go
<1> QED
  BY <1>1, <1>2, <1>3, <1>4, <1>5, <1>6

LEMMA TypedRestart ==
  ASSUME Typed, Files, Crash \/ Tick \/ \E checkpoint \in BOOLEAN : Boot(checkpoint)
  PROVE  Typed'
<1>1. CASE Crash
  <2>1. /\ engine' = [engine EXCEPT !.at = "down", !.aged = {}, !.excess = {}] /\ crashes' = crashes + 1
        /\ UNCHANGED <<config, active, plain, gz, sequence, rotation, clock, written, finished, expired,
                       cut, rotations>>
    BY <1>1 DEF Crash, diskVars
  <2>2. /\ engine' \in [at : {"idle", "writing", "gzip", "remove", "cleanup", "expire", "reopen",
                              "failed", "down"},
                        name : Name, aged : SUBSET Name, excess : SUBSET Name]
        /\ engine'.at = "down"
    <3>1. engine \in [at : {"idle", "writing", "gzip", "remove", "cleanup", "expire", "reopen",
                           "failed", "down"},
                     name : Name, aged : SUBSET Name, excess : SUBSET Name]
      BY DEF Typed
    <3> DEFINE none == {}
    <3>2. none \in SUBSET Name /\ engine' = [engine EXCEPT !.at = "down", !.aged = none, !.excess = none]
      BY <2>1
    <3> HIDE DEF none
    <3> QED
      BY ONLY <3>1, <3>2
  <2>3. crashes' \in Nat
    BY <2>1 DEF Typed
  <2> QED
    BY <2>1, <2>2, <2>3 DEF Typed, Working, Failed
<1>2. CASE Tick
  BY <1>2, Options DEF Tick, Typed, Working, Failed, At, diskVars
<1>3. CASE \E checkpoint \in BOOLEAN : Boot(checkpoint)
  <2>1. PICK checkpoint \in BOOLEAN : Boot(checkpoint)
    BY <1>3
  <2>2. /\ engine.at = "down" /\ engine' = [engine EXCEPT !.at = "idle"]
        /\ clock < MaxTime /\ clock' = clock + 1
        /\ active' \in AnyFile /\ sequence' \in Nat /\ rotation' \in {rotation, 0}
        /\ cut' = cut \cup (Ids(active) \ Ids(active'))
        /\ UNCHANGED <<config, plain, gz, written, finished, expired, crashes, rotations>>
    BY <2>1, BootEffect
  <2>3. Ids(active) \subseteq finished
    BY IdsAre DEF Files
  <2>4. cut' \subseteq finished
    BY <2>2, <2>3 DEF Typed
  <2>5. clock' \in 0..MaxTime /\ rotation' \in Nat /\ rotation' <= FirstIndex + rotations
    BY <2>2, Bounds DEF Typed
  <2> QED
    BY <2>2, <2>4, <2>5 DEF Typed, Working, Failed
<1> QED
  BY <1>1, <1>2, <1>3

(* The steps of the engine, by what they do to the files.                   *)
LEMMA EngineSteps ==
  ASSUME EngineStep
  PROVE  \/ WriteBegins \/ WriteEnds \/ RotateRename \/ GzipRename \/ GzipRemove \/ Removal \/ Quiet
         \/ Reopen \/ Crash \/ Tick \/ \E checkpoint \in BOOLEAN : Boot(checkpoint)
BY DEF EngineStep, Removal, Quiet

LEMMA TypedEngine ==
  ASSUME Typed, Files, EngineStep
  PROVE  Typed'
BY EngineSteps, TypedWrite, TypedRotate, TypedRestart

-----------------------------------------------------------------------------
(* The files stay sound.                                                    *)
LEMMA SoundGrows ==
  ASSUME NEW f, NEW v \in Nat, NEW w \in Nat, NEW d, NEW e, Sound(f, v, d), v <= w, d \subseteq e
  PROVE  Sound(f, w, e)
BY DEF Sound

LEMMA SoundPrefix ==
  ASSUME NEW f \in AnyFile, NEW w \in Nat, NEW d, Sound(f, w, d),
         NEW n \in 0..Len(f.lines), NEW g, g.present, g.lines = SubSeq(f.lines, 1, n)
  PROVE  /\ Sound(g, w, d) /\ LineIds(g) \subseteq LineIds(f) /\ Ids(g) \subseteq Ids(f)
         /\ Archived(f) => Archived(g)
<1>1. /\ DOMAIN g.lines = 1..n
      /\ \A i \in 1..n : g.lines[i] = f.lines[i] /\ i \in DOMAIN f.lines
  BY Prefix DEF AnyFile
<1> QED
  BY <1>1 DEF Sound, LineIds, Ids, Archived

LEMMA AppendIs ==
  ASSUME NEW lines \in Seq(AnyEntry), NEW e \in AnyEntry
  PROVE  /\ Append(lines, e) \in Seq(AnyEntry)
         /\ DOMAIN Append(lines, e) = 1..(Len(lines) + 1) /\ Len(Append(lines, e)) = Len(lines) + 1
         /\ Append(lines, e)[Len(lines) + 1] = e
         /\ DOMAIN lines = 1..Len(lines) /\ Len(lines) \in Nat
         /\ \A i \in 1..Len(lines) : Append(lines, e)[i] = lines[i]
OBVIOUS

LEMMA AppendIds ==
  ASSUME NEW f \in AnyFile, NEW e \in AnyEntry, NEW g, g.lines = Append(f.lines, e)
  PROVE  /\ LineIds(g) = LineIds(f) \cup {e.id}
         /\ e.whole => Ids(g) = Ids(f) \cup {e.id}
         /\ ~e.whole => Ids(g) = Ids(f)
<1> DEFINE n == Len(f.lines) + 1
<1>1. /\ DOMAIN g.lines = 1..n /\ g.lines[n] = e /\ n \in Nat \ {0}
      /\ DOMAIN f.lines = 1..(n - 1)
      /\ \A i \in 1..(n - 1) : g.lines[i] = f.lines[i]
  <2>1. f.lines \in Seq(AnyEntry)
    BY DEF AnyFile
  <2> QED
    BY <2>1, AppendIs
<1> HIDE DEF n
<1>2. \A i \in 1..n : i = n \/ i \in 1..(n - 1)
  BY <1>1
<1>3. LineIds(g) = LineIds(f) \cup {e.id}
  <2>1. LineIds(g) \subseteq LineIds(f) \cup {e.id}
    BY <1>1, <1>2 DEF LineIds
  <2>2. LineIds(f) \cup {e.id} \subseteq LineIds(g)
    BY <1>1 DEF LineIds
  <2> QED
    BY <2>1, <2>2
<1>4. /\ e.whole => Ids(g) = Ids(f) \cup {e.id}
      /\ ~e.whole => Ids(g) = Ids(f)
  <2>1. \A x \in Ids(g) : x \in Ids(f) \/ (x = e.id /\ e.whole)
    BY <1>1, <1>2 DEF Ids
  <2>2. Ids(f) \subseteq Ids(g)
    BY <1>1 DEF Ids
  <2>3. e.whole => e.id \in Ids(g)
    BY <1>1 DEF Ids
  <2> QED
    BY <2>1, <2>2, <2>3
<1> QED
  BY <1>3, <1>4

LEMMA SoundAppend ==
  ASSUME NEW f \in AnyFile, NEW v \in Nat, NEW w \in Nat, NEW d, NEW c, Sound(f, v, d),
         v <= w, d \subseteq c,
         NEW e \in AnyEntry, e.id \in 1..w, \A i \in DOMAIN f.lines : f.lines[i].id < e.id,
         e.whole => e.id \in c,
         NEW g, g.present, g.lines = Append(f.lines, e)
  PROVE  Sound(g, w, c)
<1> DEFINE n == Len(f.lines) + 1
<1>1. /\ DOMAIN g.lines = 1..n /\ g.lines[n] = e /\ n \in Nat \ {0}
      /\ DOMAIN f.lines = 1..(n - 1)
      /\ \A i \in 1..(n - 1) : g.lines[i] = f.lines[i]
  <2>1. f.lines \in Seq(AnyEntry)
    BY DEF AnyFile
  <2> QED
    BY <2>1, AppendIs
<1> HIDE DEF n
<1>2. \A i \in 1..n : i = n \/ i \in 1..(n - 1)
  BY <1>1
<1>3. Sound(g, w, c)
  <2>1. \A i, j \in DOMAIN g.lines : i < j => g.lines[i].id < g.lines[j].id
    <3> SUFFICES ASSUME NEW i \in 1..n, NEW j \in 1..n, i < j
                 PROVE  g.lines[i].id < g.lines[j].id
      BY <1>1
    <3>1. i \in 1..(n - 1)
      BY <1>1
    <3>2. CASE j = n
      BY <1>1, <3>1, <3>2
    <3>3. CASE j # n
      <4>1. j \in 1..(n - 1)
        BY <1>2, <3>3
      <4> QED
        BY <1>1, <3>1, <4>1 DEF Sound
    <3> QED
      BY <3>2, <3>3
  <2>2. \A i \in 1..n : g.lines[i].id \in 1..w /\ (g.lines[i].whole => g.lines[i].id \in c)
    BY <1>1, <1>2 DEF Sound
  <2> QED
    BY <1>1, <2>1, <2>2 DEF Sound
<1> QED
  BY <1>3

(* What the first half of a write does.                                     *)
LEMMA WriteBeginsEffect ==
  ASSUME Typed, Files, WriteBegins
  PROVE  /\ engine.at = "idle" /\ engine' = [engine EXCEPT !.at = "writing"]
         /\ written' = written + 1
         /\ \E e \in AnyEntry : e.id = written + 1 /\ ~e.whole
                                 /\ active'.lines = Append(active.lines, e)
         /\ active'.present /\ active'.mtime = clock
         /\ Sound(active', written', finished')
         /\ LineIds(active') = LineIds(active) \cup {written'} /\ Ids(active') = Ids(active)
         /\ UNCHANGED <<config, plain, gz, sequence, rotation, clock, finished, expired, cut, crashes,
                        rotations>>
<1> DEFINE id == written + 1
<1>1. /\ engine.at = "idle" /\ engine' = [engine EXCEPT !.at = "writing"] /\ written' = id
      /\ id \in Records
      /\ UNCHANGED <<config, plain, gz, sequence, rotation, clock, finished, expired, cut, crashes,
                     rotations>>
  BY DEF WriteBegins
<1>2. PICK piece \in Fragments(Entry(id).line) :
        active' = File(Append(active.lines, [Entry(id) EXCEPT !.line = piece, !.whole = FALSE]), clock)
  BY DEF WriteBegins
<1> DEFINE e == [Entry(id) EXCEPT !.line = piece, !.whole = FALSE]
<1>3. e \in AnyEntry /\ e.id = id /\ ~e.whole
  BY <1>1, EntryIs
<1> HIDE DEF e
<1>4. active \in AnyFile /\ active.lines \in Seq(AnyEntry) /\ clock \in Nat /\ written \in Nat
  BY DEF Typed, AnyFile
<1>5. /\ active'.lines = Append(active.lines, e) /\ active'.present /\ active'.mtime = clock
  <2>1. Append(active.lines, e) \in Seq(AnyEntry)
    BY <1>3, <1>4
  <2>2. active' = File(Append(active.lines, e), clock)
    BY <1>2 DEF e
  <2> QED
    BY <1>4, <2>1, <2>2, FileIs
<1>6. Sound(active, written, finished)
  BY DEF Files, InOrder
<1>7. \A i \in DOMAIN active.lines : active.lines[i].id < e.id
  BY <1>3, <1>4, <1>6 DEF Sound
<1>8. /\ Sound(active', id, finished) /\ LineIds(active') = LineIds(active) \cup {id}
      /\ Ids(active') = Ids(active)
  <2>1. written <= id /\ e.id \in 1..id /\ id \in Nat /\ finished \subseteq finished
        /\ (e.whole => e.id \in finished)
    BY <1>3, <1>4
  <2>2. /\ Sound(active', id, finished) /\ LineIds(active') = LineIds(active) \cup {e.id}
        /\ ~e.whole => Ids(active') = Ids(active)
    <3> HIDE DEF id
    <3> QED
      BY <1>3, <1>4, <1>5, <1>6, <1>7, <2>1, SoundAppend, AppendIds
  <2> QED
    BY <1>3, <2>2
<1> QED
  BY <1>1, <1>3, <1>5, <1>8

(* And the second half.                                                     *)
LEMMA WriteEndsEffect ==
  ASSUME Typed, Files, WriteEnds
  PROVE  /\ engine.at = "writing" /\ engine' = [engine EXCEPT !.at = "idle"]
         /\ sequence' = sequence + 1 /\ finished' = finished \cup {written} /\ written \in 1..Len(Payload)
         /\ \E n \in 0..Len(active.lines) :
              /\ n + 1 = Len(active.lines)
              /\ active'.lines = Append(SubSeq(active.lines, 1, n), Entry(written))
         /\ active'.present /\ active'.mtime = clock
         /\ Sound(active', written, finished')
         /\ LineIds(active') = LineIds(active) /\ Ids(active') = Ids(active) \cup {written}
         /\ \A i \in DOMAIN active'.lines : active'.lines[i].whole
         /\ UNCHANGED <<config, plain, gz, rotation, clock, written, expired, cut, crashes, rotations>>
<1> DEFINE n == Len(active.lines) - 1
           head == SubSeq(active.lines, 1, n)
           e == Entry(written)
           front == File(head, clock)
<1>1. /\ engine.at = "writing" /\ engine' = [engine EXCEPT !.at = "idle"]
      /\ active' = File(Append(head, e), clock)
      /\ sequence' = sequence + 1 /\ finished' = finished \cup {written}
      /\ UNCHANGED <<config, plain, gz, rotation, clock, written, expired, cut, crashes, rotations>>
  BY DEF WriteEnds
<1>2. /\ active \in AnyFile /\ active.lines \in Seq(AnyEntry) /\ clock \in Nat /\ written \in 0..Len(Payload)
      /\ Len(Payload) \in Nat
  BY Bounds DEF Typed, AnyFile
<1>3. /\ active.lines # <<>> /\ ~active.lines[n + 1].whole /\ active.lines[n + 1].id = written
      /\ Sound(active, written, finished)
      /\ \A i \in DOMAIN active.lines : ~active.lines[i].whole => i = n + 1
  BY <1>1, <1>2 DEF Files, InOrder
<1>4. n \in 0..Len(active.lines) /\ n + 1 = Len(active.lines) /\ DOMAIN active.lines = 1..(n + 1)
  BY <1>2, <1>3
<1>5. written \in 1..Len(Payload) /\ written \in Records
  BY <1>2, <1>3, <1>4, Bounds DEF Sound
<1>6. e \in AnyEntry /\ e.id = written /\ e.whole
  BY <1>5, EntryIs
<1> HIDE DEF e, n
<1>7. /\ head \in Seq(AnyEntry) /\ Len(head) = n /\ DOMAIN head = 1..n
      /\ \A i \in 1..n : head[i] = active.lines[i] /\ i \in DOMAIN active.lines
  BY <1>2, <1>4, Prefix
<1> HIDE DEF head
<1>8. front \in AnyFile /\ front.lines = head /\ front.present
  BY <1>2, <1>7, FileIs
<1>9. /\ active'.lines = Append(head, e) /\ active'.present /\ active'.mtime = clock
  <2>1. Append(head, e) \in Seq(AnyEntry)
    BY <1>6, <1>7
  <2> QED
    BY <1>1, <1>2, <2>1, FileIs
<1> HIDE DEF front
<1>10. Sound(front, written, finished)
  BY <1>2, <1>3, <1>4, <1>8, SoundPrefix DEF head
<1>11. \A i \in DOMAIN front.lines : front.lines[i].id < e.id
  <2> SUFFICES ASSUME NEW i \in 1..n PROVE head[i].id < written
    BY <1>6, <1>7, <1>8
  <2>1. i \in DOMAIN active.lines /\ n + 1 \in DOMAIN active.lines /\ i < n + 1
    BY <1>4
  <2> QED
    BY <1>3, <1>7, <2>1 DEF Sound
<1>12. /\ Sound(active', written, finished') /\ LineIds(active') = LineIds(front) \cup {written}
       /\ Ids(active') = Ids(front) \cup {written}
  <2>1. finished \subseteq finished' /\ written <= written /\ e.id \in 1..written /\ written \in Nat
        /\ (e.whole => e.id \in finished')
    BY <1>1, <1>5, <1>6
  <2>2. /\ Sound(active', written, finished') /\ LineIds(active') = LineIds(front) \cup {e.id}
        /\ e.whole => Ids(active') = Ids(front) \cup {e.id}
    <3>1. active'.lines = Append(front.lines, e)
      BY <1>8, <1>9
    <3> QED
      BY <1>6, <1>8, <1>9, <1>10, <1>11, <2>1, <3>1, SoundAppend, AppendIds
  <2> QED
    BY <1>6, <2>2
<1>13. LineIds(front) \cup {written} = LineIds(active)
  <2>1. LineIds(front) \cup {written} \subseteq LineIds(active)
    BY <1>3, <1>4, <1>7, <1>8 DEF LineIds
  <2>2. \A i \in 1..(n + 1) : i = n + 1 \/ i \in 1..n
    BY <1>4
  <2>3. LineIds(active) \subseteq LineIds(front) \cup {written}
    BY <1>3, <1>4, <1>7, <1>8, <2>2 DEF LineIds
  <2> QED
    BY <2>1, <2>3
<1>14. Ids(front) = Ids(active)
  <2>1. Ids(front) \subseteq Ids(active)
    BY <1>7, <1>8 DEF Ids
  <2>2. \A i \in DOMAIN active.lines : active.lines[i].whole => i \in 1..n
    BY <1>3, <1>4
  <2>3. Ids(active) \subseteq Ids(front)
    BY <1>7, <1>8, <2>2 DEF Ids
  <2> QED
    BY <2>1, <2>3
<1>15. \A i \in DOMAIN active'.lines : active'.lines[i].whole
  <2>1. /\ DOMAIN active'.lines = 1..(n + 1) /\ active'.lines[n + 1] = e
        /\ \A i \in 1..n : active'.lines[i] = head[i]
    BY <1>6, <1>7, <1>9, AppendIs
  <2>2. \A i \in 1..(n + 1) : i = n + 1 \/ i \in 1..n
    BY <1>4
  <2>3. \A i \in 1..n : head[i].whole
    <3> SUFFICES ASSUME NEW i \in 1..n PROVE active.lines[i].whole
      BY <1>7
    <3>1. i # n + 1 /\ i \in DOMAIN active.lines
      BY <1>4
    <3> QED
      BY <1>3, <3>1
  <2> QED
    BY <1>6, <2>1, <2>2, <2>3
<1> QED
  BY <1>1, <1>4, <1>5, <1>9, <1>12, <1>13, <1>14, <1>15 DEF head, e

(* The archive is sound: the part of Files about it.                        *)
LEMMA ArchiveFiles ==
  ASSUME Typed, Files, NEW n \in Name
  PROVE  /\ Sound(active, written, finished)
         /\ Sound(plain[n], written, finished) /\ Sound(gz[n], written, finished)
         /\ Archived(plain[n]) /\ Archived(gz[n])
         /\ ~plain[n].present => plain[n] = None
         /\ ~gz[n].present => gz[n] = None
         /\ active \in AnyFile /\ plain[n] \in AnyFile /\ gz[n] \in AnyFile
         /\ written \in Nat
BY DEF Typed, Files, InOrder, Sound

LEMMA FilesFrom ==
  ASSUME Sound(active', written', finished'),
         \A n \in Name : Sound(plain'[n], written', finished') /\ Sound(gz'[n], written', finished'),
         \A n \in Name : Archived(plain'[n]) /\ Archived(gz'[n]),
         \A i \in DOMAIN active'.lines : ~active'.lines[i].whole =>
           i = Len(active'.lines) /\ engine'.at \in {"writing", "down"},
         engine'.at \in {"idle", "writing"} => active'.present,
         engine'.at = "writing" =>
           /\ active'.lines # <<>> /\ ~active'.lines[Len(active'.lines)].whole
           /\ active'.lines[Len(active'.lines)].id = written' /\ written' \notin finished',
         engine'.at \in {"gzip", "remove", "cleanup", "expire", "reopen"} =>
           engine'.name = <<clock', rotation'>>,
         engine'.at \in {"gzip", "remove", "cleanup", "expire", "reopen", "failed"} => active' = None
  PROVE  Files'
BY DEF Files, InOrder, Archived, Working, Failed, Fresh

LEMMA FilesInit ==
  ASSUME Init
  PROVE  Files
<1>1. /\ active = File(<<>>, 0) /\ plain = [n \in Name |-> None] /\ gz = [n \in Name |-> None]
      /\ engine.at = "idle"
  BY DEF Init, ArchiveInit
<1>2. active.lines = <<>> /\ active.present /\ DOMAIN active.lines = {}
  <2>1. <<>> \in Seq(AnyEntry) /\ 0 \in Nat
    OBVIOUS
  <2>2. active.lines = <<>> /\ active.present
    BY <1>1, <2>1, FileIs
  <2> QED
    BY <2>2
<1>3. InOrder(active)
  BY <1>2 DEF InOrder, Sound
<1>4. \A n \in Name : InOrder(plain[n]) /\ InOrder(gz[n]) /\ Archived(plain[n]) /\ Archived(gz[n])
  BY <1>1, NoneIs DEF InOrder
<1> QED
  BY <1>1, <1>2, <1>3, <1>4 DEF Files, Working, Failed

LEMMA FilesWriteBegins ==
  ASSUME Typed, Files, WriteBegins
  PROVE  Files'
<1>1. /\ engine'.at = "writing" /\ written' = written + 1 /\ active'.present
      /\ Sound(active', written', finished')
      /\ UNCHANGED <<plain, gz, finished>>
  BY WriteBeginsEffect DEF Typed
<1>2. PICK e \in AnyEntry : /\ e.id = written + 1 /\ ~e.whole
                            /\ active'.lines = Append(active.lines, e)
  BY WriteBeginsEffect
<1>3. engine.at = "idle" /\ active.lines \in Seq(AnyEntry) /\ written \in Nat /\ finished \subseteq 1..written
  BY WriteBeginsEffect DEF Typed, AnyFile
<1>4. /\ DOMAIN active'.lines = 1..(Len(active.lines) + 1) /\ Len(active'.lines) = Len(active.lines) + 1
      /\ active'.lines[Len(active.lines) + 1] = e
      /\ DOMAIN active.lines = 1..Len(active.lines) /\ Len(active.lines) \in Nat
      /\ \A i \in 1..Len(active.lines) : active'.lines[i] = active.lines[i]
  BY <1>2, <1>3, AppendIs
<1>5. \A n \in Name : Sound(plain'[n], written', finished') /\ Sound(gz'[n], written', finished')
  <2> SUFFICES ASSUME NEW n \in Name
               PROVE  Sound(plain[n], written', finished) /\ Sound(gz[n], written', finished)
    BY <1>1
  <2>1. Sound(plain[n], written, finished) /\ Sound(gz[n], written, finished)
    BY ArchiveFiles
  <2>2. written' \in Nat /\ written <= written' /\ finished \subseteq finished
    BY <1>1, <1>3
  <2> QED
    BY <1>3, <2>1, <2>2, SoundGrows
<1>6. \A n \in Name : Archived(plain'[n]) /\ Archived(gz'[n])
  BY <1>1, ArchiveFiles
<1>7. \A i \in DOMAIN active'.lines : ~active'.lines[i].whole => i = Len(active'.lines)
  <2>1. \A i \in 1..Len(active.lines) : active.lines[i].whole
    BY <1>3, <1>4 DEF Files
  <2> QED
    BY <1>4, <2>1
<1>8. /\ active'.lines # <<>> /\ ~active'.lines[Len(active'.lines)].whole
      /\ active'.lines[Len(active'.lines)].id = written' /\ written' \notin finished'
  BY <1>1, <1>2, <1>3, <1>4
<1> QED
  BY <1>1, <1>5, <1>6, <1>7, <1>8, FilesFrom

LEMMA FilesWriteEnds ==
  ASSUME Typed, Files, WriteEnds
  PROVE  Files'
<1>1. /\ engine'.at = "idle" /\ active'.present /\ Sound(active', written', finished')
      /\ finished \subseteq finished' /\ written' = written
      /\ \A i \in DOMAIN active'.lines : active'.lines[i].whole
      /\ UNCHANGED <<plain, gz>>
  BY WriteEndsEffect DEF Typed
<1>2. \A n \in Name : Sound(plain'[n], written', finished') /\ Sound(gz'[n], written', finished')
  <2> SUFFICES ASSUME NEW n \in Name
               PROVE  Sound(plain[n], written, finished') /\ Sound(gz[n], written, finished')
    BY <1>1
  <2>1. Sound(plain[n], written, finished) /\ Sound(gz[n], written, finished) /\ written \in Nat
    BY ArchiveFiles
  <2>2. written <= written
    BY <2>1
  <2> QED
    BY <1>1, <2>1, <2>2, SoundGrows
<1>3. \A n \in Name : Archived(plain'[n]) /\ Archived(gz'[n])
  BY <1>1, ArchiveFiles
<1> QED
  BY <1>1, <1>2, <1>3, FilesFrom

(* The name of a rotation is new.                                           *)
LEMMA FreshIsNew ==
  ASSUME Typed, Files, Ordered, engine.at \in {"idle", "writing"}, Fresh \in Name
  PROVE  plain[Fresh] = None /\ gz[Fresh] = None
<1>1. Fresh \notin Named
  BY BeforeOrders DEF Ordered, Used
<1> QED
  BY <1>1, ArchiveFiles DEF Named

LEMMA RotateEffect ==
  ASSUME Typed, Files, Ordered, RotateRename
  PROVE  /\ engine.at = "idle" /\ Fresh \in Name /\ engine'.name = Fresh
         /\ engine'.at \in {"gzip", "cleanup"}
         /\ active.present /\ Archived(active) /\ active' = None
         /\ plain[Fresh] = None /\ gz[Fresh] = None
         /\ plain' = [plain EXCEPT ![Fresh] = active] /\ plain'[Fresh] = active
         /\ \A n \in Name : n # Fresh => plain'[n] = plain[n]
         /\ UNCHANGED <<config, gz, sequence, rotation, clock, written, finished, expired, cut, crashes>>
<1>1. /\ engine.at = "idle" /\ engine'.at \in {"gzip", "cleanup"} /\ engine'.name = Fresh
      /\ active' = None /\ plain' = [plain EXCEPT ![Fresh] = active]
      /\ UNCHANGED <<config, gz, sequence, rotation, clock, written, finished, expired, cut, crashes>>
  BY DEF RotateRename, At, Fresh, Typed
<1>2. Fresh \in Name
  BY NameIs DEF RotateRename
<1>3. active.present /\ Archived(active)
  BY <1>1 DEF Files, Archived
<1>4. plain[Fresh] = None /\ gz[Fresh] = None
  BY <1>1, <1>2, FreshIsNew
<1>5. plain'[Fresh] = active /\ \A n \in Name : n # Fresh => plain'[n] = plain[n]
  BY <1>1, <1>2 DEF Typed
<1> QED
  BY <1>1, <1>2, <1>3, <1>4, <1>5

LEMMA FilesRotate ==
  ASSUME Typed, Files, Ordered, RotateRename
  PROVE  Files'
<1>1. /\ Fresh \in Name /\ engine'.name = Fresh /\ engine'.at \in {"gzip", "cleanup"}
      /\ Archived(active) /\ active' = None
      /\ plain'[Fresh] = active /\ \A n \in Name : n # Fresh => plain'[n] = plain[n]
      /\ UNCHANGED <<gz, rotation, clock, written, finished>>
  BY RotateEffect
<1>2. \A n \in Name : Sound(plain'[n], written', finished') /\ Sound(gz'[n], written', finished')
  BY <1>1, ArchiveFiles
<1>3. \A n \in Name : Archived(plain'[n]) /\ Archived(gz'[n])
  BY <1>1, ArchiveFiles
<1>4. Sound(active', written', finished') /\ DOMAIN active'.lines = {}
  BY <1>1, NoneIs
<1>5. engine'.name = <<clock', rotation'>>
  BY <1>1 DEF Fresh
<1> QED
  BY <1>1, <1>2, <1>3, <1>4, <1>5, FilesFrom

(* Compression copies the segment.                                          *)
LEMMA GzipEffect ==
  ASSUME Typed, Files, Twins, GzipRename
  PROVE  LET m == engine.name IN
         /\ engine.at = "gzip" /\ engine' = [engine EXCEPT !.at = "remove"]
         /\ m \in Name /\ gz[m] = None /\ plain[m].present
         /\ gz'[m].lines = plain[m].lines /\ gz'[m].present /\ gz'[m].mtime = clock
         /\ \A n \in Name : n # m => gz'[n] = gz[n]
         /\ UNCHANGED <<config, active, plain, sequence, rotation, clock, written, finished, expired, cut,
                        crashes, rotations>>
<1> DEFINE m == engine.name
<1>1. /\ engine.at = "gzip" /\ engine' = [engine EXCEPT !.at = "remove"]
      /\ gz' = [gz EXCEPT ![m] = File(plain[m].lines, clock)]
      /\ UNCHANGED <<config, active, plain, sequence, rotation, clock, written, finished, expired, cut,
                     crashes, rotations>>
  BY DEF GzipRename, At, Go
<1>2. m \in Name /\ clock \in Nat /\ gz \in [Name -> AnyFile]
  BY DEF Typed
<1>3. plain[m].present /\ gz[m] = None
  BY <1>1, <1>2, ArchiveFiles DEF Twins
<1>4. plain[m].lines \in Seq(AnyEntry)
  BY <1>2, ArchiveFiles DEF AnyFile
<1> HIDE DEF m
<1>5. gz'[m] = File(plain[m].lines, clock) /\ \A n \in Name : n # m => gz'[n] = gz[n]
  BY <1>1, <1>2
<1>6. gz'[m].lines = plain[m].lines /\ gz'[m].present /\ gz'[m].mtime = clock
  BY <1>2, <1>4, <1>5, FileIs
<1> QED
  BY <1>1, <1>2, <1>3, <1>5, <1>6 DEF m

LEMMA FilesGzip ==
  ASSUME Typed, Files, Twins, GzipRename
  PROVE  Files'
<1> DEFINE m == engine.name
<1>1. /\ engine.at = "gzip" /\ engine' = [engine EXCEPT !.at = "remove"]
      /\ m \in Name /\ plain[m].present
      /\ gz'[m].lines = plain[m].lines /\ gz'[m].present
      /\ \A n \in Name : n # m => gz'[n] = gz[n]
      /\ UNCHANGED <<active, plain, rotation, clock, written, finished>>
  BY GzipEffect
<1>2. Sound(gz'[m], written, finished) /\ Archived(gz'[m])
  <2>1. Sound(plain[m], written, finished) /\ Archived(plain[m])
    BY <1>1, ArchiveFiles
  <2> QED
    BY <1>1, <2>1 DEF Sound, Archived
<1>3. \A n \in Name : Sound(plain'[n], written', finished') /\ Sound(gz'[n], written', finished')
  BY <1>1, <1>2, ArchiveFiles
<1>4. \A n \in Name : Archived(plain'[n]) /\ Archived(gz'[n])
  BY <1>1, <1>2, ArchiveFiles
<1>5. active = None /\ engine.name = Fresh
  BY <1>1 DEF Files, Working
<1>6. engine'.at = "remove" /\ engine'.name = <<clock', rotation'>>
  BY <1>1, <1>5 DEF Typed, Fresh
<1>7. active' = None /\ Sound(active', written', finished') /\ DOMAIN active'.lines = {}
  BY <1>1, <1>5, NoneIs
<1> QED
  BY <1>3, <1>4, <1>6, <1>7, FilesFrom

LEMMA FilesRemove ==
  ASSUME Typed, Files, GzipRemove
  PROVE  Files'
<1>1. /\ engine.at = "remove" /\ engine' = [engine EXCEPT !.at = "cleanup"]
      /\ plain' = [plain EXCEPT ![engine.name] = None]
      /\ UNCHANGED <<active, gz, rotation, clock, written, finished>>
  BY DEF GzipRemove, At, Go
<1>2. \A n \in Name : plain'[n] = None \/ plain'[n] = plain[n]
  BY <1>1 DEF Typed
<1>3. \A n \in Name : Sound(plain'[n], written', finished') /\ Sound(gz'[n], written', finished')
  BY <1>1, <1>2, ArchiveFiles, NoneIs
<1>4. \A n \in Name : Archived(plain'[n]) /\ Archived(gz'[n])
  BY <1>1, <1>2, ArchiveFiles, NoneIs
<1>5. active = None /\ engine.name = Fresh
  BY <1>1 DEF Files, Working
<1>6. engine'.at = "cleanup" /\ engine'.name = <<clock', rotation'>>
  BY <1>1, <1>5 DEF Typed, Fresh
<1>7. active' = None /\ Sound(active', written', finished') /\ DOMAIN active'.lines = {}
  BY <1>1, <1>5, NoneIs
<1> QED
  BY <1>3, <1>4, <1>6, <1>7, FilesFrom

LEMMA FilesRemoval ==
  ASSUME Typed, Files, Removal
  PROVE  Files'
<1>1. PICK d \in Name : Remove(d)
  BY DEF Removal
<1>2. /\ engine.at = "expire" /\ engine'.at = "expire" /\ engine'.name = engine.name
      /\ UNCHANGED <<active, rotation, clock, written, finished>>
  BY <1>1, RemoveEffect
<1>3. \A n \in Name : /\ plain'[n] = None \/ plain'[n] = plain[n]
                      /\ gz'[n] = None \/ gz'[n] = gz[n]
  BY <1>1, RemoveEffect
<1>4. \A n \in Name : Sound(plain'[n], written', finished') /\ Sound(gz'[n], written', finished')
  BY <1>2, <1>3, ArchiveFiles, NoneIs
<1>5. \A n \in Name : Archived(plain'[n]) /\ Archived(gz'[n])
  BY <1>2, <1>3, ArchiveFiles, NoneIs
<1>6. active = None /\ engine.name = Fresh
  BY <1>2 DEF Files, Working
<1>7. engine'.name = <<clock', rotation'>>
  BY <1>2, <1>6 DEF Fresh
<1>8. active' = None /\ Sound(active', written', finished') /\ DOMAIN active'.lines = {}
  BY <1>2, <1>6, NoneIs
<1> QED
  BY <1>2, <1>4, <1>5, <1>7, <1>8, FilesFrom

LEMMA FilesQuiet ==
  ASSUME Typed, Files, Quiet
  PROVE  Files'
<1>1. /\ engine.at \in {"gzip", "remove", "cleanup", "expire"}
      /\ engine'.at \in {"expire", "reopen", "failed"} /\ engine'.name = engine.name
      /\ engine'.at # "failed" => UNCHANGED rotation
      /\ UNCHANGED <<active, plain, gz, clock, written, finished>>
  BY QuietEffect
<1>2. \A n \in Name : Sound(plain'[n], written', finished') /\ Sound(gz'[n], written', finished')
  BY <1>1, ArchiveFiles
<1>3. \A n \in Name : Archived(plain'[n]) /\ Archived(gz'[n])
  BY <1>1, ArchiveFiles
<1>4. active = None /\ engine.name = Fresh
  BY <1>1 DEF Files, Working
<1>5. engine'.at # "failed" => engine'.name = <<clock', rotation'>>
  BY <1>1, <1>4 DEF Fresh
<1>6. active' = None /\ Sound(active', written', finished') /\ DOMAIN active'.lines = {}
  BY <1>1, <1>4, NoneIs
<1> QED
  BY <1>1, <1>2, <1>3, <1>5, <1>6, FilesFrom

LEMMA ReopenEffect ==
  ASSUME Typed, Reopen
  PROVE  /\ engine.at \in {"reopen", "failed"} /\ engine'.at = "idle"
         /\ active'.lines = <<>> /\ active'.present /\ active'.mtime = clock
         /\ rotation' = rotation + 1
         /\ UNCHANGED <<config, plain, gz, sequence, clock, written, finished, expired, cut, crashes,
                        rotations>>
<1>1. /\ engine.at \in {"reopen", "failed"} /\ engine' = [engine EXCEPT !.at = "idle"]
      /\ active' = File(<<>>, clock) /\ rotation' = rotation + 1
      /\ UNCHANGED <<config, plain, gz, sequence, clock, written, finished, expired, cut, crashes,
                     rotations>>
  BY DEF Reopen, At, Go
<1>2. <<>> \in Seq(AnyEntry) /\ clock \in Nat
  BY DEF Typed
<1>3. engine'.at = "idle"
  BY <1>1 DEF Typed
<1> QED
  BY <1>1, <1>2, <1>3, FileIs

LEMMA FilesReopen ==
  ASSUME Typed, Files, Reopen
  PROVE  Files'
<1>1. /\ engine'.at = "idle" /\ active'.lines = <<>> /\ active'.present
      /\ UNCHANGED <<plain, gz, written, finished>>
  BY ReopenEffect
<1>2. \A n \in Name : Sound(plain'[n], written', finished') /\ Sound(gz'[n], written', finished')
  BY <1>1, ArchiveFiles
<1>3. \A n \in Name : Archived(plain'[n]) /\ Archived(gz'[n])
  BY <1>1, ArchiveFiles
<1>4. DOMAIN active'.lines = {} /\ Sound(active', written', finished')
  BY <1>1 DEF Sound
<1> QED
  BY <1>1, <1>2, <1>3, <1>4, FilesFrom

LEMMA FilesRestart ==
  ASSUME Typed, Files, Crash \/ Tick \/ \E checkpoint \in BOOLEAN : Boot(checkpoint)
  PROVE  Files'
<1>1. CASE Crash
  <2>1. /\ engine'.at = "down" /\ UNCHANGED <<active, plain, gz, written, finished>>
    BY <1>1 DEF Crash, Typed, diskVars
  <2>2. \A n \in Name : Sound(plain'[n], written', finished') /\ Sound(gz'[n], written', finished')
    BY <2>1, ArchiveFiles
  <2>3. \A n \in Name : Archived(plain'[n]) /\ Archived(gz'[n])
    BY <2>1, ArchiveFiles
  <2>4. \A i \in DOMAIN active'.lines : ~active'.lines[i].whole => i = Len(active'.lines)
    BY <2>1 DEF Files
  <2>5. Sound(active', written', finished')
    BY <2>1 DEF Files, InOrder
  <2> QED
    BY <2>1, <2>2, <2>3, <2>4, <2>5, FilesFrom
<1>2. CASE Tick
  <2>1. engine.at = "idle" /\ UNCHANGED <<active, plain, gz, engine, written, finished>>
    BY <1>2 DEF Tick, At, diskVars
  <2>2. \A n \in Name : Sound(plain'[n], written', finished') /\ Sound(gz'[n], written', finished')
    BY <2>1, ArchiveFiles
  <2>3. \A n \in Name : Archived(plain'[n]) /\ Archived(gz'[n])
    BY <2>1, ArchiveFiles
  <2>4. \A i \in DOMAIN active'.lines : active'.lines[i].whole
    BY <2>1 DEF Files
  <2>5. Sound(active', written', finished') /\ active'.present
    BY <2>1 DEF Files, InOrder
  <2> QED
    BY <2>1, <2>2, <2>3, <2>4, <2>5, FilesFrom
<1>3. CASE \E checkpoint \in BOOLEAN : Boot(checkpoint)
  <2>1. PICK checkpoint \in BOOLEAN : Boot(checkpoint)
    BY <1>3
  <2>2. /\ engine'.at = "idle" /\ active'.present /\ UNCHANGED <<plain, gz, written, finished>>
    BY <2>1, BootEffect DEF Typed
  <2>3. PICK n \in 0..Len(active.lines) :
          active'.lines = SubSeq(active.lines, 1, n) /\ \A i \in 1..n : active.lines[i].whole
    BY <2>1, BootEffect
  <2>4. active \in AnyFile /\ Sound(active, written, finished) /\ written \in Nat
    BY DEF Files, InOrder, Typed
  <2>5. Sound(active', written', finished')
    BY <2>2, <2>3, <2>4, SoundPrefix
  <2>6. \A i \in DOMAIN active'.lines : active'.lines[i].whole
    BY <2>3, <2>4, Prefix DEF AnyFile
  <2>7. \A m \in Name : Sound(plain'[m], written', finished') /\ Sound(gz'[m], written', finished')
    BY <2>2, ArchiveFiles
  <2>8. \A m \in Name : Archived(plain'[m]) /\ Archived(gz'[m])
    BY <2>2, ArchiveFiles
  <2> QED
    BY <2>2, <2>5, <2>6, <2>7, <2>8, FilesFrom
<1> QED
  BY <1>1, <1>2, <1>3

LEMMA FilesEngine ==
  ASSUME Typed, Files, Ordered, Twins, EngineStep
  PROVE  Files'
BY EngineSteps, FilesWriteBegins, FilesWriteEnds, FilesRotate, FilesGzip, FilesRemove, FilesRemoval,
   FilesQuiet, FilesReopen, FilesRestart

-----------------------------------------------------------------------------
(* The order of the records across the files.                               *)
Shrinks ==
  /\ \A n \in Name : Archive(n)' \subseteq Archive(n)
  /\ LineIds(active)' \subseteq LineIds(active)
  /\ Named' \subseteq Named

LEMMA ShrinksFrom ==
  ASSUME \A n \in Name : LineIds(plain'[n]) \cup LineIds(gz'[n]) \subseteq Archive(n),
         LineIds(active') \subseteq LineIds(active),
         \A n \in Name : plain'[n].present \/ gz'[n].present => plain[n].present \/ gz[n].present
  PROVE  Shrinks
BY DEF Shrinks, Archive, LineIds, Named

LEMMA ShrinkSteps ==
  ASSUME Typed, Files, Twins,
         \/ WriteEnds \/ GzipRename \/ GzipRemove \/ Removal \/ Quiet \/ Reopen \/ Crash \/ Tick
         \/ \E checkpoint \in BOOLEAN : Boot(checkpoint)
  PROVE  Shrinks
<1>1. CASE WriteEnds
  <2>1. LineIds(active') = LineIds(active) /\ UNCHANGED <<plain, gz>>
    BY <1>1, WriteEndsEffect
  <2> QED
    BY <2>1, ShrinksFrom DEF Archive
<1>2. CASE GzipRename
  <2> DEFINE m == engine.name
  <2>1. /\ m \in Name /\ plain[m].present /\ gz'[m].lines = plain[m].lines
        /\ \A n \in Name : n # m => gz'[n] = gz[n]
        /\ UNCHANGED <<active, plain>>
    BY <1>2, GzipEffect
  <2>2. LineIds(gz'[m]) = LineIds(plain[m])
    BY <2>1 DEF LineIds
  <2> HIDE DEF m
  <2>3. \A n \in Name : LineIds(plain'[n]) \cup LineIds(gz'[n]) \subseteq Archive(n)
    BY <2>1, <2>2 DEF Archive
  <2>4. \A n \in Name : plain'[n].present \/ gz'[n].present => plain[n].present \/ gz[n].present
    BY <2>1
  <2>5. LineIds(active') \subseteq LineIds(active)
    BY <2>1
  <2> QED
    BY <2>3, <2>4, <2>5, ShrinksFrom
<1>3. CASE GzipRemove
  <2>1. /\ plain' = [plain EXCEPT ![engine.name] = None] /\ UNCHANGED <<active, gz>>
    BY <1>3 DEF GzipRemove
  <2>2. \A n \in Name : plain'[n] = None \/ plain'[n] = plain[n]
    BY <2>1 DEF Typed
  <2>3. \A n \in Name : LineIds(plain'[n]) \cup LineIds(gz'[n]) \subseteq Archive(n)
    BY <2>1, <2>2, NoneIs DEF Archive
  <2>4. \A n \in Name : plain'[n].present \/ gz'[n].present => plain[n].present \/ gz[n].present
    BY <2>1, <2>2, FileIs
  <2>5. LineIds(active') \subseteq LineIds(active)
    BY <2>1
  <2> QED
    BY <2>3, <2>4, <2>5, ShrinksFrom
<1>4. CASE Removal
  <2>0. PICK d \in Name : Remove(d)
    BY <1>4 DEF Removal
  <2>1. \A n \in Name : /\ plain'[n] = None \/ plain'[n] = plain[n]
                        /\ gz'[n] = None \/ gz'[n] = gz[n]
    BY <2>0, RemoveEffect
  <2>2. UNCHANGED active
    BY <2>0, RemoveEffect
  <2>3. \A n \in Name : LineIds(plain'[n]) \cup LineIds(gz'[n]) \subseteq Archive(n)
    BY <2>1, NoneIs DEF Archive
  <2>4. \A n \in Name : plain'[n].present \/ gz'[n].present => plain[n].present \/ gz[n].present
    BY <2>1, FileIs
  <2>5. LineIds(active') \subseteq LineIds(active)
    BY <2>2
  <2> QED
    BY <2>3, <2>4, <2>5, ShrinksFrom
<1>5. CASE Reopen
  <2>1. active'.lines = <<>> /\ UNCHANGED <<plain, gz>>
    BY <1>5, ReopenEffect
  <2>2. LineIds(active') = {}
    BY <2>1 DEF LineIds
  <2> QED
    BY <2>1, <2>2, ShrinksFrom DEF Archive
<1>6. CASE Quiet \/ Crash \/ Tick
  <2>1. UNCHANGED <<active, plain, gz>>
    BY <1>6, QuietEffect DEF Crash, Tick, diskVars
  <2> QED
    BY <2>1, ShrinksFrom DEF Archive
<1>7. CASE \E checkpoint \in BOOLEAN : Boot(checkpoint)
  <2>1. PICK checkpoint \in BOOLEAN : Boot(checkpoint)
    BY <1>7
  <2>2. active'.present /\ UNCHANGED <<plain, gz>>
    BY <2>1, BootEffect
  <2>3. PICK n \in 0..Len(active.lines) : active'.lines = SubSeq(active.lines, 1, n)
    BY <2>1, BootEffect
  <2>4. active \in AnyFile /\ Sound(active, written, finished) /\ written \in Nat
    BY DEF Files, InOrder, Typed
  <2>5. LineIds(active') \subseteq LineIds(active)
    BY <2>2, <2>3, <2>4, SoundPrefix
  <2> QED
    BY <2>2, <2>5, ShrinksFrom DEF Archive
<1> QED
  BY <1>1, <1>2, <1>3, <1>4, <1>5, <1>6, <1>7

(* A name the engine has used stays used.                                   *)
LEMMA UsedStays ==
  ASSUME Typed, Files, EngineStep, NEW n \in Name, Used(n)
  PROVE  Used(n)'
<1>1. n[1] \in Nat /\ n[2] \in Nat /\ n = <<n[1], n[2]>>
  BY NameParts
<1>2. clock \in Nat /\ rotation \in Nat
  BY DEF Typed
<1>3. SUFFICES /\ engine'.at \in {"idle", "writing", "failed"} =>
                    n[1] < clock' \/ (n[1] = clock' /\ n[2] < rotation')
               /\ engine'.at \in {"gzip", "remove", "cleanup", "expire", "reopen"} =>
                    \/ n[1] < clock' \/ (n[1] = clock' /\ n[2] < rotation')
                    \/ (n[1] = clock' /\ n[2] = rotation')
               /\ n[1] <= clock'
  BY <1>1 DEF Used, Working, Fresh, Before
<1>4. /\ engine.at \in {"idle", "writing", "failed"} =>
                    n[1] < clock \/ (n[1] = clock /\ n[2] < rotation)
      /\ engine.at \in {"gzip", "remove", "cleanup", "expire", "reopen"} =>
                    \/ n[1] < clock \/ (n[1] = clock /\ n[2] < rotation)
                    \/ (n[1] = clock /\ n[2] = rotation)
      /\ n[1] <= clock
  BY <1>1 DEF Used, Working, Fresh, Before
<1>5. CASE WriteBegins \/ WriteEnds
  <2>1. engine.at \in {"idle", "writing"} /\ engine'.at \in {"idle", "writing"}
        /\ UNCHANGED <<clock, rotation>>
    BY <1>5 DEF WriteBegins, WriteEnds, Typed
  <2> QED
    BY <1>4, <2>1
<1>6. CASE RotateRename
  <2>1. engine.at = "idle" /\ engine'.at \in {"gzip", "cleanup"} /\ UNCHANGED <<clock, rotation>>
    BY <1>6 DEF RotateRename, At
  <2> QED
    BY <1>4, <2>1
<1>7. CASE GzipRename \/ GzipRemove
  <2>1. /\ engine.at \in {"gzip", "remove"} /\ engine'.at \in {"remove", "cleanup"}
        /\ UNCHANGED <<clock, rotation>>
    BY <1>7 DEF GzipRename, GzipRemove, At, Go, Typed
  <2> QED
    BY <1>4, <2>1
<1>12. CASE Removal
  <2>1. PICK d \in Name : Remove(d)
    BY <1>12 DEF Removal
  <2>2. engine.at = "expire" /\ engine'.at = "expire" /\ UNCHANGED <<clock, rotation>>
    BY <2>1, RemoveEffect
  <2> QED
    BY <1>4, <2>2
<1>13. CASE Quiet
  <2>1. /\ engine.at \in {"gzip", "remove", "cleanup", "expire"}
        /\ engine'.at \in {"expire", "reopen", "failed"} /\ UNCHANGED clock
        /\ \/ engine'.at = "failed" /\ rotation' = rotation + 1
           \/ engine'.at # "failed" /\ rotation' = rotation
    BY <1>13, QuietEffect
  <2> QED
    BY <1>1, <1>2, <1>4, <2>1
<1>8. CASE Reopen
  <2>1. /\ engine.at \in {"reopen", "failed"} /\ engine'.at = "idle"
        /\ rotation' = rotation + 1 /\ UNCHANGED clock
    BY <1>8, ReopenEffect
  <2> QED
    BY <1>1, <1>2, <1>4, <2>1
<1>9. CASE Crash
  <2>1. engine'.at = "down" /\ UNCHANGED clock
    BY <1>9 DEF Crash, Typed
  <2> QED
    BY <1>4, <2>1
<1>10. CASE Tick
  <2>1. engine.at = "idle" /\ engine'.at = "idle" /\ clock' = clock + 1
    BY <1>10 DEF Tick, At
  <2> QED
    BY <1>1, <1>2, <1>4, <2>1
<1>11. CASE \E checkpoint \in BOOLEAN : Boot(checkpoint)
  <2>1. engine'.at = "idle" /\ clock' = clock + 1
    BY <1>11, BootEffect DEF Typed
  <2> QED
    BY <1>1, <1>2, <1>4, <2>1
<1> QED
  BY <1>5, <1>6, <1>7, <1>8, <1>9, <1>10, <1>11, <1>12, <1>13, EngineSteps

LEMMA OrderedInit ==
  ASSUME Init
  PROVE  Ordered /\ Twins /\ Times /\ NothingLost /\ Expiry /\ Encoded
<1>1. /\ active = File(<<>>, 0) /\ plain = [n \in Name |-> None] /\ gz = [n \in Name |-> None]
      /\ engine.at = "idle" /\ finished = {} /\ expired = {} /\ clock = 0
  BY DEF Init, ArchiveInit
<1>2. active.lines = <<>> /\ active.present /\ active.mtime = 0
  <2>1. <<>> \in Seq(AnyEntry) /\ 0 \in Nat
    OBVIOUS
  <2> QED
    BY <1>1, <2>1, FileIs
<1>3. LineIds(active) = {} /\ DOMAIN active.lines = {}
  BY <1>2 DEF LineIds
<1>4. \A n \in Name : ~plain[n].present /\ ~gz[n].present /\ Archive(n) = {}
  BY <1>1, FileIs, NoneIs DEF Archive
<1>5. Named = {}
  BY <1>4 DEF Named
<1>6. Ordered
  BY <1>3, <1>4, <1>5 DEF Ordered, Older
<1>7. Twins /\ NothingLost /\ Expiry /\ Encoded
  BY <1>1, <1>3, <1>5 DEF Twins, NothingLost, Expiry, Encoded, Older
<1>8. Times
  BY <1>1, <1>2, <1>4, <1>5 DEF Times
<1> QED
  BY <1>6, <1>7, <1>8

LEMMA OrderedShrinks ==
  ASSUME Ordered, Shrinks, \A n \in Name : Used(n) => Used(n)'
  PROVE  Ordered'
<1>1. \A n \in Named' : Used(n)'
  BY DEF Ordered, Shrinks, Named
<1>2. \A m, n \in Name : Before(m, n) => Older(Archive(m)', Archive(n)')
  BY DEF Ordered, Shrinks, Older
<1>3. \A n \in Name : Older(Archive(n)', LineIds(active)')
  BY DEF Ordered, Shrinks, Older
<1> QED
  BY <1>1, <1>2, <1>3 DEF Ordered, Older

LEMMA ArchiveIds ==
  ASSUME Typed, Files
  PROVE  /\ \A n \in Name : Archive(n) \subseteq 1..written /\ Archive(n) \subseteq finished
         /\ \A n \in Name : Archive(n) = Ids(plain[n]) \cup Ids(gz[n])
         /\ LineIds(active) \subseteq 1..written /\ written \in Nat
         /\ \A n \in Name : n \notin Named => Archive(n) = {}
<1>1. \A n \in Name : /\ LineIds(plain[n]) = Ids(plain[n]) /\ LineIds(gz[n]) = Ids(gz[n])
                      /\ Ids(plain[n]) \subseteq finished /\ Ids(gz[n]) \subseteq finished
  BY IdsAre DEF Files
<1>2. finished \subseteq 1..written /\ written \in Nat
  BY DEF Typed
<1>3. \A n \in Name : n \notin Named => Archive(n) = {}
  BY ArchiveFiles, NoneIs DEF Named, Archive
<1>4. LineIds(active) \subseteq 1..written
  BY IdsAre DEF Files
<1> QED
  BY <1>1, <1>2, <1>3, <1>4 DEF Archive

LEMMA OrderedEngine ==
  ASSUME Typed, Files, Ordered, Twins, EngineStep
  PROVE  Ordered'
<1>1. \A n \in Name : Used(n) => Used(n)'
  BY UsedStays
<1>2. CASE WriteBegins
  <2>1. /\ LineIds(active') = LineIds(active) \cup {written + 1}
        /\ UNCHANGED <<plain, gz>>
    BY <1>2, WriteBeginsEffect
  <2>2. /\ \A n \in Name : Archive(n)' = Archive(n) /\ Archive(n) \subseteq 1..written
        /\ Named' = Named /\ LineIds(active)' = LineIds(active) \cup {written + 1}
        /\ written \in Nat
    BY <2>1, ArchiveIds DEF Archive, Named, LineIds
  <2>3. \A n \in Named' : Used(n)'
    BY <1>1, <2>2 DEF Ordered, Named
  <2>4. \A m, n \in Name : Before(m, n) => Older(Archive(m)', Archive(n)')
    BY <2>2 DEF Ordered
  <2>5. \A n \in Name : Older(Archive(n)', LineIds(active)')
    BY <2>2 DEF Ordered, Older
  <2> QED
    BY <2>3, <2>4, <2>5 DEF Ordered, Older
<1>3. CASE RotateRename
  <2>1. /\ engine.at = "idle" /\ Fresh \in Name /\ engine'.at \in {"gzip", "cleanup"}
        /\ active' = None /\ plain[Fresh] = None /\ gz[Fresh] = None
        /\ plain'[Fresh] = active /\ \A n \in Name : n # Fresh => plain'[n] = plain[n]
        /\ UNCHANGED <<gz, rotation, clock>>
    BY <1>3, RotateEffect
  <2>2. /\ Archive(Fresh)' = LineIds(active)
        /\ \A n \in Name : n # Fresh => Archive(n)' = Archive(n)
        /\ LineIds(active)' = {}
        /\ Named' \subseteq Named \cup {Fresh}
    <3>1. Archive(Fresh)' = LineIds(plain'[Fresh]) \cup LineIds(gz'[Fresh])
      BY <2>1 DEF Archive, LineIds, Fresh
    <3>2. LineIds(active') = {} /\ LineIds(gz'[Fresh]) = {}
      BY <2>1, NoneIs
    <3>3. \A n \in Name : n # Fresh => Archive(n)' = Archive(n)
      BY <2>1 DEF Archive, LineIds
    <3>4. Named' \subseteq Named \cup {Fresh}
      BY <2>1 DEF Named
    <3> QED
      BY <2>1, <3>1, <3>2, <3>3, <3>4 DEF LineIds
  <2>3. Used(Fresh)'
    BY <2>1, NameParts DEF Used, Working, Fresh
  <2>4. \A n \in Named' : Used(n)'
    <3> SUFFICES ASSUME NEW n \in Named' PROVE Used(n)'
      OBVIOUS
    <3>1. CASE n = Fresh
      <4>1. Fresh' = Fresh
        BY <2>1 DEF Fresh
      <4> QED
        BY <2>1, <3>1, NameParts DEF Used, Working, Fresh
    <3>2. CASE n \in Named
      BY <1>1, <3>2 DEF Ordered, Named
    <3> QED
      BY <2>2, <3>1, <3>2
  <2>5. ASSUME NEW m \in Name, NEW n \in Name, Before(m, n)
        PROVE  Older(Archive(m)', Archive(n)')
    <3>1. CASE m # Fresh /\ n # Fresh
      BY <2>2, <2>5, <3>1 DEF Ordered
    <3>2. CASE n = Fresh /\ m # Fresh
      <4>1. Older(Archive(m), LineIds(active))
        BY DEF Ordered
      <4>2. Archive(n)' = LineIds(active)
        <5>1. Archive(n)' = LineIds(plain'[n]) \cup LineIds(gz'[n])
          BY DEF Archive, LineIds
        <5>2. plain'[n] = active /\ gz'[n] = None
          BY <2>1, <3>2
        <5> QED
          BY <5>1, <5>2, NoneIs
      <4> QED
        BY <2>2, <3>2, <4>1, <4>2
    <3>3. CASE m = Fresh
      <4>1. n # Fresh
        BY <2>1, <2>5, <3>3, BeforeOrders
      <4>2. ~Before(n, Fresh)
        BY <2>1, <2>5, <3>3, BeforeOrders
      <4>3. n \notin Named
        BY <2>1, <4>2 DEF Ordered, Used
      <4>4. Archive(n)' = {}
        BY <2>2, <4>1, <4>3, ArchiveIds
      <4> QED
        BY <4>4 DEF Older
    <3> QED
      BY <3>1, <3>2, <3>3
  <2>6. \A n \in Name : Older(Archive(n)', LineIds(active)')
    BY <2>2 DEF Older
  <2> QED
    BY <2>4, <2>5, <2>6 DEF Ordered, Older
<1>4. CASE \/ WriteEnds \/ GzipRename \/ GzipRemove \/ Removal \/ Quiet \/ Reopen \/ Crash \/ Tick
           \/ \E checkpoint \in BOOLEAN : Boot(checkpoint)
  BY <1>1, <1>4, ShrinkSteps, OrderedShrinks
<1> QED
  BY <1>2, <1>3, <1>4, EngineSteps

-----------------------------------------------------------------------------
(* The twins of a segment under compression.                                *)
LEMMA TwinsEngine ==
  ASSUME Typed, Files, Ordered, Twins, EngineStep
  PROVE  Twins'
<1>1. CASE RotateRename
  <2>1. /\ Fresh \in Name /\ engine'.name = Fresh /\ engine'.at \in {"gzip", "cleanup"}
        /\ active.present /\ plain'[Fresh] = active /\ gz[Fresh] = None /\ gz' = gz
    BY <1>1, RotateEffect
  <2>2. plain'[engine'.name].present /\ ~gz'[engine'.name].present
    BY <2>1, FileIs
  <2> QED
    BY <2>1, <2>2 DEF Twins
<1>2. CASE GzipRename
  <2>1. /\ engine'.at = "remove" /\ engine'.name = engine.name /\ gz'[engine.name].present
        /\ gz'[engine.name].lines = plain[engine.name].lines /\ UNCHANGED plain
    BY <1>2, GzipEffect DEF Typed
  <2>2. LineIds(plain'[engine'.name]) = LineIds(gz'[engine'.name])
    BY <2>1 DEF LineIds
  <2> QED
    BY <2>1, <2>2 DEF Twins, LineIds
<1>3. CASE \/ WriteBegins \/ WriteEnds \/ GzipRemove \/ Removal \/ Quiet \/ Reopen \/ Crash \/ Tick
           \/ \E checkpoint \in BOOLEAN : Boot(checkpoint)
  <2>1. engine'.at \notin {"gzip", "remove"}
    <3>1. CASE WriteBegins \/ WriteEnds
      BY <3>1 DEF WriteBegins, WriteEnds, Typed
    <3>2. CASE GzipRemove \/ Reopen \/ Crash \/ Tick
      BY <3>2 DEF GzipRemove, Reopen, Crash, Tick, Go, At, Typed
    <3>4. CASE Removal
      BY <3>4, RemoveEffect DEF Removal
    <3>5. CASE Quiet
      BY <3>5, QuietEffect
    <3>3. CASE \E checkpoint \in BOOLEAN : Boot(checkpoint)
      BY <3>3 DEF Boot, Go, Typed
    <3> QED
      BY <1>3, <3>1, <3>2, <3>3, <3>4, <3>5
  <2> QED
    BY <2>1 DEF Twins
<1> QED
  BY <1>1, <1>2, <1>3, EngineSteps

-----------------------------------------------------------------------------
(* When the segments were written to last.                                  *)
ArchiveTimes ==
  /\ \A n \in Name : plain[n].present => plain[n].mtime <= n[1]
  /\ \A n \in Name : gz[n].present => gz[n].mtime <= n[1]
  /\ \A m, n \in Named : Before(m, n) =>
       /\ plain[n].present => m[1] <= plain[n].mtime
       /\ gz[n].present => m[1] <= gz[n].mtime

ActiveTimes == active.present => active.mtime <= clock /\ \A n \in Named : n[1] <= active.mtime

LEMMA TimesParts == /\ Times <=> ArchiveTimes /\ ActiveTimes
                    /\ Times' <=> ArchiveTimes' /\ ActiveTimes'
BY DEF Times, ArchiveTimes, ActiveTimes

(* Steps that leave the archive alone, or take from it.                     *)
LEMMA ArchiveTimesStay ==
  ASSUME ArchiveTimes, Named' \subseteq Named,
         \A n \in Name : /\ plain'[n].present => plain[n].present /\ plain'[n].mtime = plain[n].mtime
                         /\ gz'[n].present => gz[n].present /\ gz'[n].mtime = gz[n].mtime
  PROVE  ArchiveTimes'
BY DEF ArchiveTimes, Named

LEMMA TimesWrite ==
  ASSUME Typed, Files, Ordered, Times, WriteBegins \/ WriteEnds
  PROVE  Times'
<1>1. active'.mtime = clock /\ UNCHANGED <<plain, gz, clock>> /\ clock \in Nat
  BY WriteBeginsEffect, WriteEndsEffect DEF Typed
<1>2. Named' = Named
  BY <1>1 DEF Named
<1>3. ArchiveTimes'
  BY <1>1, <1>2, TimesParts, ArchiveTimesStay
<1>4. ActiveTimes'
  BY <1>1, <1>2 DEF ActiveTimes, Ordered, Used
<1> QED
  BY <1>3, <1>4, TimesParts

LEMMA TimesRotate ==
  ASSUME Typed, Files, Ordered, Times, RotateRename
  PROVE  Times'
<1>1. /\ engine.at = "idle" /\ Fresh \in Name
      /\ active.present /\ active' = None
      /\ plain[Fresh] = None /\ gz[Fresh] = None /\ gz' = gz
      /\ plain'[Fresh] = active /\ \A n \in Name : n # Fresh => plain'[n] = plain[n]
  BY RotateEffect
<1>2. Fresh[1] = clock
  BY DEF Fresh
<1>3. ~active'.present /\ ~gz[Fresh].present
  BY <1>1, FileIs
<1>4. Named' \subseteq Named \cup {Fresh}
  BY <1>1 DEF Named
<1>5. active.mtime <= clock /\ \A n \in Named : n[1] <= active.mtime
  BY <1>1 DEF Times
<1>6. \A n \in Name : plain'[n].present => plain'[n].mtime <= n[1]
  BY <1>1, <1>2, <1>5 DEF Times
<1>7. \A n \in Name : gz'[n].present => gz'[n].mtime <= n[1]
  BY <1>1 DEF Times
<1>8. ASSUME NEW m \in Named', NEW n \in Named', Before(m, n)
      PROVE  /\ plain'[n].present => m[1] <= plain'[n].mtime
             /\ gz'[n].present => m[1] <= gz'[n].mtime
  <2>1. m \in Name /\ n \in Name
    BY DEF Named
  <2>2. CASE m = Fresh
    <3>1. n # Fresh /\ ~Before(n, Fresh)
      BY <1>8, <2>1, <2>2, BeforeOrders
    <3>2. n \in Named
      BY <1>4, <3>1
    <3> QED
      BY <1>1, <3>1, <3>2 DEF Ordered, Used
  <2>3. CASE m # Fresh /\ n = Fresh
    BY <1>1, <1>3, <1>4, <1>5, <2>1, <2>3
  <2>4. CASE m # Fresh /\ n # Fresh
    BY <1>1, <1>4, <1>8, <2>1, <2>4 DEF Times
  <2> QED
    BY <2>2, <2>3, <2>4
<1>9. ArchiveTimes'
  BY <1>6, <1>7, <1>8 DEF ArchiveTimes
<1>10. ActiveTimes'
  BY <1>3 DEF ActiveTimes
<1> QED
  BY <1>9, <1>10, TimesParts

LEMMA TimesGzip ==
  ASSUME Typed, Files, Ordered, Twins, Times, GzipRename
  PROVE  Times'
<1> DEFINE m == engine.name
<1>1. /\ engine.at = "gzip" /\ m \in Name /\ plain[m].present /\ gz'[m].mtime = clock
      /\ \A n \in Name : n # m => gz'[n] = gz[n]
      /\ UNCHANGED <<active, plain, clock>>
  BY GzipEffect
<1>2. active = None /\ m = Fresh /\ m[1] = clock /\ clock \in Nat
  BY <1>1 DEF Files, Working, Fresh, Typed
<1>3. ~active'.present
  BY <1>1, <1>2, FileIs
<1> HIDE DEF m
<1>4. Named' \subseteq Named
  BY <1>1 DEF Named
<1>5. \A n \in Name : plain'[n].present => plain'[n].mtime <= n[1]
  BY <1>1 DEF Times
<1>6. \A n \in Name : gz'[n].present => gz'[n].mtime <= n[1]
  BY <1>1, <1>2 DEF Times
<1>7. ASSUME NEW k \in Named', NEW n \in Named', Before(k, n)
      PROVE  /\ plain'[n].present => k[1] <= plain'[n].mtime
             /\ gz'[n].present => k[1] <= gz'[n].mtime
  <2>1. k \in Named /\ n \in Named /\ k \in Name /\ n \in Name
    BY <1>4 DEF Named
  <2>2. k[1] <= n[1]
    BY <1>7, <2>1, BeforeOrders
  <2>3. CASE n = m
    BY <1>1, <1>2, <1>7, <2>1, <2>2, <2>3 DEF Times
  <2>4. CASE n # m
    BY <1>1, <1>7, <2>1, <2>4 DEF Times
  <2> QED
    BY <2>3, <2>4
<1>8. ArchiveTimes'
  BY <1>5, <1>6, <1>7 DEF ArchiveTimes
<1>9. ActiveTimes'
  BY <1>3 DEF ActiveTimes
<1> QED
  BY <1>8, <1>9, TimesParts

LEMMA TimesShrink ==
  ASSUME Typed, Files, Ordered, Times, GzipRemove \/ Removal \/ Quiet
  PROVE  Times'
<1>1. \A n \in Name : /\ plain'[n] = None \/ plain'[n] = plain[n]
                      /\ gz'[n] = None \/ gz'[n] = gz[n]
  <2>1. CASE GzipRemove
    BY <2>1 DEF GzipRemove, Typed
  <2>2. CASE Removal
    BY <2>2, RemoveEffect DEF Removal
  <2>3. CASE Quiet
    BY <2>3, QuietEffect
  <2> QED
    BY <2>1, <2>2, <2>3
<1>2. engine.at \in {"gzip", "remove", "cleanup", "expire"} /\ UNCHANGED active
  <2>1. CASE GzipRemove
    BY <2>1 DEF GzipRemove, At
  <2>2. CASE Removal
    BY <2>2, RemoveEffect DEF Removal
  <2>3. CASE Quiet
    BY <2>3, QuietEffect
  <2> QED
    BY <2>1, <2>2, <2>3
<1>3. active = None
  BY <1>2 DEF Files, Working
<1>4. ~active'.present /\ ~None.present
  BY <1>2, <1>3, FileIs
<1>5. Named' \subseteq Named
  BY <1>1, <1>4 DEF Named
<1>6. ArchiveTimes'
  BY <1>1, <1>4, <1>5, TimesParts, ArchiveTimesStay
<1>7. ActiveTimes'
  BY <1>4 DEF ActiveTimes
<1> QED
  BY <1>6, <1>7, TimesParts

LEMMA TimesRestart ==
  ASSUME Typed, Files, Ordered, Times,
         Reopen \/ Crash \/ Tick \/ \E checkpoint \in BOOLEAN : Boot(checkpoint)
  PROVE  Times'
<1>1. /\ UNCHANGED <<plain, gz>> /\ clock' \in Nat /\ clock \in Nat /\ clock <= clock'
      /\ active'.present => \/ active'.mtime \in {clock, clock'}
                            \/ active.present /\ active'.mtime = active.mtime
  <2>1. CASE Reopen
    BY <2>1, ReopenEffect DEF Typed
  <2>2. CASE Crash \/ Tick
    BY <2>2 DEF Crash, Tick, diskVars, Typed
  <2>3. CASE \E checkpoint \in BOOLEAN : Boot(checkpoint)
    BY <2>3, BootEffect DEF Typed
  <2> QED
    BY <2>1, <2>2, <2>3
<1>2. Named' = Named /\ \A n \in Named : n[1] <= clock /\ n[1] \in Nat
  BY <1>1, NameParts DEF Named, Ordered, Used
<1>3. ArchiveTimes'
  BY <1>1, <1>2, TimesParts, ArchiveTimesStay
<1>4. active.present => /\ active.mtime \in Nat /\ active.mtime <= clock
                        /\ \A n \in Named : n[1] <= active.mtime
  BY DEF Times, Typed, AnyFile
<1>5. ActiveTimes'
  BY <1>1, <1>2, <1>4 DEF ActiveTimes
<1> QED
  BY <1>3, <1>5, TimesParts

LEMMA TimesEngine ==
  ASSUME Typed, Files, Ordered, Twins, Times, EngineStep
  PROVE  Times'
BY EngineSteps, TimesWrite, TimesRotate, TimesGzip, TimesShrink, TimesRestart

-----------------------------------------------------------------------------
(* No record is lost.                                                       *)
LEMMA NothingFrom ==
  ASSUME NothingLost,
         finished' = finished,
         \A x \in Ids(active) : \/ x \in Ids(active') \cup expired' \cup cut'
                                \/ \E n \in Name : x \in LineIds(plain'[n]) \cup LineIds(gz'[n]),
         \A m \in Name : \A x \in Archive(m) :
           \/ x \in Ids(active') \cup expired' \cup cut'
           \/ \E n \in Name : x \in LineIds(plain'[n]) \cup LineIds(gz'[n]),
         expired \subseteq expired', cut \subseteq cut'
  PROVE  NothingLost'
<1> SUFFICES ASSUME NEW x \in finished, x \notin expired' \cup cut'
             PROVE  x \in Ids(active') \/ \E n \in Name : x \in LineIds(plain'[n]) \cup LineIds(gz'[n])
  BY DEF NothingLost, Archive, LineIds, Ids
<1>1. x \in Ids(active) \/ \E m \in Name : x \in Archive(m)
  BY DEF NothingLost
<1> QED
  BY <1>1

LEMMA NothingEngine ==
  ASSUME Typed, Files, Ordered, Twins, NothingLost, EngineStep
  PROVE  NothingLost'
<1>1. CASE WriteBegins
  <2>1. Ids(active') = Ids(active) /\ UNCHANGED <<plain, gz, finished, expired, cut>>
    BY <1>1, WriteBeginsEffect
  <2> QED
    BY <2>1, NothingFrom DEF Archive
<1>2. CASE WriteEnds
  <2>1. /\ Ids(active') = Ids(active) \cup {written} /\ finished' = finished \cup {written}
        /\ UNCHANGED <<plain, gz, expired, cut>>
    BY <1>2, WriteEndsEffect
  <2>2. \A n \in Name : Archive(n)' = Archive(n)
    BY <2>1 DEF Archive, LineIds
  <2>3. Ids(active)' = Ids(active) \cup {written}
    BY <2>1 DEF Ids
  <2> QED
    BY <2>1, <2>2, <2>3 DEF NothingLost
<1>3. CASE RotateRename
  <2>1. /\ Fresh \in Name /\ Archived(active) /\ plain[Fresh] = None
        /\ plain'[Fresh] = active /\ \A n \in Name : n # Fresh => plain'[n] = plain[n]
        /\ UNCHANGED <<gz, finished, expired, cut>>
    BY <1>3, RotateEffect
  <2>2. \A x \in Ids(active) : x \in LineIds(plain'[Fresh])
    BY <2>1, IdsAre
  <2>3. \A m \in Name : Archive(m) \subseteq LineIds(plain'[m]) \cup LineIds(gz'[m])
    BY <2>1, NoneIs DEF Archive
  <2> QED
    BY <2>1, <2>2, <2>3, NothingFrom
<1>4. CASE GzipRename
  <2> DEFINE m == engine.name
  <2>1. /\ m \in Name /\ gz[m] = None /\ \A n \in Name : n # m => gz'[n] = gz[n]
        /\ UNCHANGED <<active, plain, finished, expired, cut>>
    BY <1>4, GzipEffect
  <2> HIDE DEF m
  <2>2. \A n \in Name : Archive(n) \subseteq LineIds(plain'[n]) \cup LineIds(gz'[n])
    BY <2>1, NoneIs DEF Archive
  <2> QED
    BY <2>1, <2>2, NothingFrom
<1>5. CASE GzipRemove
  <2> DEFINE m == engine.name
  <2>1. /\ engine.at = "remove" /\ plain' = [plain EXCEPT ![m] = None]
        /\ UNCHANGED <<active, gz, finished, expired, cut>>
    BY <1>5 DEF GzipRemove, At
  <2>2. LineIds(plain[m]) \subseteq LineIds(gz[m]) \cup cut /\ m \in Name
    BY <2>1 DEF Twins, Typed
  <2> HIDE DEF m
  <2>3. \A n \in Name : n # m => plain'[n] = plain[n]
    BY <2>1 DEF Typed
  <2>4. \A n \in Name : Archive(n) \subseteq LineIds(plain'[n]) \cup LineIds(gz'[n]) \cup cut
    BY <2>1, <2>2, <2>3 DEF Archive
  <2> QED
    BY <2>1, <2>4, NothingFrom
<1>6. CASE Removal
  <2>1. PICK d \in Name : Remove(d)
    BY <1>6 DEF Removal
  <2>2. /\ \A n \in Name : n # d => plain'[n] = plain[n] /\ gz'[n] = gz[n]
        /\ expired' = expired \cup Ids(plain[d]) \cup Ids(gz[d])
        /\ UNCHANGED <<active, finished, cut>>
    BY <2>1, RemoveEffect
  <2>3. \A n \in Name : Archive(n) = Ids(plain[n]) \cup Ids(gz[n])
    BY ArchiveIds
  <2>4. \A n \in Name : Archive(n) \subseteq LineIds(plain'[n]) \cup LineIds(gz'[n]) \cup expired'
    BY <2>2, <2>3 DEF Archive
  <2> QED
    BY <2>2, <2>4, NothingFrom
<1>7. CASE Reopen
  <2>1. engine.at \in {"reopen", "failed"} /\ UNCHANGED <<plain, gz, finished, expired, cut>>
    BY <1>7, ReopenEffect
  <2>2. active = None
    BY <2>1 DEF Files, Working, Failed
  <2> QED
    BY <2>1, <2>2, NoneIs, NothingFrom DEF Archive
<1>8. CASE Quiet \/ Crash \/ Tick
  <2>1. UNCHANGED <<active, plain, gz, finished, expired, cut>>
    BY <1>8, QuietEffect DEF Crash, Tick, diskVars
  <2> QED
    BY <2>1, NothingFrom DEF Archive
<1>9. CASE \E checkpoint \in BOOLEAN : Boot(checkpoint)
  <2>1. /\ cut' = cut \cup (Ids(active) \ Ids(active'))
        /\ UNCHANGED <<plain, gz, finished, expired>>
    BY <1>9, BootEffect
  <2> QED
    BY <2>1, NothingFrom DEF Archive
<1> QED
  BY <1>1, <1>2, <1>3, <1>4, <1>5, <1>6, <1>7, <1>8, <1>9, EngineSteps

-----------------------------------------------------------------------------
(* The cleanup takes the oldest segments.                                   *)
LEMMA ProductGrows ==
  ASSUME NEW a \in Int, NEW b \in Int, NEW t \in Nat, a <= b
  PROVE  a * t <= b * t
<1>1. (b - a) * t >= 0
  OBVIOUS
<1> QED
  BY <1>1

LEMMA WrittenLastIs ==
  ASSUME Typed, Times, NEW n \in Named
  PROVE  /\ WrittenLast(n) \in Nat /\ WrittenLast(n) <= n[1]
         /\ \A m \in Named : Before(m, n) => m[1] <= WrittenLast(n)
<1>1. n \in Name
  BY DEF Named
<1>2. CASE plain[n].present
  <2>1. WrittenLast(n) = plain[n].mtime
    BY <1>2 DEF WrittenLast, Zipped
  <2> QED
    BY <1>1, <1>2, <2>1 DEF Times, Typed, AnyFile
<1>3. CASE ~plain[n].present
  <2>1. WrittenLast(n) = gz[n].mtime
    BY <1>3 DEF WrittenLast, Zipped
  <2>2. gz[n].present
    BY <1>3 DEF Named
  <2> QED
    BY <1>1, <2>1, <2>2 DEF Times, Typed, AnyFile
<1> QED
  BY <1>2, <1>3

LEMMA OldestAged ==
  ASSUME Typed, Times, NEW m \in Aged, NEW n \in Named, Before(n, m)
  PROVE  n \in Aged
<1>1. m \in Named /\ Named \subseteq Name
  BY DEF Aged, Named
<1>2. /\ config.retention > 0 /\ (clock - WrittenLast(m)) * TickSeconds > config.retention
  BY DEF Aged
<1>3. /\ WrittenLast(m) \in Nat /\ WrittenLast(n) \in Nat /\ clock \in Nat
      /\ WrittenLast(n) <= n[1] /\ n[1] <= WrittenLast(m) /\ n[1] \in Nat
  BY <1>1, WrittenLastIs, NameParts DEF Typed
<1> DEFINE a == clock - WrittenLast(m)
           b == clock - WrittenLast(n)
<1>4. a \in Int /\ b \in Int /\ a <= b /\ TickSeconds \in Nat /\ config.retention \in Nat
  BY <1>3, Options DEF Typed
<1>5. a * TickSeconds > config.retention
  BY <1>2
<1> HIDE DEF a, b
<1>6. a * TickSeconds <= b * TickSeconds
  BY <1>4, ProductGrows
<1>7. a * TickSeconds \in Int /\ b * TickSeconds \in Int
  BY <1>4
<1>8. b * TickSeconds > config.retention
  <2> DEFINE x == a * TickSeconds
             y == b * TickSeconds
  <2> HIDE DEF x, y
  <2> QED
    BY <1>4, <1>5, <1>6, <1>7 DEF x, y
<1> QED
  BY <1>2, <1>8 DEF Aged, b

(* Sets of names and their sizes.                                           *)
LEMMA Sizes ==
  ASSUME NEW T, T \subseteq Name, NEW S, S \subseteq T
  PROVE  Cardinality(S) \in Nat /\ Cardinality(T) \in Nat /\ Cardinality(S) <= Cardinality(T)
<1>1. IsFiniteSet(T)
  BY NamesFinite, FS_Subset
<1> QED
  BY <1>1, FS_Subset, FS_CardinalityType

LEMMA Youngest ==
  ASSUME NEW T, T \subseteq Name, T # {}
  PROVE  \E e \in T : \A m \in T : ~Before(e, m)
<1> DEFINE A == {MaxTime - n[1] : n \in T}
<1>1. A \subseteq Nat /\ A # {}
  BY Bounds, NameParts DEF Name
<1>2. PICK x \in A : \A y \in A : x <= y
  <2> HIDE DEF A
  <2> QED
    BY <1>1, Least
<1>3. PICK k \in T : x = MaxTime - k[1]
  BY <1>2
<1> DEFINE K == {n \in T : n[1] = k[1]}
           B == {FirstIndex + MaxRotations - n[2] : n \in K}
<1>4. \A n \in T : /\ n[1] \in Nat /\ n[2] \in 0..(FirstIndex + MaxRotations)
                   /\ n[1] <= k[1]
  <2> SUFFICES ASSUME NEW n \in T
               PROVE  /\ n[1] \in Nat /\ n[2] \in 0..(FirstIndex + MaxRotations)
                      /\ n[1] <= k[1]
    OBVIOUS
  <2>1. x <= MaxTime - n[1]
    BY <1>2
  <2>2. n[1] \in Nat /\ k[1] \in Nat /\ n[2] \in 0..(FirstIndex + MaxRotations) /\ MaxTime \in Nat
    BY Bounds DEF Name
  <2> QED
    BY <1>3, <2>1, <2>2
<1>5. B \subseteq Nat /\ B # {}
  <2>1. \A n \in K : FirstIndex + MaxRotations - n[2] \in Nat
    BY <1>4, Bounds
  <2>2. k \in K
    BY <1>3
  <2> HIDE DEF K
  <2> QED
    BY <2>1, <2>2
<1>6. PICK z \in B : \A y \in B : z <= y
  <2> HIDE DEF B
  <2> QED
    BY <1>5, Least
<1>7. PICK e \in K : z = FirstIndex + MaxRotations - e[2]
  <2> HIDE DEF K
  <2> QED
    BY <1>6
<1>8. \A m \in K : m[2] <= e[2]
  <2> SUFFICES ASSUME NEW m \in K PROVE m[2] <= e[2]
    OBVIOUS
  <2>1. z <= FirstIndex + MaxRotations - m[2]
    <3> HIDE DEF K
    <3> QED
      BY <1>6
  <2>2. m[2] \in Nat /\ e[2] \in Nat /\ FirstIndex \in Nat /\ MaxRotations \in Nat
    BY <1>4, <1>7, Bounds
  <2> DEFINE w == FirstIndex + MaxRotations
             p == m[2]
             q == e[2]
  <2>3. w \in Nat /\ p \in Nat /\ q \in Nat /\ w - q <= w - p
    BY <1>7, <2>1, <2>2
  <2>4. p <= q
    <3> HIDE DEF w, p, q
    <3> QED
      BY <2>3
  <2> QED
    BY <2>4
<1>9. \A m \in T : ~Before(e, m)
  <2> SUFFICES ASSUME NEW m \in T PROVE ~Before(e, m)
    OBVIOUS
  <2>1. m[1] <= e[1] /\ e[1] = k[1] /\ (m[1] = e[1] => m[2] <= e[2])
    BY <1>4, <1>7, <1>8
  <2>2. m[1] \in Nat /\ m[2] \in Nat /\ e[1] \in Nat /\ e[2] \in Nat
    BY <1>4, <1>7
  <2> QED
    BY <2>1, <2>2 DEF Before
<1> QED
  BY <1>7, <1>9

(* What a cleanup takes; what it leaves is younger, and among the youngest, *)
(* and of those over the count each has as many younger ones that stay.     *)
Out == Aged \cup Excess(Named \ Aged)

LEMMA CleanupKeeps ==
  ASSUME Typed, Times
  PROVE  /\ Out \subseteq Named
         /\ \A n \in Named \ Out : Cardinality(Later(n, Named)) < MaxArchived
         /\ \A n \in Named \ Out, d \in Out : Before(d, n)
         /\ \A n \in Excess(Named \ Aged) : Cardinality(Later(n, Named) \ Out) >= MaxArchived
<1> DEFINE R == Named \ Aged
<1>1. Out \subseteq Named /\ Named \subseteq Name /\ MaxArchived \in Nat
  BY Options DEF Out, Aged, Excess, Named
<1>2. \A n : n \in Excess(R) <=> n \in R /\ Cardinality(Later(n, R)) >= MaxArchived
  BY DEF Excess, Later
<1>3. \A n \in Name : \A S \in SUBSET Name : Cardinality(Later(n, S)) \in Nat
  <2> SUFFICES ASSUME NEW n \in Name, NEW S \in SUBSET Name PROVE Cardinality(Later(n, S)) \in Nat
    OBVIOUS
  <2>1. Later(n, S) \subseteq Name
    BY DEF Later
  <2> QED
    BY <2>1, Sizes
<1>4. \A n \in Named \ Out : Later(n, Named) = Later(n, R) /\ n \in R /\ n \notin Excess(R)
  BY OldestAged DEF Out, Later
<1>5. \A n \in Named \ Out : Cardinality(Later(n, Named)) < MaxArchived
  BY <1>1, <1>2, <1>3, <1>4
<1>6. ASSUME NEW n \in Named \ Out, NEW d \in Out
      PROVE  Before(d, n)
  <2>1. d \in Name /\ n \in Name /\ d # n
    BY <1>1, <1>6
  <2>2. SUFFICES ASSUME Before(n, d) PROVE FALSE
    BY <2>1, BeforeOrders
  <2>3. d \notin Aged
    BY <1>6, <2>2, OldestAged DEF Out
  <2>4. d \in Excess(R) /\ d \in R
    BY <1>2, <1>6, <2>3 DEF Out
  <2>5. Later(d, R) \subseteq Later(n, R) /\ Later(n, R) \subseteq Name
    BY <1>1, <2>1, <2>2, BeforeOrders DEF Later
  <2>6. Cardinality(Later(d, R)) <= Cardinality(Later(n, R)) /\ Cardinality(Later(d, R)) \in Nat
        /\ Cardinality(Later(n, R)) \in Nat
    BY <2>5, Sizes
  <2>7. n \in Excess(R)
    BY <1>1, <1>2, <1>4, <1>6, <2>4, <2>6
  <2> QED
    BY <1>6, <2>7 DEF Out
<1>7. ASSUME NEW n \in Excess(R)
      PROVE  Cardinality(Later(n, Named) \ Out) >= MaxArchived
  <2>1. Excess(R) \subseteq Name /\ Excess(R) # {}
    BY <1>1, <1>2, <1>7
  <2>2. PICK e \in Excess(R) : \A m \in Excess(R) : ~Before(e, m)
    BY <2>1, Youngest
  <2>3. e = n \/ Before(n, e)
    BY <1>7, <2>1, <2>2, BeforeOrders
  <2>4. Later(e, R) \subseteq Later(n, Named) \ Out
    <3> SUFFICES ASSUME NEW m \in R, Before(e, m)
                 PROVE  m \in Named /\ Before(n, m) /\ m \notin Out
      BY DEF Later
    <3>1. m \in Name /\ n \in Name /\ e \in Name
      BY <1>1, <2>1, <1>7
    <3> QED
      BY <2>2, <2>3, <3>1, BeforeOrders DEF Out
  <2>5. Later(n, Named) \ Out \subseteq Name
    BY <1>1 DEF Later
  <2>6. /\ Cardinality(Later(e, R)) <= Cardinality(Later(n, Named) \ Out)
        /\ Cardinality(Later(e, R)) \in Nat /\ Cardinality(Later(n, Named) \ Out) \in Nat
    BY <2>4, <2>5, Sizes
  <2>7. Cardinality(Later(e, R)) >= MaxArchived
    BY <1>2, <2>2
  <2> QED
    BY <1>1, <2>6, <2>7
<1> QED
  BY <1>1, <1>5, <1>6, <1>7

(* Expiry, in the form that the steps are shown to preserve.                *)
LEMMA ExpiryIs ==
  ASSUME Expiry
  PROVE  /\ \A x \in expired, y \in LineIds(active) : x < y
         /\ \A n \in Named : Cardinality(Later(n, Named)) < MaxArchived =>
              \A x \in expired, y \in Archive(n) : y \notin expired => x < y
         /\ engine.at = "reopen" =>
              \A n \in Name : \A x \in expired, y \in Archive(n) : y \notin expired => x < y
         /\ engine.at = "expire" => \A n \in Name : n \notin engine.aged \cup engine.excess =>
              /\ \A x \in expired, y \in Archive(n) : y \notin expired => x < y
              /\ \A d \in engine.aged \cup engine.excess :
                   \A x \in Archive(d), y \in Archive(n) : y \notin expired => x < y
         /\ engine.at = "expire" => \A n \in engine.excess :
              Cardinality(Later(n, Named) \ (engine.aged \cup engine.excess)) >= MaxArchived
BY DEF Expiry, Older, Due, Live

LEMMA ExpiryFrom ==
  ASSUME \A x \in expired', y \in LineIds(active') : x < y,
         \A n \in Named' : Cardinality(Later(n, Named')) < MaxArchived =>
           \A x \in expired', y \in Archive(n)' : y \notin expired' => x < y,
         engine'.at = "reopen" =>
           \A n \in Name : \A x \in expired', y \in Archive(n)' : y \notin expired' => x < y,
         engine'.at = "expire" => \A n \in Name : n \notin engine'.aged \cup engine'.excess =>
           /\ \A x \in expired', y \in Archive(n)' : y \notin expired' => x < y
           /\ \A d \in engine'.aged \cup engine'.excess :
                \A x \in Archive(d)', y \in Archive(n)' : y \notin expired' => x < y,
         engine'.at = "expire" => \A n \in engine'.excess :
           Cardinality(Later(n, Named') \ (engine'.aged \cup engine'.excess)) >= MaxArchived
  PROVE  Expiry'
BY DEF Expiry, Older, Due, Live, Later, LineIds, Archive

LEMMA ExpiryShrinks ==
  ASSUME Expiry, Shrinks, Named' = Named, expired' = expired, engine.aged \cup engine.excess \subseteq Name,
         \/ UNCHANGED engine
         \/ engine'.at \notin {"expire", "reopen"}
  PROVE  Expiry'
<1>1. \A x \in expired', y \in LineIds(active') : x < y
  <2>1. LineIds(active') \subseteq LineIds(active)
    BY DEF Shrinks, LineIds
  <2> QED
    BY <2>1, ExpiryIs
<1>2. \A n \in Named' : Cardinality(Later(n, Named')) < MaxArchived =>
        \A x \in expired', y \in Archive(n)' : y \notin expired' => x < y
  BY ExpiryIs DEF Shrinks, Named
<1>3. CASE engine'.at \notin {"expire", "reopen"}
  BY <1>1, <1>2, <1>3, ExpiryFrom
<1>4. CASE UNCHANGED engine
  <2>1. \A n \in Name : Archive(n)' \subseteq Archive(n)
    BY DEF Shrinks
  <2>2. engine'.at = "reopen" =>
          \A n \in Name : \A x \in expired', y \in Archive(n)' : y \notin expired' => x < y
    BY <1>4, <2>1, ExpiryIs
  <2>3. engine'.at = "expire" => \A n \in Name : n \notin engine'.aged \cup engine'.excess =>
          /\ \A x \in expired', y \in Archive(n)' : y \notin expired' => x < y
          /\ \A d \in engine'.aged \cup engine'.excess :
               \A x \in Archive(d)', y \in Archive(n)' : y \notin expired' => x < y
    BY <1>4, <2>1, ExpiryIs
  <2>4. engine'.at = "expire" => \A n \in engine'.excess :
          Cardinality(Later(n, Named') \ (engine'.aged \cup engine'.excess)) >= MaxArchived
    BY <1>4, ExpiryIs
  <2> QED
    BY <1>1, <1>2, <2>2, <2>3, <2>4, ExpiryFrom
<1> QED
  BY <1>3, <1>4

LEMMA ExpiryWriteBegins ==
  ASSUME Typed, Files, Expiry, WriteBegins
  PROVE  Expiry'
<1>1. /\ LineIds(active') = LineIds(active) \cup {written + 1} /\ engine'.at = "writing"
      /\ UNCHANGED <<plain, gz, expired>>
  BY WriteBeginsEffect DEF Typed
<1>2. expired \subseteq 1..written /\ written \in Nat
  BY DEF Typed
<1>3. Named' = Named /\ \A n \in Name : Archive(n)' = Archive(n)
  BY <1>1 DEF Named, Archive, LineIds
<1>4. \A x \in expired', y \in LineIds(active') : x < y
  BY <1>1, <1>2, ExpiryIs
<1>5. \A n \in Named' : Cardinality(Later(n, Named')) < MaxArchived =>
        \A x \in expired', y \in Archive(n)' : y \notin expired' => x < y
  BY <1>1, <1>3, ExpiryIs DEF Named
<1> QED
  BY <1>1, <1>4, <1>5, ExpiryFrom

(* A segment that gains younger ones may move out of the count, none moves  *)
(* into it; the new segment has the records of the active log.              *)
LEMMA ExpiryRotate ==
  ASSUME Typed, Files, Ordered, Expiry, RotateRename
  PROVE  Expiry'
<1>1. /\ Fresh \in Name /\ active' = None /\ gz[Fresh] = None /\ plain[Fresh] = None
      /\ engine'.at \in {"gzip", "cleanup"}
      /\ plain'[Fresh] = active /\ \A n \in Name : n # Fresh => plain'[n] = plain[n]
      /\ UNCHANGED <<gz, expired>>
  BY RotateEffect
<1>2. \A n \in Name : Archive(n)' = LineIds(plain'[n]) \cup LineIds(gz'[n])
  BY DEF Archive, LineIds
<1>3. \A n \in Name : n # Fresh => Archive(n)' = Archive(n)
  BY <1>1, <1>2 DEF Archive
<1>4. \A n \in Name : n = Fresh => Archive(n)' = LineIds(active)
  BY <1>1, <1>2, NoneIs
<1>5. Named \subseteq Named' /\ Named' \subseteq Named \cup {Fresh} /\ Named' \subseteq Name
  <2>1. ~None.present
    BY FileIs
  <2> QED
    BY <1>1, <2>1 DEF Named
<1>6. LineIds(active') = {}
  BY <1>1, NoneIs
<1>7. ASSUME NEW n \in Named', Cardinality(Later(n, Named')) < MaxArchived
      PROVE  \A x \in expired', y \in Archive(n)' : y \notin expired' => x < y
  <2>1. CASE n = Fresh
    BY <1>1, <1>4, <2>1, ExpiryIs
  <2>2. CASE n # Fresh
    <3>1. n \in Named /\ n \in Name
      BY <1>5, <1>7, <2>2
    <3>2. Later(n, Named) \subseteq Later(n, Named') /\ Later(n, Named') \subseteq Name
      BY <1>5 DEF Later
    <3>3. /\ Cardinality(Later(n, Named)) \in Nat /\ Cardinality(Later(n, Named')) \in Nat
          /\ Cardinality(Later(n, Named)) <= Cardinality(Later(n, Named'))
      BY <3>2, Sizes
    <3>4. Cardinality(Later(n, Named)) < MaxArchived
      BY <1>7, <3>3, Options
    <3> QED
      BY <1>1, <1>3, <2>2, <3>1, <3>4, ExpiryIs
  <2> QED
    BY <2>1, <2>2
<1> QED
  BY <1>1, <1>6, <1>7, ExpiryFrom

LEMMA ExpiryLists ==
  ASSUME Typed, Files, Ordered, Times, Expiry, CleanupLists
  PROVE  Expiry'
<1> DEFINE a == Aged
           e == Excess(Named \ Aged)
<1>1. /\ engine' = [engine EXCEPT !.at = "expire", !.aged = a, !.excess = e]
      /\ UNCHANGED <<active, plain, gz, expired>>
  BY DEF CleanupLists, diskVars
<1>2. Out = a \cup e
  BY DEF Out
<1> HIDE DEF a, e
<1>3. engine'.at = "expire" /\ engine'.aged \cup engine'.excess = Out /\ engine'.excess = e
  BY <1>1, <1>2 DEF Typed
<1>4. Named' = Named /\ Named \subseteq Name /\ \A n \in Name : Archive(n)' = Archive(n)
  BY <1>1 DEF Named, Archive, LineIds
<1>5. LineIds(active') = LineIds(active)
  BY <1>1
<1>6. \A n \in Name : n \notin Named => Archive(n) = {}
  BY ArchiveIds
<1>7. ASSUME NEW n \in Name, n \notin Out
      PROVE  /\ \A x \in expired, y \in Archive(n) : y \notin expired => x < y
             /\ \A d \in Out : \A x \in Archive(d), y \in Archive(n) : y \notin expired => x < y
  <2>1. CASE n \notin Named
    BY <1>6, <2>1
  <2>2. CASE n \in Named
    <3>1. Cardinality(Later(n, Named)) < MaxArchived /\ \A d \in Out : Before(d, n) /\ d \in Name
      BY <1>4, <1>7, <2>2, CleanupKeeps
    <3>2. \A d \in Out : Older(Archive(d), Archive(n))
      BY <3>1 DEF Ordered
    <3> QED
      BY <2>2, <3>1, <3>2, ExpiryIs DEF Older
  <2> QED
    BY <2>1, <2>2
<1>8. \A n \in e : Cardinality(Later(n, Named) \ Out) >= MaxArchived
  BY CleanupKeeps DEF e
<1>9. \A n \in Named' : Cardinality(Later(n, Named')) < MaxArchived =>
        \A x \in expired', y \in Archive(n)' : y \notin expired' => x < y
  BY <1>1, <1>4, ExpiryIs
<1>10. \A x \in expired', y \in LineIds(active') : x < y
  BY <1>1, <1>5, ExpiryIs
<1>11. \A n \in Name : n \notin engine'.aged \cup engine'.excess =>
         /\ \A x \in expired', y \in Archive(n)' : y \notin expired' => x < y
         /\ \A d \in engine'.aged \cup engine'.excess :
              \A x \in Archive(d)', y \in Archive(n)' : y \notin expired' => x < y
  <2>1. Out \subseteq Name
    BY <1>4, CleanupKeeps
  <2> QED
    BY <1>1, <1>3, <1>4, <1>7, <2>1
<1>12. \A n \in engine'.excess :
         Cardinality(Later(n, Named') \ (engine'.aged \cup engine'.excess)) >= MaxArchived
  BY <1>3, <1>4, <1>8
<1> QED
  BY <1>3, <1>9, <1>10, <1>11, <1>12, ExpiryFrom

(* Of the segments that are due the aged go first, the oldest of them       *)
(* before the others; one over the count stays over it.                     *)
LEMMA ExpiryRemove ==
  ASSUME Typed, Files, Ordered, Twins, Expiry, NEW d \in Name, Remove(d)
  PROVE  Expiry'
<1> DEFINE due == engine.aged \cup engine.excess
<1>1. /\ engine.at = "expire" /\ engine'.at = "expire"
      /\ engine'.aged = engine.aged \ {d} /\ engine'.excess = engine.excess \ {d}
      /\ d \in due /\ Goes(d)
      /\ \A n \in Name : n # d => plain'[n] = plain[n] /\ gz'[n] = gz[n]
      /\ plain'[d] = None /\ gz'[d] = IF plain[d].present THEN gz[d] ELSE None
      /\ expired' = expired \cup Ids(plain[d]) \cup Ids(gz[d])
      /\ UNCHANGED active
  BY RemoveEffect DEF Due
<1>2. engine'.aged \cup engine'.excess = due \ {d} /\ due \subseteq Name
  BY <1>1 DEF Typed
<1>3. expired' = expired \cup Archive(d)
  BY <1>1, ArchiveIds
<1>4. \A n \in Name : Archive(n)' \subseteq Archive(n)
  BY ShrinkSteps DEF Shrinks, Removal
<1>5. Named' \subseteq Named /\ Named \subseteq Named' \cup {d} /\ Named \subseteq Name
  <2>1. ~None.present
    BY FileIs
  <2> QED
    BY <1>1, <2>1 DEF Named
<1>6. LineIds(active') = {}
  <2>1. active = None
    BY <1>1 DEF Files, Working
  <2> QED
    BY <1>1, <2>1, NoneIs
<1> HIDE DEF due
<1>7. ASSUME NEW n \in Name, n \notin due \ {d}
      PROVE  /\ \A x \in expired', y \in Archive(n)' : y \notin expired' => x < y
             /\ \A c \in due \ {d} :
                  \A x \in Archive(c)', y \in Archive(n)' : y \notin expired' => x < y
  <2>1. CASE n = d
    BY <1>3, <1>4, <2>1
  <2>2. CASE n # d
    <3>1. /\ \A x \in expired, y \in Archive(n) : y \notin expired => x < y
          /\ \A c \in due : \A x \in Archive(c), y \in Archive(n) : y \notin expired => x < y
      BY <1>1, <1>7, <2>2, ExpiryIs DEF due
    <3> QED
      BY <1>1, <1>2, <1>3, <1>4, <3>1
  <2> QED
    BY <2>1, <2>2
<1>8. ASSUME NEW n \in engine.excess \ {d}
      PROVE  /\ Cardinality(Later(n, Named') \ (due \ {d})) >= MaxArchived
             /\ Cardinality(Later(n, Named')) >= MaxArchived
  <2>1. Cardinality(Later(n, Named) \ due) >= MaxArchived
    BY <1>1, ExpiryIs DEF due
  <2>2. /\ Later(n, Named) \ due \subseteq Later(n, Named') \ (due \ {d})
        /\ Later(n, Named') \ (due \ {d}) \subseteq Name
        /\ Later(n, Named) \ due \subseteq Later(n, Named') /\ Later(n, Named') \subseteq Name
    BY <1>1, <1>5 DEF Later
  <2>3. /\ Cardinality(Later(n, Named) \ due) <= Cardinality(Later(n, Named') \ (due \ {d}))
        /\ Cardinality(Later(n, Named) \ due) \in Nat
        /\ Cardinality(Later(n, Named') \ (due \ {d})) \in Nat
    BY <2>2, Sizes
  <2>4. /\ Cardinality(Later(n, Named) \ due) <= Cardinality(Later(n, Named'))
        /\ Cardinality(Later(n, Named')) \in Nat
    BY <2>2, Sizes
  <2> QED
    BY <2>1, <2>3, <2>4, Options
<1>9. ASSUME NEW n \in Named', Cardinality(Later(n, Named')) < MaxArchived
      PROVE  \A x \in expired', y \in Archive(n)' : y \notin expired' => x < y
  <2>1. n \in Named /\ n \in Name /\ Cardinality(Later(n, Named')) \in Nat
    <3>1. Later(n, Named') \subseteq Name
      BY <1>5 DEF Later
    <3> QED
      BY <1>5, <1>9, <3>1, Sizes
  <2>2. n \notin engine.excess \ {d}
    <3> SUFFICES ASSUME n \in engine.excess \ {d} PROVE FALSE
      OBVIOUS
    <3>1. Cardinality(Later(n, Named')) >= MaxArchived
      BY <1>8
    <3> QED
      BY <1>9, <2>1, <3>1, Options
  <2>3. CASE n \notin due \ {d}
    BY <1>7, <2>1, <2>3
  <2>4. CASE n \in engine.aged /\ n # d
    <3>1. d \in engine.aged /\ ~Before(n, d)
      BY <1>1, <2>4 DEF Goes
    <3>2. Before(d, n)
      BY <2>1, <2>4, <3>1, BeforeOrders
    <3>3. Later(n, Named) \subseteq Later(n, Named')
      BY <1>5, <2>1, <3>1 DEF Later
    <3>4. /\ Cardinality(Later(n, Named)) \in Nat
          /\ Cardinality(Later(n, Named)) <= Cardinality(Later(n, Named'))
      <4>1. Later(n, Named') \subseteq Name
        BY <1>5 DEF Later
      <4> QED
        BY <3>3, <4>1, Sizes
    <3>5. Cardinality(Later(n, Named)) < MaxArchived
      BY <1>9, <2>1, <3>4, Options
    <3>6. \A x \in expired, y \in Archive(n) : y \notin expired => x < y
      BY <2>1, <3>5, ExpiryIs
    <3>7. \A x \in Archive(d), y \in Archive(n) : x < y
      BY <2>1, <3>2 DEF Ordered, Older
    <3> QED
      BY <1>3, <1>4, <2>1, <3>6, <3>7
  <2> QED
    BY <2>2, <2>3, <2>4 DEF due
<1>10. \A x \in expired', y \in LineIds(active') : x < y
  BY <1>6
<1>11. engine'.at = "expire" => \A n \in Name : n \notin engine'.aged \cup engine'.excess =>
         /\ \A x \in expired', y \in Archive(n)' : y \notin expired' => x < y
         /\ \A c \in engine'.aged \cup engine'.excess :
              \A x \in Archive(c)', y \in Archive(n)' : y \notin expired' => x < y
  BY <1>2, <1>7
<1>12. engine'.at = "expire" => \A n \in engine'.excess :
         Cardinality(Later(n, Named') \ (engine'.aged \cup engine'.excess)) >= MaxArchived
  BY <1>1, <1>2, <1>8
<1> QED
  BY <1>1, <1>9, <1>10, <1>11, <1>12, ExpiryFrom

LEMMA ExpiryEnds ==
  ASSUME Typed, Files, Expiry, CleanupEnds
  PROVE  Expiry'
<1>1. /\ engine.at = "expire" /\ engine.aged \cup engine.excess = {} /\ engine'.at = "reopen"
      /\ UNCHANGED <<active, plain, gz, expired>>
  BY DEF CleanupEnds, At, Go, Typed, diskVars
<1>2. Named' = Named /\ Named \subseteq Name /\ \A n \in Name : Archive(n)' = Archive(n)
  BY <1>1 DEF Named, Archive, LineIds
<1>3. LineIds(active') = LineIds(active)
  BY <1>1
<1>4. \A n \in Name : \A x \in expired', y \in Archive(n)' : y \notin expired' => x < y
  BY <1>1, <1>2, ExpiryIs
<1>5. \A x \in expired', y \in LineIds(active') : x < y
  BY <1>1, <1>3, ExpiryIs
<1> QED
  BY <1>1, <1>2, <1>4, <1>5, ExpiryFrom

LEMMA ExpiryEngine ==
  ASSUME Typed, Files, Ordered, Twins, Times, Expiry, EngineStep
  PROVE  Expiry'
<1>1. CASE \/ WriteEnds \/ GzipRename \/ GzipRemove \/ RotationFails \/ Reopen \/ Crash \/ Tick
           \/ \E checkpoint \in BOOLEAN : Boot(checkpoint)
  <2>1. Shrinks
    BY <1>1, ShrinkSteps DEF Quiet
  <2>2. expired' = expired
    BY <1>1, BootEffect DEF WriteEnds, GzipRename, GzipRemove, RotationFails, Reopen, Crash, Tick
  <2>3. engine'.at \notin {"expire", "reopen"}
    <3>1. CASE WriteEnds \/ GzipRename \/ GzipRemove
      BY <3>1 DEF WriteEnds, GzipRename, GzipRemove, At, Go, Typed
    <3>2. CASE RotationFails \/ Reopen \/ Crash \/ Tick
      BY <3>2 DEF RotationFails, Reopen, Crash, Tick, At, Go, Typed
    <3>3. CASE \E checkpoint \in BOOLEAN : Boot(checkpoint)
      BY <3>3 DEF Boot, Go, Typed
    <3> QED
      BY <1>1, <3>1, <3>2, <3>3
  <2>4. Named' = Named
    <3>1. CASE WriteEnds \/ RotationFails \/ Reopen \/ Crash \/ Tick
      <4>1. UNCHANGED <<plain, gz>>
        BY <3>1 DEF WriteEnds, RotationFails, Reopen, Crash, Tick, diskVars
      <4> QED
        BY <4>1 DEF Named
    <3>2. CASE \E checkpoint \in BOOLEAN : Boot(checkpoint)
      BY <3>2, BootEffect DEF Named
    <3>3. CASE GzipRename
      <4>1. LET m == engine.name IN
            /\ m \in Name /\ plain[m].present /\ \A n \in Name : n # m => gz'[n] = gz[n]
            /\ UNCHANGED plain
        BY <3>3, GzipEffect
      <4> QED
        BY <4>1 DEF Named
    <3>4. CASE GzipRemove
      <4>1. /\ engine.at = "remove" /\ plain' = [plain EXCEPT ![engine.name] = None] /\ UNCHANGED gz
        BY <3>4 DEF GzipRemove, At
      <4>2. gz[engine.name].present /\ ~None.present
        BY <4>1, FileIs DEF Twins
      <4>3. \A n \in Name : n # engine.name => plain'[n] = plain[n]
        BY <4>1 DEF Typed
      <4>4. \A n \in Name : plain'[n].present \/ gz'[n].present <=> plain[n].present \/ gz[n].present
        BY <4>1, <4>2, <4>3 DEF Typed
      <4> QED
        BY <4>4 DEF Named
    <3> QED
      BY <1>1, <3>1, <3>2, <3>3, <3>4
  <2>5. engine.aged \cup engine.excess \subseteq Name
    BY DEF Typed
  <2> QED
    BY <2>1, <2>2, <2>3, <2>4, <2>5, ExpiryShrinks
<1> QED
  BY <1>1, ExpiryWriteBegins, ExpiryRotate, ExpiryLists, ExpiryRemove, ExpiryEnds DEF EngineStep

-----------------------------------------------------------------------------
(* The lines of the active log are what the encoder wrote.                  *)
LEMMA EncodedEngine ==
  ASSUME Typed, Files, Encoded, EngineStep
  PROVE  Encoded'
<1>1. CASE WriteBegins
  <2>1. PICK e \in AnyEntry : ~e.whole /\ active'.lines = Append(active.lines, e)
    BY <1>1, WriteBeginsEffect
  <2>2. active.lines \in Seq(AnyEntry) /\ UNCHANGED config
    BY <1>1, WriteBeginsEffect DEF Typed, AnyFile
  <2>3. /\ DOMAIN active'.lines = 1..(Len(active.lines) + 1) /\ active'.lines[Len(active.lines) + 1] = e
        /\ DOMAIN active.lines = 1..Len(active.lines) /\ Len(active.lines) \in Nat
        /\ \A i \in 1..Len(active.lines) : active'.lines[i] = active.lines[i]
    BY <2>1, <2>2, AppendIs
  <2>4. \A i \in DOMAIN active'.lines : active'.lines[i].whole => i \in DOMAIN active.lines
    BY <2>1, <2>3
  <2> QED
    BY <2>2, <2>3, <2>4 DEF Encoded, LineOf
<1>2. CASE WriteEnds
  <2>1. PICK n \in 0..Len(active.lines) :
          active'.lines = Append(SubSeq(active.lines, 1, n), Entry(written))
    BY <1>2, WriteEndsEffect
  <2>2. active.lines \in Seq(AnyEntry) /\ UNCHANGED config /\ written \in Records
    BY <1>2, WriteEndsEffect, Bounds DEF Typed, AnyFile
  <2> DEFINE head == SubSeq(active.lines, 1, n)
             e == Entry(written)
  <2>3. /\ e \in AnyEntry /\ e.id = written /\ e.seq = sequence
        /\ e.line = LineOf(config.codec, written, sequence)
    BY <2>2, EntryIs
  <2>4. /\ head \in Seq(AnyEntry) /\ Len(head) = n
        /\ \A i \in 1..n : head[i] = active.lines[i] /\ i \in DOMAIN active.lines
    BY <2>2, Prefix
  <2>5. active'.lines = Append(head, e)
    BY <2>1
  <2> HIDE DEF head, e
  <2>6. /\ DOMAIN active'.lines = 1..(n + 1) /\ active'.lines[n + 1] = e
        /\ \A i \in 1..n : active'.lines[i] = head[i]
    BY <2>3, <2>4, <2>5, AppendIs
  <2>7. SUFFICES ASSUME NEW i \in DOMAIN active'.lines, active'.lines[i].whole
                 PROVE  active'.lines[i].line =
                          LineOf(config.codec, active'.lines[i].id, active'.lines[i].seq)
    BY <2>2 DEF Encoded, LineOf
  <2>8. CASE i = n + 1
    BY <2>3, <2>6, <2>8
  <2>9. CASE i \in 1..n
    BY <2>4, <2>6, <2>7, <2>9 DEF Encoded
  <2> QED
    BY <2>6, <2>8, <2>9
<1>3. CASE RotateRename \/ GzipRename \/ GzipRemove \/ Reopen
  <2>1. active'.lines = <<>> \/ UNCHANGED active
    BY <1>3, ReopenEffect, FileIs DEF RotateRename, GzipRename, GzipRemove
  <2>2. UNCHANGED config
    BY <1>3 DEF RotateRename, GzipRename, GzipRemove, Reopen
  <2> QED
    BY <2>1, <2>2 DEF Encoded, LineOf
<1>6. CASE Removal
  <2>1. UNCHANGED <<active, config>>
    BY <1>6, RemoveEffect DEF Removal
  <2> QED
    BY <2>1 DEF Encoded, LineOf
<1>4. CASE Quiet \/ Crash \/ Tick
  <2>1. UNCHANGED <<active, config>>
    BY <1>4, QuietEffect DEF Crash, Tick, diskVars
  <2> QED
    BY <2>1 DEF Encoded, LineOf
<1>5. CASE \E checkpoint \in BOOLEAN : Boot(checkpoint)
  <2>1. /\ UNCHANGED config
        /\ \E n \in 0..Len(active.lines) : active'.lines = SubSeq(active.lines, 1, n)
    BY <1>5, BootEffect
  <2>2. PICK n \in 0..Len(active.lines) : active'.lines = SubSeq(active.lines, 1, n)
    BY <2>1
  <2>3. active.lines \in Seq(AnyEntry)
    BY DEF Typed, AnyFile
  <2>4. /\ DOMAIN active'.lines = 1..n
        /\ \A i \in 1..n : active'.lines[i] = active.lines[i] /\ i \in DOMAIN active.lines
    BY <2>2, <2>3, Prefix
  <2> QED
    BY <2>1, <2>4 DEF Encoded, LineOf
<1> QED
  BY <1>1, <1>2, <1>3, <1>4, <1>5, <1>6, EngineSteps

-----------------------------------------------------------------------------
(* Recovery cuts off no whole line that the codec can bring back.           *)
Restorable == \A id \in 1..written : CodecRestores(id)

LEMMA WrittenGrows ==
  ASSUME Typed, EngineStep
  PROVE  /\ written' \in Nat /\ written \in Nat /\ written <= written'
         /\ finished \subseteq finished' /\ UNCHANGED config
<1>1. CASE WriteBegins
  BY <1>1 DEF Typed, WriteBegins
<1>2. CASE WriteEnds \/ RotateRename \/ GzipRename \/ GzipRemove
  BY <1>2 DEF Typed, WriteEnds, RotateRename, GzipRename, GzipRemove
<1>3. CASE Removal
  <2>1. PICK d \in Name : Remove(d)
    BY <1>3 DEF Removal
  <2>2. UNCHANGED <<config, written, finished>>
    BY <2>1, RemoveEffect
  <2> QED
    BY <2>2 DEF Typed
<1>4. CASE Quiet
  BY <1>4, QuietEffect DEF Typed
<1>5. CASE Reopen \/ Crash \/ Tick
  BY <1>5 DEF Typed, Reopen, Crash, Tick
<1>6. CASE \E checkpoint \in BOOLEAN : Boot(checkpoint)
  BY <1>6 DEF Typed, Boot
<1> QED
  BY <1>1, <1>2, <1>3, <1>4, <1>5, <1>6, EngineSteps

LEMMA UncutEngine ==
  ASSUME Typed, Files, Encoded, Uncut, EngineStep, UNCHANGED broken
  PROVE  Uncut'
<1>1. /\ written' \in Nat /\ written \in Nat /\ written <= written' /\ UNCHANGED config
  BY WrittenGrows
<1>2. Restorable' => Restorable
  <2>1. \A id : CodecRestores(id)' <=> CodecRestores(id)
    BY <1>1, Zenon DEF CodecRestores
  <2>2. 1..written \subseteq 1..written'
    BY <1>1
  <2> QED
    BY <2>1, <2>2 DEF Restorable
<1>3. broken' = 0 /\ Restorable' => cut = {}
  BY <1>2 DEF Uncut, Restorable
<1>4. SUFFICES broken' = 0 /\ Restorable' => cut' = cut
  BY <1>3 DEF Uncut, Restorable
<1>5. CASE \E checkpoint \in BOOLEAN : Boot(checkpoint)
  <2>1. PICK checkpoint \in BOOLEAN : Boot(checkpoint)
    BY <1>5
  <2>2. PICK n \in 0..Len(active.lines) :
          /\ active'.lines = SubSeq(active.lines, 1, n)
          /\ (\A i \in DOMAIN active.lines : active.lines[i].whole => Verifies(active.lines[i].line))
               => \A i \in DOMAIN active.lines : active.lines[i].whole => i <= n
    BY <2>1, BootEffect
  <2>3. cut' = cut \cup (Ids(active) \ Ids(active'))
    BY <2>1, BootEffect
  <2>4. SUFFICES ASSUME Restorable PROVE Ids(active) \subseteq Ids(active')
    BY <1>2, <2>3
  <2>5. active.lines \in Seq(AnyEntry) /\ config.codec \in CodecConfig
    BY Options DEF Typed, AnyFile
  <2>6. ASSUME NEW i \in DOMAIN active.lines, active.lines[i].whole
        PROVE  Verifies(active.lines[i].line)
    <3> DEFINE id == active.lines[i].id
    <3>1. id \in 1..written /\ written <= Len(Payload)
      BY DEF Files, InOrder, Sound, Typed
    <3>2. id \in Records /\ active.lines[i].seq \in Nat
      BY <2>5, <3>1, EntryAt, Bounds DEF Typed
    <3>3. CodecRestores(id)
      BY <2>4, <3>1 DEF Restorable
    <3>4. /\ config.codec.crc = "header" => config.codec.fields # {}
          /\ ~Structured(config.codec) => Unlike(id)
      BY <3>3, Zenon DEF CodecRestores, Unlike
    <3>5. active.lines[i].line = LineOf(config.codec, id, active.lines[i].seq)
      BY <2>6 DEF Encoded
    <3> QED
      BY <2>5, <3>2, <3>4, <3>5, EncodedVerifies
  <2>7. \A i \in DOMAIN active.lines : active.lines[i].whole => i <= n
    BY <2>2, <2>6
  <2>8. /\ DOMAIN active'.lines = 1..n
        /\ \A i \in 1..n : active'.lines[i] = active.lines[i] /\ i \in DOMAIN active.lines
        /\ DOMAIN active.lines = 1..Len(active.lines) /\ Len(active.lines) \in Nat
    BY <2>2, <2>5, Prefix
  <2>9. \A i \in DOMAIN active.lines : active.lines[i].whole =>
          i \in DOMAIN active'.lines /\ active'.lines[i] = active.lines[i]
    BY <2>7, <2>8
  <2> QED
    BY <2>9 DEF Ids
<1>6. CASE Removal \/ Quiet
  BY <1>6, RemoveEffect, QuietEffect DEF Removal
<1>7. CASE \/ WriteBegins \/ WriteEnds \/ RotateRename \/ GzipRename \/ GzipRemove
           \/ Reopen \/ Crash \/ Tick
  BY <1>7 DEF WriteBegins, WriteEnds, RotateRename, GzipRename, GzipRemove, Reopen, Crash, Tick
<1> QED
  BY <1>5, <1>6, <1>7, EngineSteps

LEMMA DiskEngine ==
  ASSUME DiskInv, EngineStep
  PROVE  DiskInv'
BY TypedEngine, FilesEngine, OrderedEngine, TwinsEngine, TimesEngine, NothingEngine, ExpiryEngine,
   EncodedEngine DEF DiskInv

-----------------------------------------------------------------------------
(* A damaged segment loses its end.                                         *)
LEMMA DamageEffect ==
  ASSUME Typed, Files, NEW n \in Name, NEW keep \in 0..(Len(gz[n].lines) - 1), Damage(n, keep)
  PROVE  /\ UNCHANGED <<config, active, plain, engine, sequence, rotation, clock, written, finished,
                        expired, crashes, rotations, reader, corrupted>>
         /\ gz' \in [Name -> AnyFile] /\ gz[n].present
         /\ gz'[n].present /\ gz'[n].mtime = gz[n].mtime
         /\ Sound(gz'[n], written, finished) /\ Archived(gz'[n])
         /\ LineIds(gz'[n]) \subseteq LineIds(gz[n]) /\ LineIds(gz[n]) = Ids(gz[n])
         /\ keep \in 0..Len(gz[n].lines) /\ gz'[n].lines = SubSeq(gz[n].lines, 1, keep)
         /\ \A m \in Name : m # n => gz'[m] = gz[m]
         /\ cut \subseteq cut' /\ cut' \subseteq finished /\ Ids(gz[n]) \subseteq Ids(gz'[n]) \cup cut'
         /\ owed' \subseteq owed /\ broken' = broken + 1
<1> DEFINE f == gz[n]
           g == gz'[n]
<1>1. /\ UNCHANGED <<config, active, plain, engine, sequence, rotation, clock, written, finished,
                     expired, crashes, rotations, reader, corrupted>>
      /\ f.present
      /\ gz' = [gz EXCEPT ![n].lines = SubSeq(gz[n].lines, 1, keep), ![n].intact = FALSE]
      /\ cut' = cut \cup Moved /\ owed' = owed \ Moved /\ broken' = broken + 1
  <2>1. gz' = [gz EXCEPT ![n].lines = SubSeq(gz[n].lines, 1, keep), ![n].intact = FALSE]
    BY DEF Damage
  <2>2. cut' = cut \cup Moved /\ owed' = owed \ Moved /\ broken' = broken + 1 /\ gz[n].present
    BY DEF Damage
  <2>3. UNCHANGED <<config, active, plain, engine, sequence, rotation, clock, written, finished,
                    expired, crashes, rotations, reader, corrupted>>
    BY DEF Damage
  <2> QED
    BY <2>1, <2>2, <2>3
<1>2. f \in AnyFile /\ gz \in [Name -> AnyFile]
  BY DEF Typed
<1>3. f.lines \in Seq(AnyEntry) /\ keep \in 0..Len(f.lines)
  <2>1. f.lines \in Seq(AnyEntry)
    BY <1>2 DEF AnyFile
  <2>2. Len(f.lines) \in Nat
    BY <2>1
  <2> QED
    BY <2>1, <2>2
<1>4. SubSeq(f.lines, 1, keep) \in Seq(AnyEntry)
  BY <1>3, Prefix
<1>5. /\ g \in AnyFile /\ g.present = f.present /\ g.mtime = f.mtime
      /\ g.lines = SubSeq(f.lines, 1, keep)
      /\ gz' \in [Name -> AnyFile] /\ \A m \in Name : m # n => gz'[m] = gz[m]
  BY <1>1, <1>2, <1>4 DEF AnyFile
<1>6. Sound(f, written, finished) /\ Archived(f) /\ written \in Nat
  BY ArchiveFiles
<1> HIDE DEF f, g
<1>7. gz'[n] = g
  BY DEF g
<1>8. Sound(g, written, finished) /\ LineIds(g) \subseteq LineIds(f) /\ Archived(g)
  BY <1>1, <1>2, <1>3, <1>5, <1>6, SoundPrefix
<1>9. LineIds(f) = Ids(f)
  BY <1>6, IdsAre
<1>10. Ids(f) \ Ids(g) \subseteq Moved
  <2>1. \A x \in Ids(gz[n]) \ Ids(gz'[n]) : x \in Moved
    BY DEF Moved
  <2> QED
    BY <1>7, <2>1 DEF f
<1>11. Moved \subseteq finished
  <2>1. \A m \in Name : Ids(plain[m]) \subseteq finished /\ Ids(gz[m]) \subseteq finished
    BY IdsAre DEF Files
  <2>2. Ids(active) \subseteq finished
    BY IdsAre DEF Files
  <2> QED
    BY <2>1, <2>2 DEF Moved
<1>12. cut \subseteq finished
  BY DEF Typed
<1> QED
  BY <1>1, <1>3, <1>5, <1>7, <1>8, <1>9, <1>10, <1>11, <1>12 DEF f, g

LEMMA DiskDamage ==
  ASSUME DiskInv, NEW n \in Name, NEW keep \in 0..(Len(gz[n].lines) - 1), Damage(n, keep)
  PROVE  DiskInv'
<1>1. Typed /\ Files /\ Ordered /\ Twins /\ Times /\ NothingLost /\ Expiry /\ Encoded
  BY DEF DiskInv
<1>2. /\ UNCHANGED <<config, active, plain, engine, sequence, rotation, clock, written, finished,
                     expired, crashes, rotations, reader, corrupted>>
      /\ gz' \in [Name -> AnyFile] /\ gz[n].present
      /\ gz'[n].present /\ gz'[n].mtime = gz[n].mtime
      /\ Sound(gz'[n], written, finished) /\ Archived(gz'[n])
      /\ LineIds(gz'[n]) \subseteq LineIds(gz[n]) /\ LineIds(gz[n]) = Ids(gz[n])
      /\ \A m \in Name : m # n => gz'[m] = gz[m]
      /\ cut \subseteq cut' /\ cut' \subseteq finished /\ Ids(gz[n]) \subseteq Ids(gz'[n]) \cup cut'
  BY <1>1, DamageEffect
<1>3. Typed'
  BY <1>1, <1>2 DEF Typed, Working, Failed
<1>4. Files'
  <2>1. \A m \in Name : Sound(plain'[m], written', finished') /\ Sound(gz'[m], written', finished')
    BY <1>1, <1>2, ArchiveFiles
  <2>2. \A m \in Name : Archived(plain'[m]) /\ Archived(gz'[m])
    BY <1>1, <1>2, ArchiveFiles
  <2>3. Sound(active', written', finished')
    BY <1>1, <1>2, ArchiveFiles
  <2>4. /\ \A i \in DOMAIN active'.lines : ~active'.lines[i].whole =>
             i = Len(active'.lines) /\ engine'.at \in {"writing", "down"}
        /\ engine'.at \in {"idle", "writing"} => active'.present
        /\ engine'.at = "writing" =>
             /\ active'.lines # <<>> /\ ~active'.lines[Len(active'.lines)].whole
             /\ active'.lines[Len(active'.lines)].id = written' /\ written' \notin finished'
        /\ engine'.at \in {"gzip", "remove", "cleanup", "expire", "reopen"} =>
             engine'.name = <<clock', rotation'>>
        /\ engine'.at \in {"gzip", "remove", "cleanup", "expire", "reopen", "failed"} => active' = None
    BY <1>1, <1>2 DEF Files, Working, Failed, Fresh
  <2> QED
    BY <2>1, <2>2, <2>3, <2>4, FilesFrom
<1>5. Shrinks
  <2>1. \A m \in Name : LineIds(plain'[m]) \cup LineIds(gz'[m]) \subseteq Archive(m)
    BY <1>2 DEF Archive
  <2>2. \A m \in Name : plain'[m].present \/ gz'[m].present => plain[m].present \/ gz[m].present
    BY <1>2
  <2> QED
    BY <1>2, <2>1, <2>2, ShrinksFrom
<1>6. Ordered'
  <2>1. \A m \in Name : Used(m) => Used(m)'
    BY <1>2 DEF Used, Working, Fresh
  <2> QED
    BY <1>1, <1>5, <2>1, OrderedShrinks
<1>7. Twins'
  <2>1. engine'.at = "gzip" => plain'[engine'.name].present /\ ~gz'[engine'.name].present
    <3>1. engine.at = "gzip" => engine.name # n /\ gz'[engine.name] = gz[engine.name]
      BY <1>1, <1>2 DEF Twins, Typed
    <3> QED
      BY <1>1, <1>2, <3>1 DEF Twins
  <2>2. engine'.at = "remove" => LineIds(plain'[engine'.name]) \subseteq LineIds(gz'[engine'.name]) \cup cut'
    <3>1. CASE engine.name = n
      <4>1. LineIds(gz'[n]) = Ids(gz'[n])
        BY <1>2, IdsAre
      <4> QED
        BY <1>1, <1>2, <3>1, <4>1 DEF Twins
    <3>2. CASE engine.name # n
      BY <1>1, <1>2, <3>2 DEF Twins, Typed
    <3> QED
      BY <3>1, <3>2
  <2>3. engine'.at = "remove" => gz'[engine'.name].present
    BY <1>1, <1>2 DEF Twins, Typed
  <2> QED
    BY <2>1, <2>2, <2>3 DEF Twins, LineIds
<1>8. Times'
  <2>1. Named' \subseteq Named
    BY <1>5 DEF Shrinks
  <2>2. ArchiveTimes'
    BY <1>1, <1>2, <2>1, TimesParts, ArchiveTimesStay
  <2>3. ActiveTimes'
    BY <1>1, <1>2, <2>1, TimesParts DEF ActiveTimes
  <2> QED
    BY <2>2, <2>3, TimesParts
<1>9. NothingLost'
  <2>1. \A m \in Name : Archive(m) \subseteq LineIds(plain'[m]) \cup LineIds(gz'[m]) \cup cut'
    <3>1. LineIds(gz[n]) \subseteq LineIds(gz'[n]) \cup cut'
      BY <1>2, IdsAre
    <3> QED
      BY <1>2, <3>1 DEF Archive
  <2> QED
    BY <1>1, <1>2, <2>1, NothingFrom
<1>10. Expiry'
  <2>1. Named' = Named
    BY <1>2 DEF Named
  <2>2. engine.aged \cup engine.excess \subseteq Name
    BY <1>1 DEF Typed
  <2> QED
    BY <1>1, <1>2, <1>5, <2>1, <2>2, ExpiryShrinks
<1>11. Encoded'
  BY <1>1, <1>2 DEF Encoded, LineOf
<1> QED
  BY <1>3, <1>4, <1>6, <1>7, <1>8, <1>9, <1>10, <1>11 DEF DiskInv

(* The steps of a reader leave the files alone.                             *)
LEMMA DiskReader ==
  ASSUME DiskInv, UNCHANGED archiveVars
  PROVE  DiskInv'
<1>1. UNCHANGED <<config, active, plain, gz, engine, sequence, rotation, clock, written, finished,
                  expired, cut, crashes, rotations>>
  BY DEF archiveVars, diskVars
<1>2. Typed' /\ Files'
  BY <1>1 DEF DiskInv, Typed, Files, Working, Failed, InOrder, Fresh, Sound, Archived
<1>3. /\ Named' = Named /\ LineIds(active)' = LineIds(active) /\ Ids(active)' = Ids(active)
      /\ \A n \in Name : Archive(n)' = Archive(n) /\ (Used(n) => Used(n)')
  BY <1>1 DEF Named, LineIds, Ids, Archive, Used, Working, Fresh
<1>4. Ordered'
  BY <1>3, OrderedShrinks DEF DiskInv, Shrinks
<1>5. Twins' /\ Times' /\ Encoded'
  <2>1. Twins'
    BY <1>1 DEF DiskInv, Twins, LineIds
  <2>2. Times'
    BY <1>1, <1>3 DEF DiskInv, Times
  <2>3. Encoded'
    BY <1>1 DEF DiskInv, Encoded, LineOf
  <2> QED
    BY <2>1, <2>2, <2>3
<1>6. NothingLost'
  BY <1>1, <1>3 DEF DiskInv, NothingLost
<1>7. Expiry'
  <2>1. Shrinks
    BY <1>3 DEF Shrinks
  <2>2. engine.aged \cup engine.excess \subseteq Name
    BY DEF DiskInv, Typed
  <2> QED
    BY <1>1, <1>3, <2>1, <2>2, ExpiryShrinks DEF DiskInv
<1> QED
  BY <1>2, <1>4, <1>5, <1>6, <1>7 DEF DiskInv

-----------------------------------------------------------------------------
(* What is read of one segment: the lines up to the first that does not     *)
(* parse, and of these the ones that match, in their order.                 *)
LEMMA ReadableIs ==
  ASSUME NEW lines \in Seq(AnyEntry)
  PROVE  \E n \in 0..Len(lines) : Readable(lines) = SubSeq(lines, 1, n)
<1> DEFINE bad == {i \in DOMAIN lines : ~Parses(lines[i].line)}
           first == CHOOSE i \in bad : \A j \in bad : i <= j
<1>1. DOMAIN lines = 1..Len(lines) /\ Len(lines) \in Nat
  OBVIOUS
<1>2. CASE bad = {}
  <2>1. Readable(lines) = SubSeq(lines, 1, Len(lines))
    BY <1>2 DEF Readable
  <2>2. Len(lines) \in 0..Len(lines)
    BY <1>1
  <2> QED
    BY <2>1, <2>2, Zenon
<1>3. CASE bad # {}
  <2>1. Readable(lines) = SubSeq(lines, 1, first - 1)
    BY <1>3 DEF Readable
  <2>2. bad \subseteq 1..Len(lines) /\ bad \subseteq Nat
    BY <1>1
  <2> HIDE DEF bad
  <2>3. \E i \in bad : \A j \in bad : i <= j
    BY <1>3, <2>2, Least
  <2>4. first \in bad
    BY <2>3
  <2> HIDE DEF first
  <2>5. first - 1 \in 0..Len(lines)
    BY <1>1, <2>2, <2>4
  <2> QED
    BY <2>1, <2>5
<1> QED
  BY <1>2, <1>3

LEMMA HitIs ==
  ASSUME NEW e \in AnyEntry
  PROVE  /\ [of |-> e, record |-> Parsed(e.line)] \in AnyHit
         /\ [of |-> e, record |-> Parsed(e.line)].of = e
<1>1. e.line \in AnyLine
  BY EntryParts
<1>2. Parsed(e.line) \in {Parsed(l) : l \in AnyLine}
  BY <1>1
<1> QED
  BY <1>2 DEF AnyHit

LEMMA MatchingIs ==
  ASSUME NEW lines \in Seq(AnyEntry)
  PROVE  /\ Matching(lines) \in Seq(AnyHit) /\ Len(Matching(lines)) \in Nat
         /\ \A i \in DOMAIN Matching(lines) :
              \E k \in DOMAIN lines : Matching(lines)[i].of = lines[k]
         /\ \A i, j \in DOMAIN Matching(lines) : i < j =>
              \E k, l \in DOMAIN lines :
                k < l /\ Matching(lines)[i].of = lines[k] /\ Matching(lines)[j].of = lines[l]
<1> DEFINE S == {i \in DOMAIN lines : Matches(Parsed(lines[i].line), reader.query)}
           found == Ascending(S)
           c == Cardinality(S)
           M == Matching(lines)
<1>1. DOMAIN lines = 1..Len(lines) /\ Len(lines) \in Nat
  OBVIOUS
<1>2. S \subseteq 1..Len(lines) /\ S \subseteq Nat
  BY <1>1
<1>3. IsFiniteSet(S)
  <2>1. IsFiniteSet(1..Len(lines))
    BY <1>1, FS_Interval
  <2> HIDE DEF S
  <2> QED
    BY <1>2, <2>1, FS_Subset
<1>4. Matching(lines) =
        [i \in DOMAIN found |-> [of |-> lines[found[i]], record |-> Parsed(lines[found[i]].line)]]
  BY DEF Matching
<1> HIDE DEF S
<1>5. /\ found \in [1..c -> S] /\ c \in Nat
      /\ \A i, j \in 1..c : i < j => found[i] < found[j]
  BY <1>2, <1>3, AscendingLists
<1> HIDE DEF found, c
<1>6. /\ DOMAIN M = 1..c
      /\ \A i \in 1..c : M[i] = [of |-> lines[found[i]], record |-> Parsed(lines[found[i]].line)]
      /\ \A i \in 1..c : found[i] \in DOMAIN lines
      /\ M = [i \in 1..c |-> M[i]]
  BY <1>1, <1>2, <1>4, <1>5
<1>7. \A i \in 1..c : lines[found[i]] \in AnyEntry
  BY <1>6, EntryAt
<1> HIDE DEF M
<1>8. \A i \in 1..c : M[i] \in AnyHit /\ M[i].of = lines[found[i]]
  BY <1>6, <1>7, HitIs
<1>9. M \in Seq(AnyHit) /\ Len(M) \in Nat
  <2>1. M \in [1..c -> AnyHit]
    BY <1>6, <1>8
  <2>2. M \in Seq(AnyHit)
    BY <1>5, <2>1
  <2> QED
    BY <2>2
<1> QED
  BY <1>5, <1>6, <1>8, <1>9 DEF M

(* The files a segment names.                                               *)
LEMMA FileOfIs ==
  ASSUME Typed, Files, NEW s \in AnySegment
  PROVE  /\ FileOf(s) \in AnyFile /\ FileOf(s).lines \in Seq(AnyEntry)
         /\ Sound(FileOf(s), written, finished)
         /\ LineIds(FileOf(s)) \subseteq Sources(s)
<1>1. s.name \in Name
  BY DEF AnySegment
<1>2. FileOf(s) \in {active, gz[s.name], plain[s.name]}
  BY DEF FileOf
<1>3. FileOf(s) \in AnyFile /\ Sound(FileOf(s), written, finished)
  BY <1>1, <1>2, ArchiveFiles
<1>4. LineIds(FileOf(s)) \subseteq Sources(s)
  BY DEF FileOf, Sources, Archive
<1> QED
  BY <1>3, <1>4 DEF AnyFile

(* The records of one segment, in their order and between what was read     *)
(* before and what will be read later.                                      *)
LEMMA SegmentRead ==
  ASSUME Typed, Files, NEW s \in AnySegment
  PROVE  LET M == Matching(Readable(FileOf(s).lines)) IN
         /\ M \in Seq(AnyHit) /\ Len(M) \in Nat /\ DOMAIN M = 1..Len(M)
         /\ \A i \in DOMAIN M : M[i].of.id \in Sources(s) /\ M[i].of.id <= written /\ M[i].of.id \in Nat
         /\ \A i, j \in DOMAIN M : i < j => M[i].of.id < M[j].of.id
<1> DEFINE f == FileOf(s)
           r == Readable(f.lines)
           M == Matching(r)
<1>1. /\ f.lines \in Seq(AnyEntry) /\ Sound(f, written, finished) /\ LineIds(f) \subseteq Sources(s)
  BY FileOfIs
<1> HIDE DEF f
<1>2. PICK n \in 0..Len(f.lines) : r = SubSeq(f.lines, 1, n)
  BY <1>1, ReadableIs
<1>3. /\ r \in Seq(AnyEntry) /\ DOMAIN r = 1..n
      /\ \A k \in 1..n : r[k] = f.lines[k] /\ k \in DOMAIN f.lines
  BY <1>1, <1>2, Prefix
<1> HIDE DEF r
<1>4. /\ M \in Seq(AnyHit) /\ Len(M) \in Nat
      /\ \A i \in DOMAIN M : \E k \in DOMAIN r : M[i].of = r[k]
      /\ \A i, j \in DOMAIN M : i < j =>
           \E k, l \in DOMAIN r : k < l /\ M[i].of = r[k] /\ M[j].of = r[l]
  BY <1>3, MatchingIs
<1> HIDE DEF M
<1>5. \A k \in DOMAIN r : /\ r[k].id \in LineIds(f) /\ r[k].id \in 1..written
                          /\ r[k].id \in Nat /\ r[k].id <= written
  <2>1. written \in Nat
    BY DEF Typed
  <2> QED
    BY <1>1, <1>3, <2>1 DEF LineIds, Sound
<1>6. \A k, l \in DOMAIN r : k < l => r[k].id < r[l].id
  BY <1>1, <1>3 DEF Sound
<1>7. \A i \in DOMAIN M : M[i].of.id \in Sources(s) /\ M[i].of.id <= written /\ M[i].of.id \in Nat
  BY <1>1, <1>4, <1>5
<1>8. \A i, j \in DOMAIN M : i < j => M[i].of.id < M[j].of.id
  BY <1>4, <1>6
<1>9. DOMAIN M = 1..Len(M)
  BY <1>4
<1> QED
  BY <1>4, <1>7, <1>8, <1>9 DEF M, r, f

-----------------------------------------------------------------------------
(* The reader's invariant, for a reader given.                              *)
ReaderOrder(segments, records) ==
  /\ \A i \in DOMAIN segments : segments[i].archived => Used(segments[i].name)
  /\ \A i, j \in DOMAIN segments : i < j =>
       /\ segments[i].archived
       /\ segments[j].archived => Before(segments[i].name, segments[j].name)
  /\ \A i \in DOMAIN records : records[i].of.id <= written
  /\ \A i \in DOMAIN records : \A j \in DOMAIN segments :
       \A y \in Sources(segments[j]) : records[i].of.id < y

LEMMA ReaderSoundParts ==
  /\ ReaderSound <=>
       /\ reader.at \in {"idle", "archive", "done"} => reader.segments = <<>>
       /\ reader.at \in {"idle", "archive", "active"} => reader.records = <<>>
       /\ reader.at = "active" => \A i \in DOMAIN reader.segments : reader.segments[i].archived
       /\ ReaderOrder(reader.segments, reader.records)
BY DEF ReaderSound, ReaderOrder

ReaderInv == ReaderTyped /\ ReaderSound /\ OnceInOrder

LEMMA ReaderInit ==
  ASSUME Init
  PROVE  ReaderInv /\ Uncut
<1>1. ReaderTyped
  BY TypedInit
<1>2. reader = NoQuery /\ cut = {}
  BY DEF Init, ArchiveInit
<1>3. /\ reader.at = "idle" /\ reader.segments = <<>> /\ reader.records = <<>> /\ reader.query.limit = 0
  BY <1>2 DEF NoQuery
<1>4. ReaderSound
  BY <1>3 DEF ReaderSound
<1>5. OnceInOrder
  BY <1>3 DEF OnceInOrder
<1> QED
  BY <1>1, <1>2, <1>4, <1>5 DEF ReaderInv, Uncut

(* What the engine may put into the files that a reader has still to read.  *)
LEMMA SourcesEngine ==
  ASSUME Typed, Files, Ordered, Twins, EngineStep, NEW s \in AnySegment,
         s.archived => Used(s.name)
  PROVE  /\ \A y \in Sources(s)' : y \in Sources(s) \/ (y \in Nat /\ y > written)
         /\ s.archived => Used(s.name)'
<1>1. s.name \in Name /\ s.archived \in BOOLEAN /\ written \in Nat
  BY DEF AnySegment, Typed
<1>2. s.archived => Used(s.name)'
  BY <1>1, UsedStays
<1>3. CASE WriteBegins
  <2>1. LineIds(active') = LineIds(active) \cup {written + 1} /\ UNCHANGED <<plain, gz>>
    BY <1>3, WriteBeginsEffect
  <2>2. LineIds(active)' = LineIds(active) \cup {written + 1} /\ Archive(s.name)' = Archive(s.name)
    BY <2>1 DEF LineIds, Archive
  <2> QED
    BY <1>1, <1>2, <2>2 DEF Sources
<1>4. CASE RotateRename
  <2>1. /\ engine.at = "idle" /\ active' = None /\ UNCHANGED gz /\ Fresh \in Name
        /\ \A n \in Name : n # Fresh => plain'[n] = plain[n]
    BY <1>4, RotateEffect
  <2>2. LineIds(active)' = {}
    BY <2>1, NoneIs DEF LineIds
  <2>3. CASE s.archived
    <3>1. s.name # Fresh
      BY <1>1, <2>1, <2>3, BeforeOrders DEF Used
    <3>2. Archive(s.name)' = Archive(s.name)
      BY <1>1, <2>1, <3>1 DEF Archive, LineIds
    <3> QED
      BY <1>2, <2>3, <3>2 DEF Sources
  <2>4. CASE ~s.archived
    BY <2>2, <2>4 DEF Sources
  <2> QED
    BY <2>3, <2>4
<1>5. CASE Shrinks
  <2>1. Archive(s.name)' \subseteq Archive(s.name) /\ LineIds(active)' \subseteq LineIds(active)
    BY <1>1, <1>5 DEF Shrinks
  <2> QED
    BY <1>1, <1>2, <2>1 DEF Sources
<1> QED
  BY <1>3, <1>4, <1>5, ShrinkSteps, EngineSteps

(* A reader that waits while the files change.                              *)
LEMMA ReaderWaits ==
  ASSUME ReaderInv, UNCHANGED <<reader, corrupted>>, owed' \subseteq owed, broken' \in Nat,
         finished \subseteq finished', written \in Nat, written' \in Nat, written <= written',
         \A s \in AnySegment : (s.archived => Used(s.name)) =>
           /\ \A y \in Sources(s)' : y \in Sources(s) \/ (y \in Nat /\ y > written)
           /\ s.archived => Used(s.name)'
  PROVE  ReaderInv'
<1>1. ReaderTyped'
  BY DEF ReaderInv, ReaderTyped
<1>2. OnceInOrder'
  BY DEF ReaderInv, OnceInOrder
<1>3. /\ reader.segments \in Seq(AnySegment) /\ reader.records \in Seq(AnyHit)
  BY DEF ReaderInv, ReaderTyped
<1>4. \A j \in DOMAIN reader.segments :
        /\ reader.segments[j] \in AnySegment
        /\ \A y \in Sources(reader.segments[j])' :
             y \in Sources(reader.segments[j]) \/ (y \in Nat /\ y > written)
        /\ reader.segments[j].archived => Used(reader.segments[j].name)'
  BY <1>3 DEF ReaderInv, ReaderSound
<1>5. \A i \in DOMAIN reader.records : reader.records[i].of.id <= written /\ reader.records[i].of.id \in Nat
  <2>1. \A i \in DOMAIN reader.records : reader.records[i] \in AnyHit
    BY <1>3
  <2>2. \A i \in DOMAIN reader.records : reader.records[i].of.id \in Nat
    BY <2>1, EntryParts DEF AnyHit
  <2> QED
    BY <2>2 DEF ReaderInv, ReaderSound
<1>6. \A i \in DOMAIN reader.records : \A j \in DOMAIN reader.segments :
        \A y \in Sources(reader.segments[j])' : reader.records[i].of.id < y
  <2> SUFFICES ASSUME NEW i \in DOMAIN reader.records, NEW j \in DOMAIN reader.segments,
                      NEW y \in Sources(reader.segments[j])'
               PROVE  reader.records[i].of.id < y
    OBVIOUS
  <2>1. CASE y \in Sources(reader.segments[j])
    BY <2>1 DEF ReaderInv, ReaderSound
  <2>2. CASE y \in Nat /\ y > written
    BY <1>5, <2>2
  <2> QED
    BY <1>4, <2>1, <2>2
<1>7. \A i \in DOMAIN reader.records : reader.records[i].of.id <= written'
  BY <1>5
<1>8. ReaderSound'
  BY <1>4, <1>6, <1>7 DEF ReaderInv, ReaderSound
<1> QED
  BY <1>1, <1>2, <1>8 DEF ReaderInv

-----------------------------------------------------------------------------
(* A reader's own steps.                                                    *)
LEMMA ReaderFrom ==
  ASSUME ReaderTyped', UNCHANGED archiveVars,
         reader'.at \in {"idle", "archive", "done"} => reader'.segments = <<>>,
         reader'.at \in {"idle", "archive", "active"} => reader'.records = <<>>,
         reader'.at = "active" => \A i \in DOMAIN reader'.segments : reader'.segments[i].archived,
         ReaderOrder(reader'.segments, reader'.records),
         \A i, j \in DOMAIN reader'.records :
           i < j => reader'.records[i].of.id < reader'.records[j].of.id,
         Len(reader'.records) <= reader'.query.limit
  PROVE  ReaderInv'
<1>1. UNCHANGED <<active, plain, gz, engine, clock, rotation, written>>
  BY DEF archiveVars, diskVars
<1>2. \A s : Sources(s)' = Sources(s)
  BY <1>1 DEF Sources, Archive, LineIds
<1>3. \A n : Used(n)' <=> Used(n)
  BY <1>1 DEF Used, Working, Fresh
<1>4. ReaderSound'
  BY <1>1, <1>2, <1>3 DEF ReaderSound, ReaderOrder
<1>5. OnceInOrder'
  BY DEF OnceInOrder
<1> QED
  BY <1>4, <1>5 DEF ReaderInv

LEMMA ReaderAsks ==
  ASSUME Typed, Files, ReaderInv, UNCHANGED archiveVars, NEW q \in Queries, Ask(q)
  PROVE  ReaderInv'
<1>1. /\ reader' = [NoQuery EXCEPT !.query = Limited(q), !.at = "archive"]
      /\ UNCHANGED <<corrupted, broken>> /\ UNCHANGED finished
  BY DEF Ask, archiveVars
<1>2. Limited(q) \in AnyQuery
  BY DEF AnyQuery
<1>3. /\ reader' = [at |-> "archive", segments |-> <<>>, records |-> <<>>, query |-> Limited(q)]
  BY <1>1 DEF NoQuery
<1>4. owed' \subseteq finished
  <2>1. \A f : Owed(f, q) \subseteq Ids(f)
    BY DEF Owed, Ids
  <2>2. /\ Ids(active) \subseteq finished
        /\ \A n \in Name : Ids(plain[n]) \subseteq finished /\ Ids(gz[n]) \subseteq finished
    BY IdsAre DEF Files
  <2>3. owed' \subseteq Owed(active, q) \cup UNION {Owed(plain[n], q) \cup Owed(gz[n], q) : n \in Name}
    BY DEF Ask
  <2> QED
    BY <2>1, <2>2, <2>3
<1>5. /\ reader'.at = "archive" /\ reader'.segments = <<>> /\ reader'.records = <<>>
      /\ reader'.query \in AnyQuery
  BY <1>2, <1>3
<1>6. ReaderTyped'
  <2>1. <<>> \in Seq(AnySegment) /\ <<>> \in Seq(AnyHit)
    OBVIOUS
  <2>2. reader' \in [at : {"idle", "archive", "active", "read", "done"}, segments : Seq(AnySegment),
                    records : Seq(AnyHit), query : AnyQuery]
    BY <1>2, <1>3, <2>1
  <2> QED
    BY <1>1, <1>4, <2>2 DEF ReaderInv, ReaderTyped
<1>7. ReaderOrder(reader'.segments, reader'.records)
  BY <1>5 DEF ReaderOrder
<1>8. Len(reader'.records) <= reader'.query.limit
  BY <1>5, Limits
<1> QED
  BY <1>5, <1>6, <1>7, <1>8, ReaderFrom

(* The listing of the archive directory.                                    *)
LEMMA ArchiveListed ==
  ASSUME Typed, Ordered
  PROVE  /\ ArchiveSegments \in Seq(AnySegment)
         /\ \A i \in DOMAIN ArchiveSegments :
              ArchiveSegments[i].archived /\ Used(ArchiveSegments[i].name)
         /\ \A i, j \in DOMAIN ArchiveSegments :
              i < j => Before(ArchiveSegments[i].name, ArchiveSegments[j].name)
<1> DEFINE names == Sorted(Named)
           c == Cardinality(Named)
           A == ArchiveSegments
<1>1. Named \in SUBSET Name
  BY DEF Named
<1>2. /\ names \in [1..c -> Named] /\ c \in Nat
      /\ \A i, j \in 1..c : i < j => Before(names[i], names[j])
  BY <1>1, SortedLists
<1>3. A = [i \in DOMAIN names |-> [archived |-> TRUE, name |-> names[i], gz |-> Zipped(names[i])]]
  BY DEF ArchiveSegments
<1>4. \A n \in Name : Zipped(n) \in BOOLEAN
  BY DEF Zipped
<1> HIDE DEF names, c, A
<1>5. /\ A = [i \in 1..c |-> A[i]]
      /\ \A i \in 1..c : A[i] = [archived |-> TRUE, name |-> names[i], gz |-> Zipped(names[i])]
      /\ \A i \in 1..c : names[i] \in Named /\ names[i] \in Name
  BY <1>1, <1>2, <1>3
<1>6. \A i \in 1..c : A[i] \in AnySegment /\ A[i].archived /\ A[i].name = names[i]
  <2> SUFFICES ASSUME NEW i \in 1..c
               PROVE  A[i] \in AnySegment /\ A[i].archived /\ A[i].name = names[i]
    OBVIOUS
  <2>1. names[i] \in Name /\ Zipped(names[i]) \in BOOLEAN
    BY <1>4, <1>5
  <2>2. A[i] = [archived |-> TRUE, name |-> names[i], gz |-> Zipped(names[i])]
    BY <1>5
  <2> QED
    BY <2>1, <2>2 DEF AnySegment
<1>7. A \in [1..c -> AnySegment] /\ DOMAIN A = 1..c
  BY <1>5, <1>6
<1>8. A \in Seq(AnySegment)
  BY <1>2, <1>7
<1>9. \A i \in 1..c : Used(A[i].name)
  BY <1>5, <1>6 DEF Ordered
<1> QED
  BY <1>2, <1>6, <1>7, <1>8, <1>9 DEF A

LEMMA ReaderLists ==
  ASSUME Typed, Files, Ordered, ReaderInv, UNCHANGED archiveVars, ListArchive
  PROVE  ReaderInv'
<1>1. /\ reader.at = "archive"
      /\ reader' = [reader EXCEPT !.at = "active",
                                  !.segments = IF reader.query.include_archive
                                                 THEN ArchiveSegments ELSE <<>>]
      /\ UNCHANGED <<corrupted, owed, broken, finished>>
  BY DEF ListArchive, archiveVars
<1>2. reader.records = <<>>
  BY <1>1 DEF ReaderInv, ReaderSound
<1> DEFINE s == IF reader.query.include_archive THEN ArchiveSegments ELSE <<>>
<1>3. /\ s \in Seq(AnySegment)
      /\ \A i \in DOMAIN s : s[i].archived /\ Used(s[i].name)
      /\ \A i, j \in DOMAIN s : i < j => Before(s[i].name, s[j].name)
  <2>1. CASE reader.query.include_archive
    BY <2>1, ArchiveListed
  <2>2. CASE ~reader.query.include_archive
    BY <2>2
  <2> QED
    BY <2>1, <2>2
<1>4. reader' = [reader EXCEPT !.at = "active", !.segments = s]
  BY <1>1
<1> HIDE DEF s
<1>5. /\ reader'.at = "active" /\ reader'.segments = s /\ reader'.records = <<>>
      /\ reader'.query = reader.query /\ reader.query \in AnyQuery
  BY <1>2, <1>4 DEF ReaderInv, ReaderTyped
<1>6. ReaderTyped'
  BY <1>1, <1>3, <1>4 DEF ReaderInv, ReaderTyped
<1>7. ReaderOrder(reader'.segments, reader'.records)
  BY <1>3, <1>5 DEF ReaderOrder
<1>8. Len(reader'.records) <= reader'.query.limit
  BY <1>5, Limits
<1> QED
  BY <1>3, <1>5, <1>6, <1>7, <1>8, ReaderFrom

LEMMA ReaderListsActive ==
  ASSUME Typed, Files, Ordered, ReaderInv, UNCHANGED archiveVars, ListActive
  PROVE  ReaderInv'
<1> DEFINE last == [archived |-> FALSE, name |-> <<0, 0>>, gz |-> FALSE]
           old == reader.segments
           s == IF active.present THEN Append(old, last) ELSE old
<1>1. /\ reader.at = "active"
      /\ reader' = [reader EXCEPT !.at = "read", !.segments = s]
      /\ UNCHANGED <<corrupted, owed, broken, finished>>
  BY DEF ListActive, archiveVars
<1>2. /\ reader.records = <<>> /\ \A i \in DOMAIN old : old[i].archived
      /\ ReaderOrder(old, reader.records)
  BY <1>1, ReaderSoundParts DEF ReaderInv
<1>3. last \in AnySegment /\ ~last.archived
  BY Options DEF AnySegment, Name
<1>4. old \in Seq(AnySegment)
  BY DEF ReaderInv, ReaderTyped
<1> HIDE DEF last, old
<1>5. /\ s \in Seq(AnySegment)
      /\ \A i \in DOMAIN s : s[i].archived => i \in DOMAIN old /\ s[i] = old[i]
      /\ \A i, j \in DOMAIN s : i < j => s[i].archived
  <2>1. CASE active.present
    <3>1. s = Append(old, last)
      BY <2>1
    <3>2. /\ s \in Seq(AnySegment) /\ DOMAIN s = 1..(Len(old) + 1) /\ s[Len(old) + 1] = last
          /\ DOMAIN old = 1..Len(old) /\ Len(old) \in Nat
          /\ \A i \in 1..Len(old) : s[i] = old[i]
      BY <1>3, <1>4, <3>1
    <3> HIDE DEF s
    <3>3. \A i \in 1..(Len(old) + 1) : i = Len(old) + 1 \/ i \in 1..Len(old)
      BY <3>2
    <3>4. \A i, j \in 1..(Len(old) + 1) : i < j => i \in 1..Len(old)
      BY <3>2
    <3> QED
      BY <1>2, <1>3, <3>2, <3>3, <3>4
  <2>2. CASE ~active.present
    BY <1>2, <1>4, <2>2
  <2> QED
    BY <2>1, <2>2
<1> HIDE DEF s
<1>6. /\ reader'.at = "read" /\ reader'.segments = s /\ reader'.records = <<>>
      /\ reader'.query = reader.query /\ reader.query \in AnyQuery
  BY <1>1, <1>2 DEF ReaderInv, ReaderTyped
<1>7. ReaderTyped'
  BY <1>1, <1>5 DEF ReaderInv, ReaderTyped
<1>8. ReaderOrder(reader'.segments, reader'.records)
  BY <1>2, <1>5, <1>6 DEF ReaderOrder
<1>9. Len(reader'.records) <= reader'.query.limit
  BY <1>6, Limits
<1> QED
  BY <1>6, <1>7, <1>8, <1>9, ReaderFrom

(* What has been found once a segment is read.                              *)
LEMMA Joined ==
  ASSUME NEW S, NEW a \in Seq(S), NEW b \in Seq(S)
  PROVE  /\ a \o b \in Seq(S) /\ Len(a \o b) = Len(a) + Len(b)
         /\ Len(a) \in Nat /\ Len(b) \in Nat
         /\ DOMAIN a = 1..Len(a) /\ DOMAIN b = 1..Len(b)
         /\ \A i \in 1..Len(a) : (a \o b)[i] = a[i]
         /\ \A i \in 1..Len(b) : (a \o b)[Len(a) + i] = b[i]
OBVIOUS

LEMMA FoundInOrder ==
  ASSUME Typed, Files, Ordered, ReaderInv, reader.segments # <<>>
  PROVE  /\ Found \in Seq(AnyHit) /\ Len(Found) \in Nat /\ DOMAIN Found = 1..Len(Found)
         /\ \A i, j \in DOMAIN Found : i < j => Found[i].of.id < Found[j].of.id
         /\ \A i \in DOMAIN Found : Found[i].of.id <= written
         /\ \A i \in DOMAIN Found : \A j \in DOMAIN reader.segments : j # 1 =>
              \A y \in Sources(reader.segments[j]) : Found[i].of.id < y
<1> DEFINE segments == reader.segments
           s == Head(segments)
           a == reader.records
           b == Matching(Readable(FileOf(s).lines))
           F == Found
<1>1. segments \in Seq(AnySegment) /\ a \in Seq(AnyHit)
  BY DEF ReaderInv, ReaderTyped
<1>2. segments # <<>> /\ s = segments[1] /\ 1 \in DOMAIN segments /\ s \in AnySegment
  BY <1>1
<1>3. /\ b \in Seq(AnyHit)
      /\ \A i \in DOMAIN b : b[i].of.id \in Sources(s) /\ b[i].of.id <= written
      /\ \A i, j \in DOMAIN b : i < j => b[i].of.id < b[j].of.id
  BY <1>2, SegmentRead
<1>4. /\ \A i, j \in DOMAIN a : i < j => a[i].of.id < a[j].of.id
      /\ ReaderOrder(segments, a)
  BY ReaderSoundParts DEF ReaderInv, OnceInOrder
<1>5. F = a \o b
  BY DEF Found
<1> HIDE DEF F, a, b, s, segments
<1>6. /\ F \in Seq(AnyHit) /\ Len(F) = Len(a) + Len(b) /\ Len(F) \in Nat /\ DOMAIN F = 1..Len(F)
      /\ Len(a) \in Nat /\ Len(b) \in Nat
      /\ DOMAIN a = 1..Len(a) /\ DOMAIN b = 1..Len(b)
      /\ \A i \in 1..Len(a) : F[i] = a[i]
      /\ \A i \in 1..Len(b) : F[Len(a) + i] = b[i]
  BY <1>1, <1>3, <1>5, Joined
<1>7. \A i \in DOMAIN F : \/ i \in DOMAIN a /\ F[i] = a[i]
                          \/ /\ i - Len(a) \in DOMAIN b /\ F[i] = b[i - Len(a)]
                             /\ i > Len(a)
  <2> SUFFICES ASSUME NEW i \in 1..Len(F), i > Len(a)
               PROVE  i - Len(a) \in 1..Len(b) /\ F[i] = b[i - Len(a)]
    BY <1>6
  <2>1. i - Len(a) \in 1..Len(b)
    BY <1>6
  <2>2. Len(a) + (i - Len(a)) = i
    BY <1>6
  <2> QED
    BY <1>6, <2>1, <2>2
<1>8. \A i \in DOMAIN a : \A y \in Sources(s) : a[i].of.id < y
  BY <1>2, <1>4 DEF ReaderOrder
<1>9. ASSUME NEW i \in DOMAIN F, NEW j \in DOMAIN F, i < j
      PROVE  F[i].of.id < F[j].of.id
  <2>1. CASE j \in DOMAIN a
    BY <1>4, <1>6, <1>7, <1>9, <2>1
  <2>2. CASE i \in DOMAIN a /\ j \notin DOMAIN a
    BY <1>3, <1>7, <1>8, <1>6, <2>2
  <2>3. CASE i \notin DOMAIN a /\ j \notin DOMAIN a
    <3>1. /\ i - Len(a) \in DOMAIN b /\ F[i] = b[i - Len(a)]
          /\ j - Len(a) \in DOMAIN b /\ F[j] = b[j - Len(a)]
      BY <1>7, <2>3
    <3>2. i - Len(a) < j - Len(a)
      BY <1>6, <1>9
    <3> QED
      BY <1>3, <3>1, <3>2
  <2> QED
    BY <2>1, <2>2, <2>3
<1>10. \A i \in DOMAIN F : F[i].of.id <= written
  BY <1>3, <1>4, <1>7 DEF ReaderOrder
<1>11. ASSUME NEW i \in DOMAIN F, NEW j \in DOMAIN segments, j # 1, NEW y \in Sources(segments[j])
       PROVE  F[i].of.id < y
  <2>1. CASE i \in DOMAIN a
    BY <1>4, <1>6, <2>1 DEF ReaderOrder
  <2>2. CASE i \notin DOMAIN a
    <3>1. F[i].of.id \in Sources(s)
      BY <1>3, <1>7, <2>2
    <3>2. segments[j] \in AnySegment /\ 1 < j
      BY <1>1, <1>11
    <3>3. s.archived /\ (segments[j].archived => Before(s.name, segments[j].name))
      BY <1>2, <1>4, <3>2 DEF ReaderOrder
    <3>4. s.name \in Name /\ segments[j].name \in Name
      BY <1>2, <3>2 DEF AnySegment
    <3>5. F[i].of.id \in Archive(s.name)
      BY <3>1, <3>3 DEF Sources
    <3>6. CASE segments[j].archived
      <4>1. Older(Archive(s.name), Archive(segments[j].name))
        BY <3>3, <3>4, <3>6 DEF Ordered
      <4> QED
        BY <1>11, <3>5, <3>6, <4>1 DEF Older, Sources
    <3>7. CASE ~segments[j].archived
      <4>1. Older(Archive(s.name), LineIds(active))
        BY <3>4 DEF Ordered
      <4> QED
        BY <1>11, <3>5, <3>7, <4>1 DEF Older, Sources
    <3> QED
      BY <3>6, <3>7
  <2> QED
    BY <2>1, <2>2
<1> QED
  BY <1>6, <1>9, <1>10, <1>11 DEF F, segments

LEMMA HitsPrefix ==
  ASSUME NEW F \in Seq(AnyHit), NEW k \in 0..Len(F)
  PROVE  /\ SubSeq(F, 1, k) \in Seq(AnyHit) /\ Len(SubSeq(F, 1, k)) = k
         /\ DOMAIN SubSeq(F, 1, k) = 1..k
         /\ \A i \in 1..k : SubSeq(F, 1, k)[i] = F[i] /\ i \in DOMAIN F
OBVIOUS

LEMMA Rests ==
  ASSUME NEW S, NEW s \in Seq(S), s # <<>>
  PROVE  /\ Tail(s) \in Seq(S)
         /\ \A j \in DOMAIN Tail(s) : j + 1 \in DOMAIN s /\ Tail(s)[j] = s[j + 1] /\ j \in Nat \ {0}
OBVIOUS

LEMMA ReaderReads ==
  ASSUME Typed, Files, Ordered, ReaderInv, UNCHANGED archiveVars, ReadSegment
  PROVE  ReaderInv'
<1> DEFINE limit == reader.query.limit
           k == IF Full THEN limit ELSE Len(Found)
           r == SubSeq(Found, 1, k)
           s == IF Full THEN <<>> ELSE Tail(reader.segments)
<1>1. /\ reader.at = "read" /\ reader.segments # <<>>
      /\ reader' = [reader EXCEPT !.records = r, !.segments = s]
      /\ UNCHANGED <<owed, broken, finished>>
  BY DEF ReadSegment, Reading, archiveVars
<1>2. corrupted' \in Nat
  <2>1. corrupted \in Nat
    BY DEF ReaderInv, ReaderTyped
  <2>2. corrupted' \in {corrupted, corrupted + 1}
    BY DEF ReadSegment
  <2> QED
    BY <2>1, <2>2
<1>3. /\ Found \in Seq(AnyHit) /\ Len(Found) \in Nat
      /\ \A i, j \in DOMAIN Found : i < j => Found[i].of.id < Found[j].of.id
      /\ \A i \in DOMAIN Found : Found[i].of.id <= written
      /\ \A i \in DOMAIN Found : \A j \in DOMAIN reader.segments : j # 1 =>
           \A y \in Sources(reader.segments[j]) : Found[i].of.id < y
  BY <1>1, FoundInOrder
<1>4. limit \in Nat
  BY Limits DEF ReaderInv, ReaderTyped
<1>5. k \in 0..Len(Found) /\ k <= limit
  BY <1>3, <1>4 DEF Full
<1> HIDE DEF k
<1>6. /\ r \in Seq(AnyHit) /\ Len(r) = k /\ DOMAIN r = 1..k
      /\ \A i \in 1..k : r[i] = Found[i] /\ i \in DOMAIN Found
  BY <1>3, <1>5, HitsPrefix
<1>7. reader.segments \in Seq(AnySegment)
  BY DEF ReaderInv, ReaderTyped
<1>8. /\ s \in Seq(AnySegment)
      /\ \A j \in DOMAIN s :
           /\ j + 1 \in DOMAIN reader.segments /\ s[j] = reader.segments[j + 1]
           /\ j \in Nat \ {0}
  <2>1. CASE Full
    BY <2>1
  <2>2. CASE ~Full
    BY <1>1, <1>7, <2>2, Rests
  <2> QED
    BY <2>1, <2>2
<1> HIDE DEF r, s
<1>9. ReaderOrder(reader.segments, reader.records)
  BY ReaderSoundParts DEF ReaderInv
<1>10. ReaderOrder(s, r)
  <2>1. \A i \in DOMAIN s : s[i].archived => Used(s[i].name)
    BY <1>8, <1>9 DEF ReaderOrder
  <2>2. \A i, j \in DOMAIN s : i < j => i + 1 < j + 1
    BY <1>8
  <2>3. \A i, j \in DOMAIN s : i < j =>
          /\ s[i].archived
          /\ s[j].archived => Before(s[i].name, s[j].name)
    BY <1>8, <1>9, <2>2 DEF ReaderOrder
  <2>4. \A i \in DOMAIN r : r[i].of.id <= written
    BY <1>3, <1>6
  <2>5. \A j \in DOMAIN s : j + 1 # 1
    BY <1>8
  <2>6. \A i \in DOMAIN r : \A j \in DOMAIN s : \A y \in Sources(s[j]) : r[i].of.id < y
    BY <1>3, <1>6, <1>8, <2>5
  <2> QED
    BY <2>1, <2>3, <2>4, <2>6 DEF ReaderOrder
<1>11. /\ reader'.at = "read" /\ reader'.segments = s /\ reader'.records = r
       /\ reader'.query.limit = limit
  BY <1>1 DEF ReaderInv, ReaderTyped
<1>12. ReaderTyped'
  BY <1>1, <1>2, <1>6, <1>8 DEF ReaderInv, ReaderTyped
<1>13. \A i, j \in DOMAIN r : i < j => r[i].of.id < r[j].of.id
  BY <1>3, <1>6
<1>14. Len(r) <= limit
  BY <1>5, <1>6
<1> HIDE DEF limit
<1> QED
  BY <1>10, <1>11, <1>12, <1>13, <1>14, ReaderFrom

LEMMA ReaderFinishes ==
  ASSUME Typed, Files, ReaderInv, UNCHANGED archiveVars, Finish
  PROVE  ReaderInv'
<1>1. /\ reader' = [reader EXCEPT !.at = "done", !.segments = <<>>]
      /\ UNCHANGED <<corrupted, owed, broken, finished>>
  BY DEF Finish, archiveVars
<1>2. /\ reader'.at = "done" /\ reader'.segments = <<>> /\ reader'.records = reader.records
      /\ reader'.query = reader.query
  BY <1>1 DEF ReaderInv, ReaderTyped
<1>3. ReaderTyped'
  <2>1. <<>> \in Seq(AnySegment)
    OBVIOUS
  <2> QED
    BY <1>1, <2>1 DEF ReaderInv, ReaderTyped
<1>4. ReaderOrder(reader.segments, reader.records)
  BY ReaderSoundParts DEF ReaderInv
<1>5. ReaderOrder(reader'.segments, reader'.records)
  BY <1>2, <1>4 DEF ReaderOrder
<1>6. /\ \A i, j \in DOMAIN reader'.records :
           i < j => reader'.records[i].of.id < reader'.records[j].of.id
      /\ Len(reader'.records) <= reader'.query.limit
  BY <1>2 DEF ReaderInv, OnceInOrder
<1> QED
  BY <1>2, <1>3, <1>5, <1>6, ReaderFrom

LEMMA ReaderReplies ==
  ASSUME Typed, Files, ReaderInv, UNCHANGED archiveVars, Reply
  PROVE  ReaderInv'
<1>1. reader' = NoQuery /\ corrupted' = 0 /\ owed' = {} /\ UNCHANGED broken
  BY DEF Reply
<1>2. /\ reader'.at = "idle" /\ reader'.segments = <<>> /\ reader'.records = <<>>
      /\ reader'.query.limit = 0 /\ reader'.query = NoQuery.query
      /\ reader' = [at |-> "idle", segments |-> <<>>, records |-> <<>>, query |-> NoQuery.query]
  BY <1>1 DEF NoQuery
<1>3. NoQuery.query \in AnyQuery
  BY DEF AnyQuery
<1>4. ReaderTyped'
  <2>1. <<>> \in Seq(AnySegment) /\ <<>> \in Seq(AnyHit)
    OBVIOUS
  <2>2. reader' \in [at : {"idle", "archive", "active", "read", "done"}, segments : Seq(AnySegment),
                    records : Seq(AnyHit), query : AnyQuery]
    BY <1>2, <1>3, <2>1
  <2> QED
    BY <1>1, <2>2 DEF ReaderInv, ReaderTyped
<1>5. ReaderOrder(reader'.segments, reader'.records)
  BY <1>2 DEF ReaderOrder
<1> QED
  BY <1>2, <1>4, <1>5, ReaderFrom

-----------------------------------------------------------------------------
(* Every step keeps the whole invariant.                                    *)
LEMMA IndParts ==
  /\ IndInv <=> DiskInv /\ Uncut /\ ReaderInv
  /\ IndInv' <=> DiskInv' /\ Uncut' /\ ReaderInv'
BY DEF IndInv, ReaderInv

LEMMA InitInv ==
  ASSUME Init
  PROVE  IndInv
<1>1. Typed /\ Files
  BY TypedInit, FilesInit
<1>2. Ordered /\ Twins /\ Times /\ NothingLost /\ Expiry /\ Encoded
  BY OrderedInit
<1>3. ReaderInv /\ Uncut
  BY ReaderInit
<1> QED
  BY <1>1, <1>2, <1>3, IndParts DEF DiskInv

LEMMA EngineKeeps ==
  ASSUME IndInv, EngineStep, owed' = owed \ Moved, UNCHANGED <<reader, corrupted, broken>>
  PROVE  IndInv'
<1>1. DiskInv /\ Uncut /\ ReaderInv
  BY IndParts
<1>2. Typed /\ Files /\ Ordered /\ Twins /\ Encoded
  BY <1>1 DEF DiskInv
<1>3. DiskInv' /\ Uncut'
  BY <1>1, <1>2, DiskEngine, UncutEngine
<1>4. /\ finished \subseteq finished' /\ written \in Nat /\ written' \in Nat /\ written <= written'
  BY <1>2, WrittenGrows
<1>5. \A s \in AnySegment : (s.archived => Used(s.name)) =>
        /\ \A y \in Sources(s)' : y \in Sources(s) \/ (y \in Nat /\ y > written)
        /\ s.archived => Used(s.name)'
  BY <1>2, SourcesEngine
<1>6. broken' \in Nat
  BY <1>1 DEF ReaderInv, ReaderTyped
<1>7. ReaderInv'
  BY <1>1, <1>4, <1>5, <1>6, ReaderWaits
<1> QED
  BY <1>3, <1>7, IndParts

LEMMA DamageKeeps ==
  ASSUME IndInv, NEW n \in Name, NEW keep \in 0..(Len(gz[n].lines) - 1), Damage(n, keep)
  PROVE  IndInv'
<1>1. DiskInv /\ ReaderInv /\ Typed /\ Files
  BY IndParts DEF DiskInv
<1>2. DiskInv'
  BY <1>1, DiskDamage
<1>3. /\ UNCHANGED <<active, plain, engine, rotation, clock, written, finished, reader, corrupted>>
      /\ LineIds(gz'[n]) \subseteq LineIds(gz[n])
      /\ \A m \in Name : m # n => gz'[m] = gz[m]
      /\ owed' \subseteq owed /\ broken' = broken + 1
  BY <1>1, DamageEffect
<1>4. broken \in Nat /\ written \in Nat
  BY <1>1 DEF ReaderInv, ReaderTyped, Typed
<1>5. \A s \in AnySegment : (s.archived => Used(s.name)) =>
        /\ \A y \in Sources(s)' : y \in Sources(s) \/ (y \in Nat /\ y > written)
        /\ s.archived => Used(s.name)'
  <2> SUFFICES ASSUME NEW s \in AnySegment
               PROVE  /\ Sources(s)' \subseteq Sources(s)
                      /\ Used(s.name) => Used(s.name)'
    OBVIOUS
  <2>1. s.name \in Name
    BY DEF AnySegment
  <2>2. Archive(s.name)' \subseteq Archive(s.name)
    <3>1. LineIds(plain'[s.name]) = LineIds(plain[s.name])
      BY <1>3
    <3>2. LineIds(gz'[s.name]) \subseteq LineIds(gz[s.name])
      BY <1>3, <2>1
    <3>3. Archive(s.name)' = LineIds(plain'[s.name]) \cup LineIds(gz'[s.name])
      BY DEF Archive, LineIds
    <3> QED
      BY <3>1, <3>2, <3>3 DEF Archive
  <2>3. LineIds(active)' = LineIds(active)
    BY <1>3 DEF LineIds
  <2>4. Used(s.name) => Used(s.name)'
    BY <1>3 DEF Used, Working, Fresh
  <2> QED
    BY <2>2, <2>3, <2>4 DEF Sources
<1>6. ReaderInv'
  BY <1>1, <1>3, <1>4, <1>5, ReaderWaits
<1>7. Uncut'
  BY <1>3, <1>4 DEF Uncut
<1> QED
  BY <1>2, <1>6, <1>7, IndParts

LEMMA ReaderKeeps ==
  ASSUME IndInv, UNCHANGED archiveVars,
         (\E q \in Queries : Ask(q)) \/ ListArchive \/ ListActive \/ ReadSegment \/ Finish \/ Reply
  PROVE  IndInv'
<1>1. DiskInv /\ Uncut /\ ReaderInv /\ Typed /\ Files /\ Ordered
  BY IndParts DEF DiskInv
<1>2. DiskInv'
  BY <1>1, DiskReader
<1>3. UNCHANGED <<config, written, cut, broken>>
  BY DEF archiveVars, Ask, ListArchive, ListActive, ReadSegment, Finish, Reply
<1>4. Uncut'
  <2>1. \A id : CodecRestores(id)' <=> CodecRestores(id)
    BY <1>3, Zenon DEF CodecRestores
  <2> QED
    BY <1>1, <1>3, <2>1 DEF Uncut
<1>5. ReaderInv'
  BY <1>1, ReaderAsks, ReaderLists, ReaderListsActive, ReaderReads, ReaderFinishes, ReaderReplies
<1> QED
  BY <1>2, <1>4, <1>5, IndParts

LEMMA Unchanged ==
  ASSUME IndInv, UNCHANGED vars
  PROVE  IndInv'
<1>1. UNCHANGED archiveVars /\ UNCHANGED <<reader, corrupted, owed, broken>>
  BY DEF vars, queryVars
<1>2. DiskInv /\ Uncut /\ ReaderInv
  BY IndParts
<1>3. UNCHANGED <<config, active, plain, gz, engine, clock, rotation, written, finished, cut>>
  BY <1>1 DEF archiveVars, diskVars
<1>4. DiskInv'
  BY <1>1, <1>2, DiskReader
<1>5. Uncut'
  <2>1. \A id : CodecRestores(id)' <=> CodecRestores(id)
    BY <1>3, Zenon DEF CodecRestores
  <2> QED
    BY <1>1, <1>2, <1>3, <2>1 DEF Uncut
<1>6. ReaderInv'
  <2>1. \A s : Sources(s)' = Sources(s)
    BY <1>3 DEF Sources, Archive, LineIds
  <2>2. \A n : Used(n)' <=> Used(n)
    BY <1>3 DEF Used, Working, Fresh
  <2>3. broken' \in Nat /\ written \in Nat /\ written' \in Nat /\ written <= written'
    BY <1>1, <1>2, <1>3 DEF ReaderInv, ReaderTyped, DiskInv, Typed
  <2> QED
    BY <1>1, <1>2, <1>3, <2>1, <2>2, <2>3, ReaderWaits
<1> QED
  BY <1>4, <1>5, <1>6, IndParts

LEMMA StepKeeps ==
  ASSUME IndInv, [Next]_vars
  PROVE  IndInv'
<1>1. CASE EngineStep /\ owed' = owed \ Moved /\ UNCHANGED <<reader, corrupted, broken>>
  BY <1>1, EngineKeeps
<1>2. CASE /\ (\E q \in Queries : Ask(q)) \/ ListArchive \/ ListActive \/ ReadSegment \/ Finish \/ Reply
           /\ UNCHANGED archiveVars
  BY <1>2, ReaderKeeps
<1>3. CASE \E n \in Name : \E keep \in 0..(Len(gz[n].lines) - 1) : Damage(n, keep)
  BY <1>3, DamageKeeps
<1>4. CASE UNCHANGED vars
  BY <1>4, Unchanged
<1> QED
  BY <1>1, <1>2, <1>3, <1>4 DEF Next

(* The files and the reader are always as the invariant says.               *)
THEOREM FilesAndReader == Spec => []IndInv
<1>1. Init => IndInv
  BY InitInv
<1>2. IndInv /\ [Next]_vars => IndInv'
  BY StepKeeps
<1> QED
  BY <1>1, <1>2, PTL DEF Spec

-----------------------------------------------------------------------------
(* The files of the shard, the engine's variables and the reader's have     *)
(* their types.                                                             *)
THEOREM QueryTypes == Spec => []TypeOK
<1>1. IndInv => TypeOK
  <2> SUFFICES ASSUME Typed, ReaderTyped PROVE TypeOK
    BY DEF IndInv, DiskInv
  <2>1. written \in 0..Cardinality(Records)
    <3>1. Cardinality(1..Len(Payload)) = Len(Payload)
      <4> DEFINE n == Len(Payload)
      <4>1. n \in Int /\ 1 \in Int /\ n \in Nat
        BY Bounds
      <4> HIDE DEF n
      <4>2. Cardinality(1..n) = IF 1 > n THEN 0 ELSE n - 1 + 1
        BY <4>1, FS_Interval
      <4> QED
        BY <4>1, <4>2 DEF n
    <3> QED
      BY <3>1, Bounds DEF Typed
  <2>2. \A n \in Name : plain[n].present \in BOOLEAN /\ gz[n].present \in BOOLEAN
    BY DEF Typed, AnyFile
  <2>3. rotation \in 0..(FirstIndex + MaxRotations)
    BY Bounds DEF Typed
  <2>4. /\ engine.at \in {"idle", "writing", "gzip", "remove", "cleanup", "expire", "reopen",
                          "failed", "down"}
        /\ engine.name \in Name /\ {engine.aged, engine.excess} \subseteq SUBSET Name
    BY DEF Typed
  <2>5. reader.at \in {"idle", "archive", "active", "read", "done"} /\ owed \subseteq finished
    BY DEF ReaderTyped
  <2> QED
    BY <2>1, <2>2, <2>3, <2>4, <2>5 DEF TypeOK, Typed
<1> QED
  BY <1>1, FilesAndReader, PTL

(* A reply has every record at most once, in the order of writing and       *)
(* within the limit, whatever the engine renames, compresses, removes and   *)
(* recovers between the listing of the two directories and the reading of   *)
(* each segment.                                                            *)
THEOREM RepliesOnceInOrder == Spec => []OnceInOrder
<1>1. IndInv => OnceInOrder
  BY DEF IndInv
<1> QED
  BY <1>1, FilesAndReader, PTL

(* Rotation, compression, cleanup, crashes between any two of their steps   *)
(* and recovery lose no record but the expired, the damaged and the         *)
(* unverifiable; and recovery cuts off no whole line that the codec can     *)
(* bring back.                                                              *)
THEOREM ArchiveKeepsHolds == Spec => []ArchiveKeeps
<1>1. IndInv => ArchiveKeeps
  <2> SUFFICES ASSUME Typed, Files, NothingLost, Uncut PROVE ArchiveKeeps
    BY DEF IndInv, DiskInv
  <2>1. \A n \in Name : Archive(n) = Ids(plain[n]) \cup Ids(gz[n])
    BY ArchiveIds
  <2>2. finished \ (expired \cup cut) \subseteq
          Ids(active) \cup UNION {Ids(plain[n]) \cup Ids(gz[n]) : n \in Name}
    BY <2>1 DEF NothingLost
  <2> QED
    BY <2>2 DEF ArchiveKeeps, Uncut
<1> QED
  BY <1>1, FilesAndReader, PTL

(* The segments that are kept, as many of the youngest as the configuration *)
(* says, were written after everything that expired, wherever a cleanup     *)
(* died, failed or is looked at between two of its removals and however     *)
(* many earlier ones left to it; once it is through, so was all that is     *)
(* left in the archive.                                                     *)
THEOREM OldestExpireHolds == Spec => []OldestExpire
<1>1. IndInv => OldestExpire
  <2> SUFFICES ASSUME Typed, Files, Expiry PROVE OldestExpire
    BY DEF IndInv, DiskInv
  <2>1. \A n \in Named : n \in Name /\ Archive(n) = Ids(plain[n]) \cup Ids(gz[n])
    BY ArchiveIds DEF Named
  <2>2. \A n \in Named : {m \in Named : Before(n, m)} = Later(n, Named)
    BY DEF Later
  <2> SUFFICES ASSUME NEW n \in Named,
                      Cardinality({m \in Named : Before(n, m)}) < MaxArchived \/ engine.at = "reopen",
                      NEW id \in (Ids(plain[n]) \cup Ids(gz[n])) \ expired, NEW gone \in expired
               PROVE  gone < id
    BY DEF OldestExpire
  <2>3. Cardinality(Later(n, Named)) < MaxArchived \/ engine.at = "reopen"
    BY <2>2
  <2>4. n \in Name /\ id \in Archive(n) /\ id \notin expired
    BY <2>1
  <2> QED
    BY <2>3, <2>4, ExpiryIs
<1> QED
  BY <1>1, FilesAndReader, PTL

-----------------------------------------------------------------------------
(* Induction over the naturals, for a set.                                  *)
LEMMA Inductive ==
  ASSUME NEW S, 0 \in S, \A n \in Nat : n \in S => n + 1 \in S
  PROVE  Nat \subseteq S
<1> SUFFICES ASSUME Nat \ S # {} PROVE FALSE
  OBVIOUS
<1>1. PICK x \in Nat \ S : \A y \in Nat \ S : x <= y
  BY Least
<1>2. x # 0 /\ x - 1 \in Nat /\ ~ (x <= x - 1)
  OBVIOUS
<1>3. x - 1 \in S
  BY <1>1, <1>2
<1> QED
  BY <1>2, <1>3

LEMMA Single ==
  ASSUME NEW S, NEW x \in S
  PROVE  <<x>> \in Seq(S) /\ Len(<<x>>) = 1 /\ <<x>>[1] = x
OBVIOUS

LEMMA JoinedThree ==
  ASSUME NEW S, NEW a \in Seq(S), NEW b \in Seq(S), NEW c \in Seq(S), a # <<>>
  PROVE  a \o b \o c \in Seq(S) /\ a \o b \o c # <<>> /\ (a \o b \o c)[1] = a[1]
<1>1. Len(a) \in Nat \ {0} /\ Len(b) \in Nat /\ Len(c) \in Nat
  OBVIOUS
<1>2. a \o b \in Seq(S) /\ Len(a \o b) = Len(a) + Len(b) /\ (a \o b)[1] = a[1]
  BY <1>1
<1> QED
  BY <1>1, <1>2

LEMMA SeqGrows ==
  ASSUME NEW S, NEW T, S \subseteq T
  PROVE  Seq(S) \subseteq Seq(T)
OBVIOUS

Word == STRING \cup {" "}

(* The text of a payload: some words, of which the first is the key of its  *)
(* first piece.                                                             *)
LEMMA SanitizedIs ==
  ASSUME NEW p \in Seq(Piece), p # <<>>
  PROVE  Sanitized(p) \in Seq(Word) /\ Sanitized(p) # <<>> /\ Sanitized(p)[1] = p[1].key
<1> DEFINE L == Len(p)
           Good(t) == t \in Seq(Word) /\ t # <<>> /\ t[1] = p[1].key
           Next1(f, n) == IF n = 1 THEN Words(p[1]) ELSE f[n - 1] \o <<" ">> \o Words(p[n])
           F(f, k) == [n \in 1..k |-> Next1(f, n)]
           E(k) == \E f : f = F(f, k)
<1>1. L \in Nat \ {0} /\ \A n \in 1..L : p[n] \in Piece
  OBVIOUS
<1>2. \A n \in 1..L : Words(p[n]) \in Seq(Word) /\ Words(p[n]) # <<>> /\ Words(p[n])[1] = p[n].key
  <2> SUFFICES ASSUME NEW n \in 1..L
               PROVE  Words(p[n]) \in Seq(Word) /\ Words(p[n]) # <<>> /\ Words(p[n])[1] = p[n].key
    OBVIOUS
  <2>1. p[n].key \in Word /\ p[n].text \in Seq(Word)
    <3>1. p[n].key \in STRING /\ p[n].text \in Seq(STRING)
      BY <1>1 DEF Piece
    <3>2. STRING \subseteq Word /\ Seq(STRING) \subseteq Seq(Word)
      BY SeqGrows DEF Word
    <3> QED
      BY <3>1, <3>2
  <2>2. <<p[n].key>> \in Seq(Word) /\ Len(<<p[n].key>>) = 1 /\ <<p[n].key>>[1] = p[n].key
    BY <2>1
  <2> QED
    BY <2>1, <2>2 DEF Words
<1>3. E(0)
  <2> DEFINE none == [n \in 1..0 |-> 0]
  <2>1. none = F(none, 0)
    BY DEF none
  <2> HIDE DEF F, none
  <2> QED
    BY <2>1
<1>4. ASSUME NEW k \in Nat, E(k) PROVE E(k + 1)
  <2>1. PICK f : f = F(f, k)
    BY <1>4
  <2>2. PICK last : last = Next1(f, k + 1)
    OBVIOUS
  <2> DEFINE h == [n \in 1..(k + 1) |-> IF n = k + 1 THEN last ELSE f[n]]
  <2>3. \A n \in 1..k : f[n] = Next1(f, n)
    <3>1. \A n \in 1..k : F(f, k)[n] = Next1(f, n)
      BY DEF F
    <3> HIDE DEF F, Next1
    <3> QED
      BY <2>1, <3>1
  <2>4. \A n \in 1..(k + 1) : n # 1 => h[n - 1] = f[n - 1]
    OBVIOUS
  <2>5. \A n \in 1..(k + 1) : Next1(h, n) = Next1(f, n)
    <3> HIDE DEF h
    <3> QED
      BY <2>4
  <2>6. \A n \in 1..(k + 1) : n = k + 1 \/ n \in 1..k
    OBVIOUS
  <2>7. \A n \in 1..(k + 1) : h[n] = Next1(h, n)
    <3> HIDE DEF Next1
    <3> QED
      BY <2>2, <2>3, <2>5, <2>6
  <2>8. h = F(h, k + 1)
    <3>1. h = [n \in 1..(k + 1) |-> h[n]]
      OBVIOUS
    <3> HIDE DEF h, Next1
    <3> QED
      BY <2>7, <3>1
  <2> HIDE DEF h, F
  <2> QED
    BY <2>8
<1>5. E(L)
  <2> HIDE DEF E
  <2> DEFINE S == {k \in Nat : E(k)}
  <2>1. 0 \in S /\ \A n \in Nat : n \in S => n + 1 \in S
    BY <1>3, <1>4
  <2> HIDE DEF S
  <2>2. Nat \subseteq S
    BY <2>1, Inductive
  <2> QED
    BY <1>1, <2>2 DEF S
<1> DEFINE g == CHOOSE f : f = F(f, L)
<1>6. g = F(g, L)
  <2> HIDE DEF F
  <2> QED
    BY <1>5
<1>7. Sanitized(p) = g[L]
  BY DEF Sanitized
<1> HIDE DEF g
<1>8. \A n \in 1..L : g[n] = Next1(g, n)
  <2>1. \A n \in 1..L : F(g, L)[n] = Next1(g, n)
    BY DEF F
  <2> HIDE DEF F, Next1
  <2> QED
    BY <1>6, <2>1
<1> DEFINE T == {n \in Nat : n + 1 <= L => Good(g[n + 1])}
<1>9. 0 \in T
  <2>1. 1 \in 1..L /\ 0 + 1 = 1
    BY <1>1
  <2>2. g[1] = Words(p[1])
    BY <1>8, <2>1
  <2>3. Good(g[1])
    BY <1>2, <2>1, <2>2
  <2> HIDE DEF Good
  <2> QED
    BY <2>1, <2>3
<1>10. ASSUME NEW n \in Nat, n \in T PROVE n + 1 \in T
  <2> SUFFICES ASSUME (n + 1) + 1 <= L PROVE Good(g[(n + 1) + 1])
    OBVIOUS
  <2>1. Good(g[n + 1])
    BY <1>1, <1>10
  <2>2. (n + 1) + 1 \in 1..L /\ (n + 1) + 1 # 1 /\ ((n + 1) + 1) - 1 = n + 1
    BY <1>1
  <2>3. g[(n + 1) + 1] = g[n + 1] \o <<" ">> \o Words(p[(n + 1) + 1])
    BY <1>8, <2>2
  <2>4. PICK u, v : u = g[n + 1] /\ v = Words(p[(n + 1) + 1])
    OBVIOUS
  <2>5. u \in Seq(Word) /\ u # <<>> /\ u[1] = p[1].key /\ v \in Seq(Word)
    BY <1>2, <2>1, <2>2, <2>4
  <2>6. <<" ">> \in Seq(Word)
    <3>1. " " \in Word
      BY DEF Word
    <3> QED
      BY <3>1, Single
  <2>7. /\ u \o <<" ">> \o v \in Seq(Word) /\ u \o <<" ">> \o v # <<>>
        /\ (u \o <<" ">> \o v)[1] = u[1]
    BY <2>5, <2>6, JoinedThree
  <2> QED
    BY <2>3, <2>4, <2>5, <2>7
<1>11. L - 1 \in T
  <2> HIDE DEF T
  <2>1. Nat \subseteq T
    BY <1>9, <1>10, Inductive
  <2> QED
    BY <1>1, <2>1
<1>12. Good(g[L])
  BY <1>1, <1>11
<1> QED
  BY <1>7, <1>12

(* The text of a record, by what it begins with.                            *)
LEMMA TextIs ==
  ASSUME NEW id \in Records
  PROVE  /\ TextOf(id) \in Seq(Word) /\ TextOf(id) # <<>> /\ Len(TextOf(id)) \in Nat \ {0}
         /\ TextOf(id)[1] = Payload[id][1].key /\ Head(TextOf(id)) = Payload[id][1].key
         /\ <<Payload[id][1].key>> \o Tail(TextOf(id)) = TextOf(id)
<1>1. TextOf(id) \in Seq(Word) /\ TextOf(id) # <<>> /\ TextOf(id)[1] = Payload[id][1].key
  BY PayloadPieces, SanitizedIs DEF TextOf
<1>2. ASSUME NEW t \in Seq(Word), t # <<>> PROVE <<t[1]>> \o Tail(t) = t
  BY <1>2
<1>3. Len(TextOf(id)) \in Nat \ {0} /\ Head(TextOf(id)) = TextOf(id)[1]
  BY <1>1
<1> QED
  BY <1>1, <1>2, <1>3

-----------------------------------------------------------------------------
(* What a field of the metadata says of record id, written with number n.   *)
Values(id, n) == [ts |-> id, shard |-> 0, seq |-> n, level |-> id % 3]
FieldOf(id, n, key) == Field(key, <<>>, Values(id, n)[key])
MetadataKeys == {"ts", "shard", "seq", "level"}

(* The fields of a body besides the payload are those that the options ask  *)
(* for.                                                                     *)
Bears(b, c, id, n) ==
  /\ \E L \in Nat : DOMAIN b = 1..L
  /\ \A i \in DOMAIN b : b[i].key = "payload" \/ \E key \in c.fields : b[i] = FieldOf(id, n, key)
  /\ \A key \in c.fields : \E i \in DOMAIN b : b[i] = FieldOf(id, n, key)

FieldsIn(s) == {s[i] : i \in DOMAIN s}

LEMMA JoinedFields ==
  ASSUME NEW S, NEW a \in Seq(S), NEW b \in Seq(S)
  PROVE  FieldsIn(a \o b) = FieldsIn(a) \cup FieldsIn(b)
<1>1. /\ Len(a) \in Nat /\ Len(b) \in Nat /\ DOMAIN a = 1..Len(a) /\ DOMAIN b = 1..Len(b)
      /\ DOMAIN (a \o b) = 1..(Len(a) + Len(b))
      /\ \A i \in 1..Len(a) : (a \o b)[i] = a[i]
      /\ \A i \in 1..Len(b) : (a \o b)[Len(a) + i] = b[i]
  OBVIOUS
<1>2. \A i \in 1..(Len(a) + Len(b)) : i \in 1..Len(a) \/ (i - Len(a) \in 1..Len(b) /\ i = Len(a) + (i - Len(a)))
  BY <1>1
<1>3. \A i \in 1..Len(b) : Len(a) + i \in 1..(Len(a) + Len(b))
  BY <1>1
<1>4. 1..Len(a) \subseteq 1..(Len(a) + Len(b))
  BY <1>1
<1>5. FieldsIn(a \o b) \subseteq FieldsIn(a) \cup FieldsIn(b)
  BY <1>1, <1>2 DEF FieldsIn
<1>6. FieldsIn(a) \subseteq FieldsIn(a \o b)
  BY <1>1, <1>4 DEF FieldsIn
<1>7. FieldsIn(b) \subseteq FieldsIn(a \o b)
  BY <1>1, <1>3 DEF FieldsIn
<1> QED
  BY <1>5, <1>6, <1>7

LEMMA MetadataHas ==
  ASSUME NEW c \in CodecConfig, NEW id \in Records, NEW n \in Nat
  PROVE  FieldsIn(MetadataOf(c, id, n)) = {FieldOf(id, n, key) : key \in c.fields}
<1> DEFINE rec == RecordFor(id, n)
           w(key) == IF key \in c.fields THEN <<Field(key, <<>>, rec[key])>> ELSE <<>>
           S == {FieldOf(id, n, key) : key \in MetadataKeys}
           One(key) == IF key \in c.fields THEN {FieldOf(id, n, key)} ELSE {}
<1>1. \A key \in MetadataKeys : rec[key] = Values(id, n)[key]
  BY DEF RecordFor, Values, MetadataKeys
<1>2. \A key \in MetadataKeys : w(key) = IF key \in c.fields THEN <<FieldOf(id, n, key)>> ELSE <<>>
  BY <1>1 DEF FieldOf
<1>3. MetadataOf(c, id, n) = w("ts") \o w("shard") \o w("seq") \o w("level")
  BY DEF MetadataOf, Metadata
<1> HIDE DEF w, rec
<1>4. ASSUME NEW key \in MetadataKeys PROVE w(key) \in Seq(S) /\ FieldsIn(w(key)) = One(key)
  <2>1. PICK f : f = FieldOf(id, n, key)
    OBVIOUS
  <2>2. f \in S
    BY <2>1
  <2> HIDE DEF S
  <2>3. <<f>> \in Seq(S) /\ <<>> \in Seq(S) /\ FieldsIn(<<f>>) = {f} /\ FieldsIn(<<>>) = {}
    BY <2>2 DEF FieldsIn
  <2> QED
    BY <1>2, <2>1, <2>3
<1>5. "ts" \in MetadataKeys /\ "shard" \in MetadataKeys /\ "seq" \in MetadataKeys /\ "level" \in MetadataKeys
  BY DEF MetadataKeys
<1>6. /\ w("ts") \in Seq(S) /\ w("shard") \in Seq(S) /\ w("seq") \in Seq(S) /\ w("level") \in Seq(S)
      /\ FieldsIn(w("ts")) = One("ts") /\ FieldsIn(w("shard")) = One("shard")
      /\ FieldsIn(w("seq")) = One("seq") /\ FieldsIn(w("level")) = One("level")
  BY <1>4, <1>5
<1> HIDE DEF S, One
<1>7. PICK u : u = w("ts") \o w("shard")
  OBVIOUS
<1>7a. u \in Seq(S)
  BY <1>6, <1>7, Joined
<1>8. PICK v : v = u \o w("seq")
  OBVIOUS
<1>8a. v \in Seq(S)
  BY <1>6, <1>7a, <1>8, Joined
<1>9. MetadataOf(c, id, n) = v \o w("level")
  BY <1>3, <1>7, <1>8
<1>10. FieldsIn(MetadataOf(c, id, n)) = One("ts") \cup One("shard") \cup One("seq") \cup One("level")
  <2>1. FieldsIn(u) = One("ts") \cup One("shard")
    BY <1>6, <1>7, JoinedFields
  <2>2. FieldsIn(v) = FieldsIn(u) \cup One("seq")
    BY <1>6, <1>7a, <1>8, JoinedFields
  <2>3. FieldsIn(v \o w("level")) = FieldsIn(v) \cup One("level")
    BY <1>6, <1>8a, JoinedFields
  <2> QED
    BY <1>9, <2>1, <2>2, <2>3
<1>11. c.fields \subseteq MetadataKeys
  BY DEF CodecConfig, MetadataKeys
<1>12. One("ts") \cup One("shard") \cup One("seq") \cup One("level") = {FieldOf(id, n, key) : key \in c.fields}
  BY <1>11 DEF One, MetadataKeys
<1> QED
  BY <1>10, <1>12

(* The first field with a key.                                              *)
LEMMA Extracted ==
  ASSUME NEW b, NEW L \in Nat, DOMAIN b = 1..L, NEW key, Has(b, key)
  PROVE  \E i \in DOMAIN b : b[i].key = key /\ Extract(b, key) = b[i]
<1> DEFINE First(i) == b[i].key = key /\ \A j \in 1..(i - 1) : b[j].key # key
           T == {i \in DOMAIN b : b[i].key = key}
<1>1. T \subseteq Nat /\ T # {}
  BY DEF Has
<1>2. PICK i \in T : \A j \in T : i <= j
  BY <1>1, Least
<1>3. i \in DOMAIN b /\ First(i)
  <2>1. i \in 1..L
    BY <1>2
  <2> QED
    BY <1>2, <2>1
<1> DEFINE e == CHOOSE i_1 \in DOMAIN b : First(i_1)
<1>4. e \in DOMAIN b /\ First(e)
  <2> HIDE DEF First
  <2> QED
    BY <1>3
<1>5. Extract(b, key) = b[e]
  BY DEF Extract
<1> HIDE DEF e
<1> QED
  BY <1>4, <1>5

(* What a reader makes of the metadata.                                     *)
LEMMA NumbersRead ==
  ASSUME NEW c \in CodecConfig, NEW id, NEW n, NEW b, Bears(b, c, id, n),
         NEW key \in MetadataKeys, NEW default
  PROVE  /\ Has(b, key) <=> key \in c.fields
         /\ key \in c.fields => Extract(b, key) = FieldOf(id, n, key)
         /\ NumberOr(b, key, default) = IF key \in c.fields THEN Values(id, n)[key] ELSE default
<1>1. \A k : FieldOf(id, n, k).key = k /\ FieldOf(id, n, k).num = Values(id, n)[k]
  BY DEF FieldOf, Field
<1>2. key # "payload"
  BY DEF MetadataKeys
<1>3. Has(b, key) <=> key \in c.fields
  BY <1>1, <1>2 DEF Has, Bears
<1>4. ASSUME key \in c.fields PROVE Extract(b, key) = FieldOf(id, n, key)
  <2>1. \E i \in DOMAIN b : b[i].key = key /\ Extract(b, key) = b[i]
    BY <1>3, <1>4, Extracted DEF Bears
  <2> QED
    BY <1>1, <1>2, <2>1 DEF Bears
<1> QED
  BY <1>1, <1>3, <1>4 DEF NumberOr

(* A line of the encoder.                                                   *)
LEMMA LineBears ==
  ASSUME NEW c \in CodecConfig, NEW id \in Records, NEW n \in Nat, Structured(c)
  PROVE  LET b == LineOf(c, id, n).body IN
         /\ Bears(b, c, id, n)
         /\ Has(b, "payload") /\ Extract(b, "payload").text = TextOf(id)
<1> DEFINE b == LineOf(c, id, n).body
           m == MetadataOf(c, id, n)
<1>1. /\ Len(b) = Len(m) + 1 /\ Len(m) \in Nat /\ DOMAIN b = 1..(Len(m) + 1) /\ DOMAIN m = 1..Len(m)
      /\ b[Len(m) + 1] = PayloadField(id)
      /\ \A i \in 1..Len(m) : b[i] = m[i] /\ m[i] \in MetadataFields(id, n)
  <2>1. m \in Seq(MetadataFields(id, n))
    BY MetadataIs
  <2>2. /\ b \in Seq(MetadataFields(id, n) \cup {PayloadField(id)})
        /\ Len(b) = Len(m) + 1 /\ Len(m) \in Nat /\ b[Len(m) + 1] = PayloadField(id)
        /\ \A i \in 1..Len(m) : b[i] = m[i] /\ m[i] \in MetadataFields(id, n)
    BY StructuredLine
  <2> HIDE DEF b, m
  <2>3. DOMAIN b = 1..(Len(m) + 1) /\ DOMAIN m = 1..Len(m)
    BY <2>1, <2>2
  <2> QED
    BY <2>2, <2>3
<1>2. PayloadField(id).key = "payload" /\ PayloadField(id).text = TextOf(id)
  BY DEF PayloadField, Field
<1>3. FieldsIn(m) = {FieldOf(id, n, key) : key \in c.fields}
  BY MetadataHas
<1> HIDE DEF b, m
<1>4. \A i \in 1..(Len(m) + 1) : i \in 1..Len(m) \/ i = Len(m) + 1
  BY <1>1
<1>5. 1..Len(m) \subseteq 1..(Len(m) + 1) /\ Len(m) + 1 \in 1..(Len(m) + 1) /\ Len(m) + 1 \in Nat
  BY <1>1
<1>6. Bears(b, c, id, n)
  <2>1. \A i \in 1..Len(m) : \E key \in c.fields : m[i] = FieldOf(id, n, key)
    BY <1>1, <1>3 DEF FieldsIn
  <2>2. \A key \in c.fields : \E i \in 1..Len(m) : m[i] = FieldOf(id, n, key)
    BY <1>1, <1>3 DEF FieldsIn
  <2> QED
    BY <1>1, <1>2, <1>4, <1>5, <2>1, <2>2 DEF Bears
<1>7. Has(b, "payload")
  BY <1>1, <1>2, <1>5 DEF Has
<1>8. PICK i \in DOMAIN b : b[i].key = "payload" /\ Extract(b, "payload") = b[i]
  BY <1>1, <1>5, <1>7, Extracted
<1>9. \A f \in MetadataFields(id, n) : f.key # "payload"
  BY DEF MetadataFields, Field
<1>10. i = Len(m) + 1
  BY <1>1, <1>4, <1>8, <1>9
<1> QED
  BY <1>1, <1>2, <1>6, <1>7, <1>8, <1>10 DEF b

-----------------------------------------------------------------------------
LEMMA JsonFinds ==
  ASSUME NEW w, DOMAIN w = 1..6, Len(w) = 6, NEW i \in 1..5, NEW key, w[i] = key,
         \A j \in 1..(i - 1) : w[j] # key, i % 2 = 1 \/ i + 2 <= 6
  PROVE  JsonHas(w, key) /\ JsonString(w, key) = w[IF i % 2 = 1 THEN i + 1 ELSE i + 2]
<1> DEFINE P(k) == w[k] = key /\ \A j \in 1..(k - 1) : w[j] # key
           at == CHOOSE k \in DOMAIN w : P(k)
<1>1. JsonHas(w, key)
  <2>1. i \in 1..(Len(w) - 1)
    OBVIOUS
  <2> QED
    BY <2>1 DEF JsonHas
<1>2. i \in DOMAIN w /\ P(i)
  OBVIOUS
<1>3. at \in DOMAIN w /\ P(at)
  <2> HIDE DEF P
  <2> QED
    BY <1>2
<1>4. JsonString(w, key) = w[IF at % 2 = 1 THEN at + 1 ELSE at + 2]
  BY DEF JsonString
<1> HIDE DEF at
<1>5. at = i
  <2>1. ~ (at < i) /\ ~ (i < at) /\ at \in Int /\ i \in Int
    BY <1>2, <1>3
  <2> QED
    BY <2>1
<1> QED
  BY <1>1, <1>4, <1>5

LEMMA Tails ==
  ASSUME NEW S, NEW r \in Seq(S), r # <<>>
  PROVE  /\ Head(r) = r[1] /\ Len(Tail(r)) = Len(r) - 1 /\ DOMAIN Tail(r) = 1..(Len(r) - 1)
         /\ \A i \in 1..(Len(r) - 1) : Tail(r)[i] = r[i + 1]
OBVIOUS

(* A sequence with one more element before it.                              *)
LEMMA Behind ==
  ASSUME NEW S, NEW u \in Seq(S), NEW x \in Seq(S), Len(u) = 1
  PROVE  /\ u \o x # <<>> /\ Head(u \o x) = u[1] /\ \A i \in 1..Len(x) : (u \o x)[i + 1] = x[i]
         /\ DOMAIN Tail(u \o x) = 1..Len(x) /\ Len(Tail(u \o x)) = Len(x)
         /\ \A i \in 1..Len(x) : Tail(u \o x)[i] = x[i]
<1>1. /\ u \o x \in Seq(S) /\ Len(u \o x) = Len(u) + Len(x) /\ \A i \in 1..Len(u) : (u \o x)[i] = u[i]
      /\ \A i \in 1..Len(x) : (u \o x)[Len(u) + i] = x[i]
      /\ Len(x) \in Nat
  <2>1. \A a, b \in Seq(S) :
        /\ a \o b \in Seq(S) /\ Len(a \o b) = Len(a) + Len(b) /\ \A i \in 1..Len(a) : (a \o b)[i] = a[i]
        /\ \A i \in 1..Len(b) : (a \o b)[Len(a) + i] = b[i]
        /\ Len(b) \in Nat
    <3> TAKE a, b \in Seq(S)
    <3> QED
      BY Joined
  <2> QED
    BY <2>1, Zenon
<1>2. PICK t : t = u \o x
  OBVIOUS
<1>2a. /\ t \in Seq(S) /\ Len(t) = 1 + Len(x) /\ t[1] = u[1]
      /\ \A i \in 1..Len(x) : t[1 + i] = x[i]
  BY <1>1, <1>2
<1>3. t[1] = u[1] /\ \A i \in 1..Len(x) : t[i + 1] = x[i]
  BY <1>1, <1>2a
<1>4. t # <<>> /\ Len(t) - 1 = Len(x)
  BY <1>1, <1>2a
<1>5. /\ Head(t) = t[1] /\ DOMAIN Tail(t) = 1..Len(x) /\ Len(Tail(t)) = Len(x)
      /\ \A i \in 1..Len(x) : Tail(t)[i] = t[i + 1]
  BY <1>1, <1>2a, <1>4, Tails
<1> QED
  BY <1>2, <1>3, <1>4, <1>5

(* The words of an envelope, whatever it begins with.                       *)
Envelope(z, m, a, s) == <<z>> \o <<"message", m, "agent_id", a, "source_id", s>>

LEMMA EnvelopeWords ==
  ASSUME NEW z, NEW m, NEW a, NEW s, m # "source_id", NEW t, t = Envelope(z, m, a, s)
  PROVE  /\ t # <<>> /\ Head(t) = z
         /\ JsonHas(Tail(t), "message") /\ JsonString(Tail(t), "message") = t[3]
         /\ JsonHas(Tail(t), "agent_id") /\ JsonString(Tail(t), "agent_id") = t[5]
         /\ JsonHas(Tail(t), "source_id") /\ JsonString(Tail(t), "source_id") = t[7]
<1> DEFINE S == {z, "message", m, "agent_id", a, "source_id", s}
           x == <<"message", m, "agent_id", a, "source_id", s>>
<1>0. /\ x \in Seq(S) /\ Len(x) = 6 /\ z \in S
      /\ x[1] = "message" /\ x[2] = m /\ x[3] = "agent_id" /\ x[4] = a /\ x[5] = "source_id" /\ x[6] = s
  OBVIOUS
<1>1. t = <<z>> \o x
  BY Zenon DEF Envelope
<1>2. PICK w : w = Tail(t)
  OBVIOUS
<1>3. /\ t # <<>> /\ Head(t) = z /\ \A i \in 1..6 : t[i + 1] = x[i]
      /\ DOMAIN w = 1..6 /\ Len(w) = 6 /\ \A i \in 1..6 : w[i] = x[i]
  <2> HIDE DEF S, x
  <2>1. PICK u : u = <<z>>
    OBVIOUS
  <2>2. u \in Seq(S) /\ Len(u) = 1 /\ u[1] = z
    BY <1>0, <2>1, Single
  <2>3. t = u \o x
    BY <1>1, <2>1, Zenon
  <2>4. x \in Seq(S)
    BY <1>0
  <2>5. /\ u \o x # <<>> /\ Head(u \o x) = u[1] /\ \A i \in 1..Len(x) : (u \o x)[i + 1] = x[i]
        /\ DOMAIN Tail(u \o x) = 1..Len(x) /\ Len(Tail(u \o x)) = Len(x)
        /\ \A i \in 1..Len(x) : Tail(u \o x)[i] = x[i]
    BY <2>2, <2>4, Behind
  <2>6. /\ t # <<>> /\ Head(t) = z /\ \A i \in 1..Len(x) : t[i + 1] = x[i]
        /\ DOMAIN w = 1..Len(x) /\ Len(w) = Len(x) /\ \A i \in 1..Len(x) : w[i] = x[i]
    BY <1>2, <2>2, <2>3, <2>5, Zenon
  <2>7. Len(x) = 6
    BY <1>0
  <2> QED
    BY <2>6, <2>7, Zenon
<1>4. /\ t[1 + 1] = x[1] /\ t[2 + 1] = x[2] /\ t[3 + 1] = x[3] /\ t[4 + 1] = x[4]
      /\ t[5 + 1] = x[5] /\ t[6 + 1] = x[6]
      /\ w[1] = x[1] /\ w[2] = x[2] /\ w[3] = x[3] /\ w[4] = x[4] /\ w[5] = x[5] /\ w[6] = x[6]
  <2> HIDE DEF x
  <2> QED
    BY <1>3
<1>4a. t[3] = m /\ t[5] = a /\ t[7] = s
  <2> HIDE DEF x
  <2> QED
    BY <1>0, <1>4
<1>5. /\ w[1] = "message" /\ w[2] = m /\ w[3] = "agent_id" /\ w[4] = a /\ w[5] = "source_id" /\ w[6] = s
  <2> HIDE DEF x
  <2> QED
    BY <1>0, <1>4
<1>6. JsonHas(w, "message") /\ JsonString(w, "message") = m
  <2>1. 1 \in 1..5 /\ 1 % 2 = 1 /\ \A j \in 1..(1 - 1) : w[j] # "message"
    OBVIOUS
  <2>2. JsonHas(w, "message") /\ JsonString(w, "message") = w[IF 1 % 2 = 1 THEN 1 + 1 ELSE 1 + 2]
    BY <1>3, <1>5, <2>1, JsonFinds
  <2> QED
    BY <1>5, <2>1, <2>2
<1>7. JsonHas(w, "agent_id") /\ JsonString(w, "agent_id") = a
  <2>1. CASE m = "agent_id"
    <3>1. 2 \in 1..5 /\ 2 % 2 # 1 /\ 2 + 2 <= 6 /\ \A j \in 1..(2 - 1) : w[j] # "agent_id"
      BY <1>5
    <3>2. JsonHas(w, "agent_id") /\ JsonString(w, "agent_id") = w[IF 2 % 2 = 1 THEN 2 + 1 ELSE 2 + 2]
      BY <1>3, <1>5, <2>1, <3>1, JsonFinds
    <3> QED
      BY <1>5, <3>1, <3>2
  <2>2. CASE m # "agent_id"
    <3>1. 3 \in 1..5 /\ 3 % 2 = 1 /\ \A j \in 1..(3 - 1) : w[j] # "agent_id"
      <4>1. \A j \in 1..(3 - 1) : j = 1 \/ j = 2
        OBVIOUS
      <4> QED
        BY <1>5, <2>2, <4>1
    <3>2. JsonHas(w, "agent_id") /\ JsonString(w, "agent_id") = w[IF 3 % 2 = 1 THEN 3 + 1 ELSE 3 + 2]
      BY <1>3, <1>5, <3>1, JsonFinds
    <3> QED
      BY <1>5, <3>1, <3>2
  <2> QED
    BY <2>1, <2>2
<1>8. JsonHas(w, "source_id") /\ JsonString(w, "source_id") = s
  <2>1. CASE a = "source_id"
    <3>1. 4 \in 1..5 /\ 4 % 2 # 1 /\ 4 + 2 <= 6 /\ \A j \in 1..(4 - 1) : w[j] # "source_id"
      <4>1. \A j \in 1..(4 - 1) : j = 1 \/ j = 2 \/ j = 3
        OBVIOUS
      <4> QED
        BY <1>5, <4>1
    <3>2. JsonHas(w, "source_id") /\ JsonString(w, "source_id") = w[IF 4 % 2 = 1 THEN 4 + 1 ELSE 4 + 2]
      BY <1>3, <1>5, <2>1, <3>1, JsonFinds
    <3> QED
      BY <1>5, <3>1, <3>2
  <2>2. CASE a # "source_id"
    <3>1. 5 \in 1..5 /\ 5 % 2 = 1 /\ \A j \in 1..(5 - 1) : w[j] # "source_id"
      <4>1. \A j \in 1..(5 - 1) : j = 1 \/ j = 2 \/ j = 3 \/ j = 4
        OBVIOUS
      <4> QED
        BY <1>5, <2>2, <4>1
    <3>2. JsonHas(w, "source_id") /\ JsonString(w, "source_id") = w[IF 5 % 2 = 1 THEN 5 + 1 ELSE 5 + 2]
      BY <1>3, <1>5, <3>1, JsonFinds
    <3> QED
      BY <1>5, <3>1, <3>2
  <2> QED
    BY <2>1, <2>2
<1> QED
  BY <1>2, <1>3, <1>4a, <1>6, <1>7, <1>8

(* And what the parser takes from them.                                     *)
LEMMA EnvelopeRead ==
  ASSUME NEW t, t # <<>>, Head(t) = "{",
         JsonHas(Tail(t), "message"), JsonHas(Tail(t), "agent_id"), JsonHas(Tail(t), "source_id")
  PROVE  /\ InEnvelope(t, "message") /\ FromEnvelope(t, "message", "") = JsonString(Tail(t), "message")
         /\ FromEnvelope(t, "agent_id", "") = JsonString(Tail(t), "agent_id")
         /\ FromEnvelope(t, "source_id", "") = JsonString(Tail(t), "source_id")
BY Zenon DEF InEnvelope, FromEnvelope

(* A payload of one piece.                                                  *)
LEMMA OnePiece ==
  ASSUME NEW p, Len(p) = 1
  PROVE  Sanitized(p) = Words(p[1])
<1> DEFINE F(f) == [i \in 1..Len(p) |-> IF i = 1 THEN Words(p[1]) ELSE f[i - 1] \o <<" ">> \o Words(p[i])]
           f0 == [i \in 1..Len(p) |-> Words(p[1])]
           up == CHOOSE f : f = F(f)
<1>1. 1..Len(p) = {1}
  OBVIOUS
<1>2. \A f : F(f)[1] = Words(p[1]) /\ F(f) = f0
  BY <1>1
<1>3. f0 = F(f0)
  BY <1>2
<1>4. up = F(up)
  <2> HIDE DEF F, f0
  <2> QED
    BY <1>3
<1>5. up[1] = Words(p[1])
  <2>1. F(up)[1] = Words(p[1])
    BY <1>2
  <2> HIDE DEF F, up
  <2> QED
    BY <1>4, <2>1
<1>6. Sanitized(p) = up[Len(p)]
  BY DEF Sanitized
<1> QED
  BY <1>5, <1>6

(* What a reader makes of the text of a record.                             *)
LEMMA TextRead ==
  ASSUME Envelopes, NEW id \in Records
  PROVE  LET t == TextOf(id) IN
         /\ Head(t) = "{" => /\ InEnvelope(t, "message") /\ FromEnvelope(t, "message", "") = t[3]
                             /\ FromEnvelope(t, "agent_id", "") = t[5]
                             /\ FromEnvelope(t, "source_id", "") = t[7]
         /\ Head(t) # "{" => /\ ~InEnvelope(t, "message") /\ FromEnvelope(t, "agent_id", "") = ""
                             /\ FromEnvelope(t, "source_id", "") = ""
<1> DEFINE t == TextOf(id)
<1>1. Head(t) = Payload[id][1].key
  BY TextIs
<1>2. ASSUME Head(t) = "{"
      PROVE  /\ InEnvelope(t, "message") /\ FromEnvelope(t, "message", "") = t[3]
             /\ FromEnvelope(t, "agent_id", "") = t[5] /\ FromEnvelope(t, "source_id", "") = t[7]
  <2>1. PICK m, a, s : /\ m # "source_id"
                       /\ Payload[id] = <<Field("{", <<"message", m, "agent_id", a, "source_id", s>>, NaN)>>
    <3>1. Payload[id][1].key = "{"
      BY <1>1, <1>2, Zenon
    <3> HIDE DEF t
    <3>2. \E m, a, s \in {Payload[id][1].text[i] : i \in DOMAIN Payload[id][1].text} :
            /\ m # "source_id"
            /\ Payload[id] = <<Field("{", <<"message", m, "agent_id", a, "source_id", s>>, NaN)>>
      BY <3>1, Zenon DEF Envelopes
    <3> QED
      BY <3>2, Zenon
  <2> DEFINE x == <<"message", m, "agent_id", a, "source_id", s>>
  <2>2. PICK z : z = "{"
    OBVIOUS
  <2>3. t = <<z>> \o x
    <3>1. Payload[id] = <<Field(z, x, NaN)>>
      BY <2>1, <2>2, Zenon
    <3> DEFINE f == Field(z, x, NaN)
    <3> HIDE DEF x
    <3>2. f.key = z /\ f.text = x
      BY DEF Field
    <3> HIDE DEF f
    <3>3. Len(Payload[id]) = 1 /\ Payload[id][1] = f
      BY <3>1 DEF f
    <3>4. t = Words(f)
      BY <3>3, OnePiece DEF TextOf
    <3> QED
      BY <3>2, <3>4 DEF Words
  <2> HIDE DEF t
  <2>4. /\ t # <<>> /\ Head(t) = z
        /\ JsonHas(Tail(t), "message") /\ JsonString(Tail(t), "message") = t[3]
        /\ JsonHas(Tail(t), "agent_id") /\ JsonString(Tail(t), "agent_id") = t[5]
        /\ JsonHas(Tail(t), "source_id") /\ JsonString(Tail(t), "source_id") = t[7]
    <3>1. m # "source_id"
      BY <2>1
    <3>2. t = Envelope(z, m, a, s)
      BY <2>3, Zenon DEF x, Envelope
    <3> QED
      BY <3>1, <3>2, EnvelopeWords
  <2> QED
    BY <2>4, <1>2, EnvelopeRead, Zenon
<1>3. ASSUME Head(t) # "{"
      PROVE  /\ ~InEnvelope(t, "message") /\ FromEnvelope(t, "agent_id", "") = ""
             /\ FromEnvelope(t, "source_id", "") = ""
  <2> HIDE DEF t
  <2> QED
    BY <1>3, Zenon DEF InEnvelope, FromEnvelope
<1> QED
  BY <1>2, <1>3

-----------------------------------------------------------------------------
(* What a reader should make of record id, written with number n; this is   *)
(* Expected.                                                                *)
IsEnvelope(id) == Head(TextOf(id)) = "{"
Kept1(c, key, value, default) == IF key \in c.fields THEN value ELSE default

Rebuilt(c, id, n) ==
  [ts        |-> Kept1(c, "ts", id, NaN),
   shard     |-> 0,
   seq       |-> Kept1(c, "seq", n, NaN),
   level     |-> Kept1(c, "level", id % 3, 0),
   payload   |-> IF IsEnvelope(id) THEN <<TextOf(id)[3]>> ELSE TextOf(id),
   agent_id  |-> IF IsEnvelope(id) THEN TextOf(id)[5] ELSE "",
   source_id |-> IF IsEnvelope(id) THEN TextOf(id)[7] ELSE ""]

LEMMA ExpectedIs ==
  ASSUME NEW e
  PROVE  Expected(e) = Rebuilt(config.codec, e.id, e.seq)
BY Zenon DEF Expected, Rebuilt, Kept1, IsEnvelope, TextOf

(* What it does make of a body, by the payload it takes from it.            *)
PayloadOf(b) ==
  IF Has(b, "payload") THEN Extract(b, "payload").text
  ELSE IF b = <<>> THEN <<>> ELSE <<b[1].key>> \o Rest(b, 1)
PayloadRead(p) == IF InEnvelope(p, "message") THEN <<FromEnvelope(p, "message", "")>> ELSE p

ReadBack(b, p) ==
  [ts        |-> NumberOr(b, "ts", NaN),
   shard     |-> NumberOr(b, "shard", 0),
   seq       |-> NumberOr(b, "seq", NaN),
   level     |-> NumberOr(b, "level", 0),
   payload   |-> PayloadRead(p),
   agent_id  |-> FromEnvelope(p, "agent_id", ""),
   source_id |-> FromEnvelope(p, "source_id", "")]

LEMMA ParsedIs ==
  ASSUME NEW l
  PROVE  Parsed(l) = ReadBack(l.body, PayloadOf(l.body))
BY Zenon DEF Parsed, ReadBack, PayloadOf, PayloadRead

LEMMA TextRestored ==
  ASSUME Envelopes, NEW id \in Records
  PROVE  LET p == TextOf(id) IN
         /\ PayloadRead(p) = IF IsEnvelope(id) THEN <<p[3]>> ELSE p
         /\ FromEnvelope(p, "agent_id", "") = IF IsEnvelope(id) THEN p[5] ELSE ""
         /\ FromEnvelope(p, "source_id", "") = IF IsEnvelope(id) THEN p[7] ELSE ""
<1>1. CASE IsEnvelope(id)
  <2>1. /\ InEnvelope(TextOf(id), "message") /\ FromEnvelope(TextOf(id), "message", "") = TextOf(id)[3]
        /\ FromEnvelope(TextOf(id), "agent_id", "") = TextOf(id)[5]
        /\ FromEnvelope(TextOf(id), "source_id", "") = TextOf(id)[7]
    BY <1>1, TextRead, Zenon DEF IsEnvelope
  <2> QED
    BY <1>1, <2>1, Zenon DEF PayloadRead
<1>2. CASE ~IsEnvelope(id)
  <2>1. /\ ~InEnvelope(TextOf(id), "message") /\ FromEnvelope(TextOf(id), "agent_id", "") = ""
        /\ FromEnvelope(TextOf(id), "source_id", "") = ""
    BY <1>2, TextRead, Zenon DEF IsEnvelope
  <2> QED
    BY <1>2, <2>1, Zenon DEF PayloadRead
<1> QED
  BY <1>1, <1>2

(* The metadata is read as it was written.                                  *)
LEMMA NumbersRestored ==
  ASSUME NEW c \in CodecConfig, NEW id, NEW n, NEW b, Bears(b, c, id, n)
  PROVE  /\ NumberOr(b, "ts", NaN) = Kept1(c, "ts", id, NaN) /\ NumberOr(b, "shard", 0) = 0
         /\ NumberOr(b, "seq", NaN) = Kept1(c, "seq", n, NaN)
         /\ NumberOr(b, "level", 0) = Kept1(c, "level", id % 3, 0)
<1>1. "ts" \in MetadataKeys /\ "shard" \in MetadataKeys /\ "seq" \in MetadataKeys /\ "level" \in MetadataKeys
  BY DEF MetadataKeys
<1>2. /\ Values(id, n)["ts"] = id /\ Values(id, n)["shard"] = 0 /\ Values(id, n)["seq"] = n
      /\ Values(id, n)["level"] = id % 3
  BY DEF Values
<1>3. \A key \in MetadataKeys : \A default :
        NumberOr(b, key, default) = IF key \in c.fields THEN Values(id, n)[key] ELSE default
  BY NumbersRead
<1>4. /\ NumberOr(b, "ts", NaN) = IF "ts" \in c.fields THEN Values(id, n)["ts"] ELSE NaN
      /\ NumberOr(b, "shard", 0) = IF "shard" \in c.fields THEN Values(id, n)["shard"] ELSE 0
      /\ NumberOr(b, "seq", NaN) = IF "seq" \in c.fields THEN Values(id, n)["seq"] ELSE NaN
      /\ NumberOr(b, "level", 0) = IF "level" \in c.fields THEN Values(id, n)["level"] ELSE 0
  BY <1>1, <1>3, Zenon
<1> QED
  BY <1>2, <1>4, Zenon DEF Kept1

LEMMA StructuredRestored ==
  ASSUME Envelopes, NEW c \in CodecConfig, NEW id \in Records, NEW n \in Nat, Structured(c),
         NEW l, l.body = LineOf(c, id, n).body
  PROVE  Parsed(l) = Rebuilt(c, id, n)
<1>1. PICK b : b = LineOf(c, id, n).body
  OBVIOUS
<1>2. Bears(b, c, id, n) /\ Has(b, "payload") /\ Extract(b, "payload").text = TextOf(id)
  BY <1>1, LineBears
<1>3. Parsed(l) = ReadBack(b, TextOf(id))
  <2>1. PayloadOf(b) = TextOf(id)
    BY <1>2, Zenon DEF PayloadOf
  <2> QED
    BY <1>1, <2>1, ParsedIs
<1>4. /\ NumberOr(b, "ts", NaN) = Kept1(c, "ts", id, NaN) /\ NumberOr(b, "shard", 0) = 0
      /\ NumberOr(b, "seq", NaN) = Kept1(c, "seq", n, NaN)
      /\ NumberOr(b, "level", 0) = Kept1(c, "level", id % 3, 0)
  BY <1>2, NumbersRestored
<1>5. /\ PayloadRead(TextOf(id)) = IF IsEnvelope(id) THEN <<TextOf(id)[3]>> ELSE TextOf(id)
      /\ FromEnvelope(TextOf(id), "agent_id", "") = IF IsEnvelope(id) THEN TextOf(id)[5] ELSE ""
      /\ FromEnvelope(TextOf(id), "source_id", "") = IF IsEnvelope(id) THEN TextOf(id)[7] ELSE ""
  BY TextRestored
<1>6. ReadBack(b, TextOf(id)) = Rebuilt(c, id, n)
  BY <1>4, <1>5, Zenon DEF ReadBack, Rebuilt
<1> QED
  BY <1>3, <1>6

(* A bare line has one field, and nothing that could be read as metadata    *)
(* unless its payload looks like it.                                        *)
LEMMA BareLine ==
  ASSUME NEW c \in CodecConfig, NEW id \in Records, NEW n \in Nat, ~Structured(c)
  PROVE  /\ c.fields = {}
         /\ \E f : /\ LineOf(c, id, n).body = <<f>> /\ f.key = Payload[id][1].key
                   /\ f.text = Tail(TextOf(id))
         /\ Payload[id][1].key # "crc" => LineOf(c, id, n).prefix.class = "none"
<1> DEFINE p == Payload[id]
           f == Field(p[1].key, Tail(Sanitized(p)), IF Len(p) = 1 THEN p[1].num ELSE NaN)
           x == [NoPrefix EXCEPT !.class = IF p[1].key = "crc" THEN "malformed" ELSE "none"]
<1>1. c.fields = {}
  BY DEF Structured
<1>2. LineOf(c, id, n) = Bare(p)
  BY DEF LineOf, Encode
<1>3. Bare(p) = [prefix |-> x, body |-> <<f>>]
  BY Zenon DEF Bare
<1>4. f.key = p[1].key /\ f.text = Tail(TextOf(id))
  BY DEF Field, TextOf
<1>4a. p[1].key # "crc" => x.class = "none"
  BY DEF NoPrefix
<1> HIDE DEF f, x
<1>5. LineOf(c, id, n).body = <<f>> /\ LineOf(c, id, n).prefix = x
  BY <1>2, <1>3
<1> QED
  BY <1>1, <1>4, <1>4a, <1>5

(* What follows the last field of a body.                                   *)
LEMMA RestOfLast ==
  ASSUME NEW b, NEW k \in Nat, Len(b) = k
  PROVE  Rest(b, k) = b[k].text
<1> DEFINE F(g) == [i \in k..Len(b) |-> IF i = k THEN b[i].text
                                        ELSE g[i - 1] \o <<"\t">> \o Words(b[i])]
           g0 == [i \in k..Len(b) |-> b[i].text]
           up == CHOOSE g : g = F(g)
<1>1. k..Len(b) = {k}
  OBVIOUS
<1>2. \A g : F(g)[k] = b[k].text /\ F(g) = g0
  BY <1>1
<1>3. g0 = F(g0)
  BY <1>2
<1>4. up = F(up)
  <2> HIDE DEF F, g0
  <2> QED
    BY <1>3
<1>5. up[k] = b[k].text
  <2>1. F(up)[k] = b[k].text
    BY <1>2
  <2> HIDE DEF F, up
  <2> QED
    BY <1>4, <2>1
<1>6. Rest(b, k) = up[Len(b)]
  BY DEF Rest
<1> QED
  BY <1>5, <1>6

LEMMA BareRestored ==
  ASSUME Envelopes, NEW c \in CodecConfig, NEW id \in Records, NEW n \in Nat, ~Structured(c),
         Unlike(id)
  PROVE  Parsed(LineOf(c, id, n)) = Rebuilt(c, id, n)
<1>1. PICK f : /\ LineOf(c, id, n).body = <<f>> /\ f.key = Payload[id][1].key
               /\ f.text = Tail(TextOf(id))
  BY BareLine
<1>2. PICK b : b = <<f>>
  OBVIOUS
<1>3. DOMAIN b = {1} /\ b[1] = f /\ b # <<>>
  <2>1. DOMAIN b = {1} /\ b[1] = f
    BY <1>2
  <2>2. b # <<>>
    BY <1>2
  <2> QED
    BY <2>1, <2>2
<1>4. \A key : Has(b, key) => f.key = key
  BY <1>3 DEF Has
<1>5. ~Has(b, "ts") /\ ~Has(b, "shard") /\ ~Has(b, "seq") /\ ~Has(b, "level") /\ ~Has(b, "payload")
  <2>1. /\ Payload[id][1].key # "ts" /\ Payload[id][1].key # "shard" /\ Payload[id][1].key # "seq"
        /\ Payload[id][1].key # "level" /\ Payload[id][1].key # "payload"
    BY Zenon DEF Unlike
  <2> QED
    BY <1>1, <1>4, <2>1, Zenon
<1>6. PayloadOf(b) = TextOf(id)
  <2>1. Rest(b, 1) = Tail(TextOf(id))
    <3>1. Len(b) = 1
      BY <1>2
    <3> QED
      BY <1>1, <1>3, <3>1, RestOfLast
  <2>2. <<Payload[id][1].key>> \o Tail(TextOf(id)) = TextOf(id)
    BY TextIs
  <2> QED
    BY <1>1, <1>3, <1>5, <2>1, <2>2, Zenon DEF PayloadOf
<1>7. Parsed(LineOf(c, id, n)) = ReadBack(b, TextOf(id))
  BY <1>1, <1>2, <1>6, ParsedIs
<1>8. c.fields = {}
  BY BareLine
<1>9. /\ NumberOr(b, "ts", NaN) = Kept1(c, "ts", id, NaN) /\ NumberOr(b, "shard", 0) = 0
      /\ NumberOr(b, "seq", NaN) = Kept1(c, "seq", n, NaN)
      /\ NumberOr(b, "level", 0) = Kept1(c, "level", id % 3, 0)
  BY <1>5, <1>8, Zenon DEF NumberOr, Kept1
<1>10. /\ PayloadRead(TextOf(id)) = IF IsEnvelope(id) THEN <<TextOf(id)[3]>> ELSE TextOf(id)
       /\ FromEnvelope(TextOf(id), "agent_id", "") = IF IsEnvelope(id) THEN TextOf(id)[5] ELSE ""
       /\ FromEnvelope(TextOf(id), "source_id", "") = IF IsEnvelope(id) THEN TextOf(id)[7] ELSE ""
  BY TextRestored
<1>11. ReadBack(b, TextOf(id)) = Rebuilt(c, id, n)
  BY <1>9, <1>10, Zenon DEF ReadBack, Rebuilt
<1> QED
  BY <1>7, <1>11

-----------------------------------------------------------------------------
(* A reader asks no more of a whole line than its record should bring.      *)
LEMMA MatchesStays ==
  ASSUME Envelopes, NEW c \in CodecConfig, NEW id \in Records, NEW n \in Nat, NEW q,
         Matches(Rebuilt(c, id, n), q)
  PROVE  Matches(Parsed(LineOf(c, id, n)), q)
<1>1. CASE Structured(c) \/ Unlike(id)
  <2>1. Parsed(LineOf(c, id, n)) = Rebuilt(c, id, n)
    BY <1>1, StructuredRestored, BareRestored
  <2> QED
    BY <2>1
<1>2. CASE ~Structured(c) /\ ~Unlike(id)
  <2>1. ~IsEnvelope(id)
    <3>1. Head(TextOf(id)) = Payload[id][1].key
      BY TextIs
    <3> QED
      BY <1>2, <3>1, Zenon DEF IsEnvelope, Unlike
  <2>2. c.fields = {}
    BY <1>2, BareLine
  <2> DEFINE x == Rebuilt(c, id, n)
  <2>3. x.ts = NaN /\ x.seq = NaN /\ x.agent_id = "" /\ x.source_id = ""
    BY <2>1, <2>2 DEF Rebuilt, Kept1
  <2> HIDE DEF x
  <2>4. \A from, to : Within(NaN, from, to) => from = NaN /\ to = NaN
    BY DEF Within
  <2>5. \A value : Within(value, NaN, NaN)
    BY DEF Within
  <2>6. Within(x.seq, q.seq_from, q.seq_to) /\ Within(x.ts, q.time_from, q.time_to)
        /\ q.source_id \in {"", x.source_id} /\ q.agent_id \in {"", x.agent_id}
    BY DEF Matches, x
  <2>7. q.seq_from = NaN /\ q.seq_to = NaN /\ q.time_from = NaN /\ q.time_to = NaN
    BY <2>3, <2>4, <2>6
  <2>8. q.source_id = "" /\ q.agent_id = ""
    BY <2>3, <2>6
  <2> QED
    BY <2>5, <2>7, <2>8 DEF Matches
<1> QED
  BY <1>1, <1>2

(* The codec brings back what it can.                                       *)
LEMMA Restored ==
  ASSUME Envelopes, NEW c \in CodecConfig, NEW id \in Records, NEW n \in Nat,
         c.crc = "header" => c.fields # {}, ~Structured(c) => Unlike(id)
  PROVE  Parses(LineOf(c, id, n)) /\ Parsed(LineOf(c, id, n)) = Rebuilt(c, id, n)
<1> DEFINE l == LineOf(c, id, n)
<1>1. Verifies(l)
  BY EncodedVerifies
<1>2. CASE Structured(c)
  <2>1. Parsed(l) = Rebuilt(c, id, n)
    BY <1>2, StructuredRestored
  <2>2. Checks(l)
    BY <1>1 DEF Verifies, Parses
  <2>3. Bears(l.body, c, id, n)
    BY <1>2, LineBears
  <2> HIDE DEF l
  <2>4. /\ Has(l.body, "shard") => Extract(l.body, "shard") = FieldOf(id, n, "shard")
        /\ Has(l.body, "seq") => Extract(l.body, "seq") = FieldOf(id, n, "seq")
        /\ Has(l.body, "level") => Extract(l.body, "level") = FieldOf(id, n, "level")
    BY <2>3, NumbersRead DEF MetadataKeys
  <2>5. /\ FieldOf(id, n, "shard").num = 0 /\ FieldOf(id, n, "seq").num = n
        /\ FieldOf(id, n, "level").num = id % 3
    BY DEF FieldOf, Field, Values
  <2>6. 0 # NaN /\ n # NaN /\ id % 3 \in Level
    BY Options DEF NaN, Level
  <2>7. Parses(l)
    BY <2>2, <2>4, <2>5, <2>6 DEF Parses
  <2> QED
    BY <2>1, <2>7 DEF l
<1>3. CASE ~Structured(c)
  <2>1. Parsed(l) = Rebuilt(c, id, n)
    BY <1>3, BareRestored
  <2>2. Payload[id][1].key # "crc"
    BY <1>3, UnlikeKeys
  <2>3. l.prefix.class = "none"
    BY <1>3, <2>2, BareLine
  <2> QED
    BY <1>1, <2>1, <2>3 DEF Verifies
<1> QED
  BY <1>2, <1>3

-----------------------------------------------------------------------------
(* A piece of a line: the beginning of a prefix or nothing but zeros, or    *)
(* the first fields of it.                                                  *)
CutField(g) ==
  [g EXCEPT !.text = IF @ = <<>> THEN @ ELSE SubSeq(@, 1, Len(@) - 1),
            !.num  = IF @ = NaN THEN @ ELSE @ \div 10]
FirstFields(b, k) == Append(SubSeq(b, 1, k - 1), CutField(b[k]))

LEMMA FragmentIs ==
  ASSUME NEW l, l = [prefix |-> l.prefix, body |-> l.body], NEW p \in Fragments(l),
         NEW class, NEW sum, NEW hash, l.prefix = [class |-> class, sum |-> sum, hash |-> hash]
  PROVE  \/ \E f : p.body = <<f>> /\ f.key = "" /\ p.prefix.class = "none"
         \/ p.prefix.class = "malformed"
         \/ \E k \in 1..Len(l.body) : p.prefix = l.prefix /\ p.body = FirstFields(l.body, k)
<1>1. \/ \E w \in {"cr", "NUL"} : p = [prefix |-> NoPrefix, body |-> <<Field("", <<w>>, NaN)>>]
      \/ \E q \in {l.prefix} \ {NoPrefix} : p = [prefix |-> [q EXCEPT !.class = "malformed"], body |-> <<>>]
      \/ \E k \in 1..Len(l.body) : p = [l EXCEPT !.body = FirstFields(l.body, k)]
  BY DEF Fragments, FirstFields, CutField
<1>2. CASE \E w \in {"cr", "NUL"} : p = [prefix |-> NoPrefix, body |-> <<Field("", <<w>>, NaN)>>]
  <2>1. PICK w \in {"cr", "NUL"} : p = [prefix |-> NoPrefix, body |-> <<Field("", <<w>>, NaN)>>]
    BY <1>2
  <2>2. PICK f : f = Field("", <<w>>, NaN)
    OBVIOUS
  <2>3. f.key = ""
    BY <2>2 DEF Field
  <2>4. p = [prefix |-> NoPrefix, body |-> <<f>>]
    BY <2>1, <2>2, Zenon
  <2>5. p.body = <<f>> /\ p.prefix.class = "none"
    BY <2>4 DEF NoPrefix
  <2> QED
    BY <2>3, <2>5
<1>3. CASE \E q \in {l.prefix} \ {NoPrefix} : p = [prefix |-> [q EXCEPT !.class = "malformed"], body |-> <<>>]
  <2>1. p.prefix = [l.prefix EXCEPT !.class = "malformed"]
    BY <1>3
  <2> QED
    BY <2>1
<1>4. CASE \E k \in 1..Len(l.body) : p = [l EXCEPT !.body = FirstFields(l.body, k)]
  <2>1. PICK k \in 1..Len(l.body) : p = [l EXCEPT !.body = FirstFields(l.body, k)]
    BY <1>4
  <2>2. p.prefix = l.prefix /\ p.body = FirstFields(l.body, k)
    BY <2>1
  <2> QED
    BY <2>2
<1> QED
  BY <1>1, <1>2, <1>3, <1>4

LEMMA FirstFieldsAre ==
  ASSUME NEW S, NEW b \in Seq(S), NEW k \in 1..Len(b)
  PROVE  /\ DOMAIN FirstFields(b, k) = 1..k /\ Len(FirstFields(b, k)) = k /\ k \in Nat
         /\ \A i \in 1..(k - 1) : FirstFields(b, k)[i] = b[i]
         /\ FirstFields(b, k)[k] = CutField(b[k])
<1>1. PICK a : a = SubSeq(b, 1, k - 1)
  OBVIOUS
<1>2. a \in Seq(S) /\ Len(a) = k - 1 /\ \A i \in 1..(k - 1) : a[i] = b[i]
  BY <1>1
<1>3. PICK g : g = CutField(b[k])
  OBVIOUS
<1>4. FirstFields(b, k) = Append(a, g)
  BY <1>1, <1>3, Zenon DEF FirstFields
<1> DEFINE T == S \cup {g}
<1>5. a \in Seq(T) /\ g \in T
  BY <1>2
<1> HIDE DEF T
<1>6. /\ DOMAIN Append(a, g) = 1..k /\ Len(Append(a, g)) = k /\ k \in Nat
      /\ \A i \in 1..(k - 1) : Append(a, g)[i] = a[i]
      /\ Append(a, g)[k] = g
  BY <1>2, <1>5
<1> QED
  BY <1>2, <1>3, <1>4, <1>6

(* What is left of a line that begins with its first Len(m) fields, m the   *)
(* metadata, bears the metadata; so does the metadata alone.                *)
LEMMA MetadataBears ==
  ASSUME NEW c \in CodecConfig, NEW id \in Records, NEW n \in Nat, NEW b, NEW k \in Nat,
         DOMAIN b = 1..k, Len(MetadataOf(c, id, n)) <= k,
         \A i \in 1..Len(MetadataOf(c, id, n)) : b[i] = MetadataOf(c, id, n)[i],
         \A i \in 1..k : i > Len(MetadataOf(c, id, n)) => b[i].key = "payload"
  PROVE  Bears(b, c, id, n)
<1> DEFINE m == MetadataOf(c, id, n)
<1>1. m \in Seq(MetadataFields(id, n)) /\ FieldsIn(m) = {FieldOf(id, n, key) : key \in c.fields}
  BY MetadataIs, MetadataHas
<1>2. \A i \in 1..Len(m) : b[i] = m[i]
  OBVIOUS
<1>3. \A i \in 1..k : i > Len(m) => b[i].key = "payload"
  OBVIOUS
<1>4. Len(m) <= k
  OBVIOUS
<1> HIDE DEF m
<1>5. DOMAIN m = 1..Len(m) /\ Len(m) \in Nat
  BY <1>1
<1>6. \A i \in 1..k : i \in 1..Len(m) \/ i > Len(m)
  BY <1>5
<1>7. 1..Len(m) \subseteq 1..k
  BY <1>4, <1>5
<1>8. \A i \in 1..Len(m) : \E key \in c.fields : m[i] = FieldOf(id, n, key)
  BY <1>1, <1>5 DEF FieldsIn
<1>9. \A key \in c.fields : \E i \in 1..Len(m) : m[i] = FieldOf(id, n, key)
  BY <1>1, <1>5 DEF FieldsIn
<1>10. \A i \in 1..k : b[i].key = "payload" \/ \E key \in c.fields : b[i] = FieldOf(id, n, key)
  BY <1>2, <1>3, <1>6, <1>8
<1>11. \A key \in c.fields : \E i \in 1..k : b[i] = FieldOf(id, n, key)
  BY <1>2, <1>7, <1>9
<1>12. DOMAIN b = 1..k
  OBVIOUS
<1> QED
  BY <1>10, <1>11, <1>12, Zenon DEF Bears

(* A sequence is not its own beginning.                                     *)
LEMMA CutShort ==
  ASSUME NEW S, NEW t \in Seq(S), t # <<>>
  PROVE  SubSeq(t, 1, Len(t) - 1) # t
<1> DEFINE k == Len(t) - 1
<1>1. Len(t) \in Nat \ {0} /\ k \in 0..Len(t) /\ k < Len(t)
  OBVIOUS
<1> HIDE DEF k
<1>2. Len(SubSeq(t, 1, k)) = k
  BY <1>1
<1>3. SubSeq(t, 1, k) # t
  BY <1>1, <1>2
<1> QED
  BY <1>3 DEF k

(* The parts of a structured line that the checks look at.                  *)
LEMMA LineParts ==
  ASSUME NEW c \in CodecConfig, NEW id \in Records, NEW n \in Nat, Structured(c)
  PROVE  LET l == LineOf(c, id, n)
             m == MetadataOf(c, id, n)
         IN  /\ l.prefix = [class |-> c.crc, sum |-> Covered(c.crc, m, l.body),
                            hash |-> IF c.crc = "payload_hash" THEN TextOf(id) ELSE <<>>]
             /\ l.prefix.class = c.crc /\ l.prefix.sum = Covered(c.crc, m, l.body)
             /\ c.crc = "payload_hash" => l.prefix.hash = TextOf(id)
<1> DEFINE l == LineOf(c, id, n)
           m == MetadataOf(c, id, n)
           p == [class |-> c.crc, sum |-> Covered(c.crc, m, l.body),
                 hash |-> IF c.crc = "payload_hash" THEN TextOf(id) ELSE <<>>]
<1>1. l = [prefix |-> p, body |-> l.body]
  BY StructuredLine
<1>2. l.prefix = p
  <2> HIDE DEF p
  <2>1. PICK r : l = [prefix |-> p, body |-> r]
    BY <1>1
  <2> HIDE DEF l
  <2> QED
    BY <2>1
<1>3. p.class = c.crc /\ p.sum = Covered(c.crc, m, l.body)
      /\ (c.crc = "payload_hash" => p.hash = TextOf(id))
  OBVIOUS
<1> HIDE DEF p, l, m
<1> QED
  BY <1>2, <1>3 DEF p, l, m

(* The first fields of a line, by where they end.                           *)
LEMMA PieceIs ==
  ASSUME NEW c \in CodecConfig, NEW id \in Records, NEW n \in Nat, Structured(c),
         NEW k \in 1..Len(LineOf(c, id, n).body), NEW b, b = FirstFields(LineOf(c, id, n).body, k)
  PROVE  LET m == MetadataOf(c, id, n) IN
         /\ DOMAIN b = 1..k /\ Len(b) = k /\ k \in Nat /\ Len(m) \in Nat
         /\ k <= Len(m) => PayloadAt(b) = {}
         /\ k > Len(m) => /\ k = Len(m) + 1 /\ PayloadAt(b) = {k}
                          /\ b[k].text # TextOf(id) /\ Bears(b, c, id, n)
<1> DEFINE l == LineOf(c, id, n)
           m == MetadataOf(c, id, n)
           S == MetadataFields(id, n) \cup {PayloadField(id)}
<1>1. /\ l.body \in Seq(S) /\ Len(l.body) = Len(m) + 1 /\ Len(m) \in Nat
      /\ l.body[Len(m) + 1] = PayloadField(id)
      /\ \A i \in 1..Len(m) : l.body[i] = m[i] /\ m[i] \in MetadataFields(id, n)
  BY StructuredLine
<1> HIDE DEF S
<1>2. /\ DOMAIN b = 1..k /\ Len(b) = k /\ k \in Nat
      /\ \A i \in 1..(k - 1) : b[i] = l.body[i]
      /\ b[k] = CutField(l.body[k])
  BY <1>1, FirstFieldsAre
<1> HIDE DEF l, m
<1>3. \A f \in MetadataFields(id, n) : f.key # "payload" /\ CutField(f).key = f.key
  BY DEF MetadataFields, Field, CutField
<1>4. CutField(PayloadField(id)).key = "payload" /\ CutField(PayloadField(id)).text # TextOf(id)
  <2>1. TextOf(id) \in Seq(Word) /\ TextOf(id) # <<>>
    BY TextIs
  <2>2. SubSeq(TextOf(id), 1, Len(TextOf(id)) - 1) # TextOf(id)
    BY <2>1, CutShort
  <2>3. PICK t, u : t = TextOf(id) /\ u = SubSeq(TextOf(id), 1, Len(TextOf(id)) - 1)
    OBVIOUS
  <2>4. CutField(Field("payload", t, NaN)).key = "payload"
        /\ CutField(Field("payload", t, NaN)).text = IF t = <<>> THEN t ELSE SubSeq(t, 1, Len(t) - 1)
    BY DEF CutField, Field
  <2> QED
    BY <2>1, <2>2, <2>3, <2>4, Zenon DEF PayloadField
<1>5. CASE k <= Len(m)
  <2>1. \A i \in 1..(k - 1) : i \in 1..Len(m)
    BY <1>1, <1>2, <1>5
  <2>2. k \in 1..Len(m)
    BY <1>1, <1>2, <1>5
  <2>3. \A i \in 1..k : i \in 1..(k - 1) \/ i = k
    BY <1>2
  <2>4. \A i \in 1..k : b[i].key # "payload"
    BY <1>1, <1>2, <1>3, <2>1, <2>2, <2>3
  <2> QED
    BY <1>1, <1>2, <1>5, <2>4 DEF PayloadAt, l, m
<1>6. CASE k > Len(m)
  <2>1. k = Len(m) + 1 /\ k \in 1..k /\ k - 1 = Len(m)
    BY <1>1, <1>6 DEF l
  <2>2. \A i \in 1..k : i \in 1..Len(m) \/ i = k
    BY <1>1, <2>1
  <2>3. \A i \in 1..Len(m) : b[i] = m[i] /\ b[i].key # "payload" /\ i # k
    BY <1>1, <1>2, <1>3, <2>1
  <2>4. b[k].key = "payload" /\ b[k].text # TextOf(id)
    BY <1>1, <1>2, <1>4, <2>1
  <2>5. PayloadAt(b) = {k}
    BY <1>2, <2>1, <2>2, <2>3, <2>4 DEF PayloadAt
  <2>6. Bears(b, c, id, n)
    <3>1. \A i \in 1..k : i > Len(m) => b[i].key = "payload"
      BY <1>1, <2>2, <2>4
    <3>2. Len(m) <= k
      BY <1>1, <2>1
    <3> QED
      BY <1>2, <2>3, <3>1, <3>2, MetadataBears DEF m
  <2> QED
    BY <1>1, <1>2, <1>6, <2>1, <2>4, <2>5, <2>6 DEF m
<1> QED
  BY <1>1, <1>2, <1>5, <1>6 DEF m

(* The metadata that a record is found to have.                             *)
SameNumbers(r, x) == r.ts = x.ts /\ r.shard = x.shard /\ r.seq = x.seq /\ r.level = x.level

LEMMA BearsNumbers ==
  ASSUME NEW c \in CodecConfig, NEW id, NEW n, NEW l, Bears(l.body, c, id, n)
  PROVE  SameNumbers(Parsed(l), Rebuilt(c, id, n))
<1>1. Parsed(l) = ReadBack(l.body, PayloadOf(l.body))
  BY ParsedIs
<1>2. PICK r, x : r = ReadBack(l.body, PayloadOf(l.body)) /\ x = Rebuilt(c, id, n)
  OBVIOUS
<1>3. /\ r.ts = NumberOr(l.body, "ts", NaN) /\ r.shard = NumberOr(l.body, "shard", 0)
      /\ r.seq = NumberOr(l.body, "seq", NaN) /\ r.level = NumberOr(l.body, "level", 0)
  BY <1>2 DEF ReadBack
<1>4. /\ x.ts = Kept1(c, "ts", id, NaN) /\ x.shard = 0 /\ x.seq = Kept1(c, "seq", n, NaN)
      /\ x.level = Kept1(c, "level", id % 3, 0)
  BY <1>2 DEF Rebuilt
<1>4a. /\ NumberOr(l.body, "ts", NaN) = Kept1(c, "ts", id, NaN) /\ NumberOr(l.body, "shard", 0) = 0
       /\ NumberOr(l.body, "seq", NaN) = Kept1(c, "seq", n, NaN)
       /\ NumberOr(l.body, "level", 0) = Kept1(c, "level", id % 3, 0)
  BY NumbersRestored
<1>5. SameNumbers(r, x)
  BY <1>3, <1>4, <1>4a, Zenon DEF SameNumbers
<1> QED
  BY <1>1, <1>2, <1>5

(* The first fields of a line that pass its check.                          *)
LEMMA PieceChecks ==
  ASSUME Envelopes, NEW c \in CodecConfig, NEW id \in Records, NEW n \in Nat, c.crc # "none",
         NEW k \in 1..Len(LineOf(c, id, n).body), NEW l, Checks(l),
         l.prefix = LineOf(c, id, n).prefix, l.body = FirstFields(LineOf(c, id, n).body, k)
  PROVE  /\ c.crc \in {"full", "payload_hash"} => Parsed(l) = Rebuilt(c, id, n)
         /\ c.crc = "header" => SameNumbers(Parsed(l), Rebuilt(c, id, n))
<1> DEFINE x == LineOf(c, id, n)
           m == MetadataOf(c, id, n)
<1>1. Structured(c)
  BY DEF Structured
<1>2. /\ l.prefix.class = c.crc /\ l.prefix.sum = Covered(c.crc, m, x.body)
      /\ c.crc = "payload_hash" => l.prefix.hash = TextOf(id)
  BY <1>1, LineParts
<1>3. PICK b : b = l.body
  OBVIOUS
<1>4. /\ DOMAIN b = 1..k /\ Len(b) = k /\ k \in Nat /\ Len(m) \in Nat
      /\ k <= Len(m) => PayloadAt(b) = {}
      /\ k > Len(m) => /\ k = Len(m) + 1 /\ PayloadAt(b) = {k}
                       /\ b[k].text # TextOf(id) /\ Bears(b, c, id, n)
  <2>1. b = FirstFields(x.body, k) /\ k \in 1..Len(x.body)
    BY <1>3
  <2>2. \A b1 : b1 = FirstFields(x.body, k) =>
          /\ DOMAIN b1 = 1..k /\ Len(b1) = k /\ k \in Nat /\ Len(m) \in Nat
          /\ k <= Len(m) => PayloadAt(b1) = {}
          /\ k > Len(m) => /\ k = Len(m) + 1 /\ PayloadAt(b1) = {k}
                           /\ b1[k].text # TextOf(id) /\ Bears(b1, c, id, n)
    BY <1>1, PieceIs
  <2> QED
    BY <2>1, <2>2, Zenon
<1> HIDE DEF x, m
<1>5. CASE c.crc = "full"
  <2>1. l.prefix.sum = x.body
    BY <1>2, <1>5 DEF Covered
  <2>2. FullMatches(l)
    BY <1>2, <1>5 DEF Checks
  <2>3. l.body = x.body
    BY <2>1, <2>2 DEF FullMatches
  <2>4. Parsed(l) = Rebuilt(c, id, n)
    BY <1>1, <2>3, StructuredRestored DEF x
  <2> QED
    BY <1>5, <2>4
<1>6. CASE c.crc = "payload_hash"
  <2>1. HashMatches(l)
    BY <1>2, <1>6 DEF Checks
  <2>2. PayloadAt(b) # {} /\ Rest(b, FirstPayload(b)) = TextOf(id)
    BY <1>2, <1>3, <1>6, <2>1 DEF HashMatches
  <2>3. k > Len(m)
    BY <1>4, <2>2
  <2>4. FirstPayload(b) = k
    <3>1. PayloadAt(b) = {k} /\ k <= k
      BY <1>4, <2>3
    <3> QED
      BY <3>1 DEF FirstPayload
  <2>5. Rest(b, k) = b[k].text
    BY <1>4, RestOfLast
  <2> QED
    BY <1>4, <2>2, <2>3, <2>4, <2>5
<1>7. CASE c.crc = "header"
  <2>1. HeaderMatches(l)
    BY <1>2, <1>7 DEF Checks
  <2>2. Bears(b, c, id, n)
    <3>1. CASE k > Len(m)
      BY <1>4, <3>1
    <3>2. CASE k <= Len(m)
      <4>1. l.prefix.sum = m
        BY <1>2, <1>7 DEF Covered
      <4>2. {i \in PayloadAt(b) : i > 1} = {}
        BY <1>4, <3>2
      <4>3. b = m
        BY <1>3, <2>1, <4>1, <4>2 DEF HeaderMatches
      <4>4. DOMAIN b = 1..Len(m) /\ Len(m) <= Len(m) /\ \A i \in 1..Len(m) : ~ (i > Len(m))
        BY <1>4, <4>3
      <4> QED
        BY <1>4, <4>3, <4>4, MetadataBears DEF m
    <3> QED
      BY <1>4, <3>1, <3>2
  <2>3. SameNumbers(Parsed(l), Rebuilt(c, id, n))
    BY <1>3, <2>2, BearsNumbers
  <2> QED
    BY <1>7, <2>3
<1> QED
  BY <1>5, <1>6, <1>7 DEF CodecConfig, CrcClass

(* What carries a number and passes the check is what was written.          *)
LEMMA NumberedIs ==
  ASSUME Envelopes, NEW c \in CodecConfig, NEW id \in Records, NEW n \in Nat, c.crc # "none",
         NEW l, l = LineOf(c, id, n) \/ l \in Fragments(LineOf(c, id, n)),
         Parses(l), Parsed(l).seq # NaN
  PROVE  /\ c.crc \in {"full", "payload_hash"} => Parsed(l) = Rebuilt(c, id, n)
         /\ c.crc = "header" => SameNumbers(Parsed(l), Rebuilt(c, id, n))
<1> DEFINE x == LineOf(c, id, n)
<1>1. Structured(c)
  BY DEF Structured
<1>2. CASE l = x
  <2>1. Parsed(l) = Rebuilt(c, id, n)
    BY <1>1, <1>2, StructuredRestored
  <2>2. SameNumbers(Parsed(l), Rebuilt(c, id, n))
    BY <2>1 DEF SameNumbers
  <2> QED
    BY <2>1, <2>2
<1>3. CASE l \in Fragments(x)
  <2>1. x = [prefix |-> x.prefix, body |-> x.body]
    BY LineBody
  <2>2. PICK class, sum, hash : x.prefix = [class |-> class, sum |-> sum, hash |-> hash]
    <3> DEFINE su == Covered(c.crc, MetadataOf(c, id, n), x.body)
               ha == IF c.crc = "payload_hash" THEN TextOf(id) ELSE <<>>
    <3>1. x.prefix = [class |-> c.crc, sum |-> su, hash |-> ha]
      BY <1>1, LineParts
    <3> HIDE DEF x, su, ha
    <3> QED
      BY <3>1
  <2>3. \/ \E f : l.body = <<f>> /\ f.key = "" /\ l.prefix.class = "none"
        \/ l.prefix.class = "malformed"
        \/ \E k \in 1..Len(x.body) : l.prefix = x.prefix /\ l.body = FirstFields(x.body, k)
    <3> HIDE DEF x
    <3> QED
      BY <1>3, <2>1, <2>2, FragmentIs
  <2>4. Checks(l)
    BY DEF Parses
  <2>5. CASE \E f : l.body = <<f>> /\ f.key = "" /\ l.prefix.class = "none"
    <3>1. PICK f : l.body = <<f>> /\ f.key = ""
      BY <2>5
    <3>2. \A i \in DOMAIN <<f>> : <<f>>[i] = f
      OBVIOUS
    <3>3. "" # "seq"
      OBVIOUS
    <3>4. ~Has(l.body, "seq")
      BY <3>1, <3>2, <3>3, Zenon DEF Has
    <3>5. Parsed(l).seq = NumberOr(l.body, "seq", NaN)
      <4>1. Parsed(l) = ReadBack(l.body, PayloadOf(l.body))
        BY ParsedIs
      <4>2. PICK r : r = ReadBack(l.body, PayloadOf(l.body))
        OBVIOUS
      <4>3. r.seq = NumberOr(l.body, "seq", NaN)
        BY <4>2 DEF ReadBack
      <4> QED
        BY <4>1, <4>2, <4>3
    <3> QED
      BY <3>4, <3>5 DEF NumberOr
  <2>6. CASE l.prefix.class = "malformed"
    BY <2>4, <2>6 DEF Checks
  <2>7. CASE \E k \in 1..Len(x.body) : l.prefix = x.prefix /\ l.body = FirstFields(x.body, k)
    BY <2>4, <2>7, PieceChecks
  <2> QED
    BY <2>3, <2>5, <2>6, <2>7
<1> QED
  BY <1>2, <1>3

-----------------------------------------------------------------------------
(* The lines of all files, with what they are of.                           *)
Entries(file) == {file.lines[i] : i \in DOMAIN file.lines}
InFiles == Entries(active) \cup UNION {Entries(plain[n]) \cup Entries(gz[n]) : n \in Name}

(* A line is what the encoder made of its record, or a piece of that.       *)
Genuine(e) ==
  /\ e.id \in Records /\ e.seq \in Nat
  /\ e.whole => e.line = LineOf(config.codec, e.id, e.seq)
  /\ ~e.whole => e.line \in Fragments(LineOf(config.codec, e.id, e.seq))

GenuineFiles == \A e \in InFiles : Genuine(e)

(* The compressed twin of a plain segment has nothing else.                 *)
TwinLines == \A n \in Name : plain[n].present => Entries(gz[n]) \subseteq Entries(plain[n])

LEMMA EntriesAre ==
  /\ Entries(None) = {}
  /\ \A f : Ids(f) = {e.id : e \in {x \in Entries(f) : x.whole}}
  /\ \A f : f.lines = <<>> => Entries(f) = {}
<1>1. \A f : f.lines = <<>> => Entries(f) = {}
  BY DEF Entries
<1>2. Entries(None) = {}
  BY <1>1, FileIs
<1>3. ASSUME NEW f PROVE Ids(f) = {e.id : e \in {x \in Entries(f) : x.whole}}
  BY DEF Ids, Entries
<1> QED
  BY <1>1, <1>2, <1>3

LEMMA EntriesAppend ==
  ASSUME NEW lines \in Seq(AnyEntry), NEW e \in AnyEntry, NEW f, NEW g,
         f.lines = lines, g.lines = Append(lines, e)
  PROVE  Entries(g) = Entries(f) \cup {e}
<1>1. /\ DOMAIN Append(lines, e) = 1..(Len(lines) + 1)
      /\ Append(lines, e)[Len(lines) + 1] = e
      /\ DOMAIN lines = 1..Len(lines) /\ Len(lines) \in Nat
      /\ \A i \in 1..Len(lines) : Append(lines, e)[i] = lines[i]
  BY AppendIs
<1>2. \A i \in 1..(Len(lines) + 1) : i = Len(lines) + 1 \/ i \in 1..Len(lines)
  BY <1>1
<1>3. 1..Len(lines) \subseteq 1..(Len(lines) + 1) /\ Len(lines) + 1 \in 1..(Len(lines) + 1)
  BY <1>1
<1>4. PICK h : h = Append(lines, e)
  OBVIOUS
<1>5. Entries(g) \subseteq Entries(f) \cup {e}
  BY <1>1, <1>2, <1>4 DEF Entries
<1>6. Entries(f) \cup {e} \subseteq Entries(g)
  BY <1>1, <1>3, <1>4 DEF Entries
<1> QED
  BY <1>5, <1>6

LEMMA EntriesPrefix ==
  ASSUME NEW lines \in Seq(AnyEntry), NEW n \in 0..Len(lines), NEW f, NEW g,
         f.lines = lines, g.lines = SubSeq(lines, 1, n)
  PROVE  Entries(g) \subseteq Entries(f)
<1>1. /\ DOMAIN SubSeq(lines, 1, n) = 1..n
      /\ \A i \in 1..n : SubSeq(lines, 1, n)[i] = lines[i] /\ i \in DOMAIN lines
  BY Prefix
<1>2. PICK h : h = SubSeq(lines, 1, n)
  OBVIOUS
<1> QED
  BY <1>1, <1>2 DEF Entries

(* A line that a step of the engine adds is of a record not finished yet.   *)
Added(e) == e.id \notin finished /\ Genuine(e)

LEMMA AddedOnly ==
  ASSUME \A e \in Entries(active') : e \in InFiles \/ Added(e),
         \A n \in Name : Entries(plain'[n]) \subseteq InFiles /\ Entries(gz'[n]) \subseteq InFiles
  PROVE  \A e \in InFiles' : e \in InFiles \/ Added(e)
<1>1. \A e \in InFiles' : \/ e \in Entries(active')
                          \/ \E n \in Name : e \in Entries(plain'[n]) \/ e \in Entries(gz'[n])
  BY DEF InFiles
<1> QED
  BY <1>1

LEMMA InFilesHas ==
  /\ Entries(active) \subseteq InFiles
  /\ \A n \in Name : Entries(plain[n]) \subseteq InFiles /\ Entries(gz[n]) \subseteq InFiles
BY DEF InFiles

(* A step that leaves the archive alone.                                    *)
LEMMA ArchiveRests ==
  ASSUME TwinLines, UNCHANGED <<config, plain, gz>>,
         \A e \in Entries(active') : e \in InFiles \/ Added(e)
  PROVE  config' = config /\ TwinLines' /\ \A e \in InFiles' : e \in InFiles \/ Added(e)
<1>1. \A n \in Name : Entries(plain'[n]) \subseteq InFiles /\ Entries(gz'[n]) \subseteq InFiles
  BY InFilesHas
<1>2. TwinLines'
  BY DEF TwinLines, Entries
<1> QED
  BY <1>1, <1>2, AddedOnly

LEMMA EntriesWrite ==
  ASSUME Typed, Files, TwinLines, WriteBegins \/ WriteEnds
  PROVE  config' = config /\ TwinLines' /\ \A e \in InFiles' : e \in InFiles \/ Added(e)
<1>0. /\ active \in AnyFile /\ active.lines \in Seq(AnyEntry) /\ clock \in Nat /\ written \in Nat
      /\ sequence \in Nat /\ finished \subseteq 1..written
  BY DEF Typed, AnyFile
<1>1. CASE WriteBegins
  <2> DEFINE id == written + 1
  <2>1. id \in Records /\ UNCHANGED <<config, plain, gz>>
    BY <1>1 DEF WriteBegins
  <2>2. PICK piece \in Fragments(Entry(id).line) :
          active' = File(Append(active.lines, [Entry(id) EXCEPT !.line = piece, !.whole = FALSE]), clock)
    BY <1>1 DEF WriteBegins
  <2> DEFINE e == [Entry(id) EXCEPT !.line = piece, !.whole = FALSE]
  <2>3. /\ e \in AnyEntry /\ e.id = id /\ ~e.whole
        /\ Entry(id).line = LineOf(config.codec, id, sequence)
    BY <2>1, EntryIs
  <2>4. e.seq = sequence /\ e.line = piece
    BY DEF Entry
  <2> HIDE DEF e
  <2>5. Genuine(e)
    BY <1>0, <2>1, <2>2, <2>3, <2>4 DEF Genuine
  <2>6. id \notin finished
    BY <1>0
  <2>7. active'.lines = Append(active.lines, e)
    <3>1. Append(active.lines, e) \in Seq(AnyEntry)
      BY <1>0, <2>3
    <3>2. active' = File(Append(active.lines, e), clock)
      BY <2>2 DEF e
    <3> QED
      BY <1>0, <3>1, <3>2, FileIs
  <2>8. Entries(active') = Entries(active) \cup {e}
    BY <1>0, <2>3, <2>7, EntriesAppend
  <2> HIDE DEF id
  <2>9. \A x \in Entries(active') : x \in InFiles \/ Added(x)
    BY <2>3, <2>5, <2>6, <2>8, InFilesHas DEF Added
  <2> QED
    BY <2>1, <2>9, ArchiveRests
<1>2. CASE WriteEnds
  <2> DEFINE e == Entry(written)
  <2>1. written \in 1..Len(Payload) /\ UNCHANGED <<config, plain, gz>> /\ engine.at = "writing"
    BY <1>2, WriteEndsEffect
  <2>2. PICK n \in 0..Len(active.lines) : active'.lines = Append(SubSeq(active.lines, 1, n), e)
    BY <1>2, WriteEndsEffect
  <2>3. written \in Records
    BY <2>1, Options
  <2>4. /\ e \in AnyEntry /\ e.id = written /\ e.seq = sequence /\ e.whole
        /\ e.line = LineOf(config.codec, written, sequence)
    BY <2>3, EntryIs
  <2>5. written \notin finished
    BY <2>1 DEF Files
  <2> HIDE DEF e
  <2>6. Genuine(e)
    BY <1>0, <2>3, <2>4 DEF Genuine
  <2>7. SubSeq(active.lines, 1, n) \in Seq(AnyEntry)
    BY <1>0, Prefix
  <2> DEFINE head == SubSeq(active.lines, 1, n)
             f == File(head, clock)
  <2>8. f.lines = head
    BY <1>0, <2>7, FileIs
  <2>9. Entries(active') = Entries(f) \cup {e}
    <3> HIDE DEF head, f
    <3> QED
      BY <2>2, <2>4, <2>7, <2>8, EntriesAppend DEF head
  <2>10. Entries(f) \subseteq Entries(active)
    <3> HIDE DEF f
    <3> QED
      BY <1>0, <2>8, EntriesPrefix
  <2> HIDE DEF f
  <2>11. \A x \in Entries(active') : x \in InFiles \/ Added(x)
    BY <2>4, <2>5, <2>6, <2>9, <2>10, InFilesHas DEF Added
  <2> QED
    BY <2>1, <2>11, ArchiveRests
<1> QED
  BY <1>1, <1>2

LEMMA EntriesRestart ==
  ASSUME Typed, Files, TwinLines,
         Reopen \/ Quiet \/ Crash \/ Tick \/ \E checkpoint \in BOOLEAN : Boot(checkpoint)
  PROVE  config' = config /\ TwinLines' /\ \A e \in InFiles' : e \in InFiles \/ Added(e)
<1>1. CASE Reopen
  <2>1. active'.lines = <<>> /\ UNCHANGED <<config, plain, gz>>
    BY <1>1, ReopenEffect
  <2>2. Entries(active') = {}
    BY <2>1, EntriesAre
  <2> QED
    BY <2>1, <2>2, ArchiveRests
<1>2. CASE Quiet \/ Crash \/ Tick
  <2>1. UNCHANGED <<config, active, plain, gz>>
    BY <1>2, QuietEffect DEF Crash, Tick, diskVars
  <2>2. \A e \in Entries(active') : e \in InFiles
    BY <2>1, InFilesHas
  <2> QED
    BY <2>1, <2>2, ArchiveRests
<1>3. CASE \E checkpoint \in BOOLEAN : Boot(checkpoint)
  <2>1. PICK checkpoint \in BOOLEAN : Boot(checkpoint)
    BY <1>3
  <2>2. UNCHANGED <<config, plain, gz>>
    BY <2>1, BootEffect
  <2>3. PICK n \in 0..Len(active.lines) : active'.lines = SubSeq(active.lines, 1, n)
    BY <2>1, BootEffect
  <2>4. active.lines \in Seq(AnyEntry)
    BY DEF Typed, AnyFile
  <2>5. Entries(active') \subseteq Entries(active)
    BY <2>3, <2>4, EntriesPrefix
  <2> QED
    BY <2>2, <2>5, InFilesHas, ArchiveRests
<1> QED
  BY <1>1, <1>2, <1>3

LEMMA EntriesRotate ==
  ASSUME Typed, Files, Ordered, Twins, TwinLines, RotateRename \/ GzipRename \/ GzipRemove \/ Removal
  PROVE  config' = config /\ TwinLines' /\ \A e \in InFiles' : e \in InFiles \/ Added(e)
<1>1. CASE RotateRename
  <2>1. /\ Fresh \in Name /\ active' = None /\ gz[Fresh] = None /\ plain'[Fresh] = active
        /\ \A n \in Name : n # Fresh => plain'[n] = plain[n]
        /\ UNCHANGED <<config, gz>>
    BY <1>1, RotateEffect
  <2>2. \A n \in Name : Entries(plain'[n]) \subseteq InFiles /\ Entries(gz'[n]) \subseteq InFiles
    BY <2>1, InFilesHas
  <2>3. \A e \in Entries(active') : e \in InFiles \/ Added(e)
    BY <2>1, EntriesAre
  <2>4. \A n \in Name : plain'[n].present => Entries(gz'[n]) \subseteq Entries(plain'[n])
    BY <2>1, EntriesAre DEF TwinLines
  <2>5. TwinLines'
    BY <2>4 DEF TwinLines, Entries
  <2> QED
    BY <2>1, <2>2, <2>3, <2>5, AddedOnly
<1>2. CASE GzipRename
  <2> DEFINE m == engine.name
  <2>1. /\ m \in Name /\ gz'[m].lines = plain[m].lines
        /\ \A n \in Name : n # m => gz'[n] = gz[n]
        /\ UNCHANGED <<config, active, plain>>
    BY <1>2, GzipEffect
  <2>2. Entries(gz'[m]) = Entries(plain[m])
    BY <2>1 DEF Entries
  <2> HIDE DEF m
  <2>3. \A n \in Name : Entries(plain'[n]) \subseteq InFiles /\ Entries(gz'[n]) \subseteq InFiles
    BY <2>1, <2>2, InFilesHas
  <2>4. \A e \in Entries(active') : e \in InFiles \/ Added(e)
    BY <2>1, InFilesHas
  <2>5. \A n \in Name : plain'[n].present => Entries(gz'[n]) \subseteq Entries(plain'[n])
    BY <2>1, <2>2 DEF TwinLines
  <2>6. TwinLines'
    BY <2>5 DEF TwinLines, Entries
  <2> QED
    BY <2>1, <2>3, <2>4, <2>6, AddedOnly
<1>3. CASE GzipRemove \/ Removal
  <2>1. /\ \A n \in Name : /\ plain'[n] = None \/ plain'[n] = plain[n]
                           /\ gz'[n] = None \/ gz'[n] = gz[n]
        /\ UNCHANGED <<config, active>>
    <3>1. CASE GzipRemove
      <4>1. plain' = [plain EXCEPT ![engine.name] = None] /\ UNCHANGED <<config, active, gz>>
        BY <3>1 DEF GzipRemove
      <4> QED
        BY <4>1 DEF Typed
    <3>2. CASE Removal
      BY <3>2, RemoveEffect DEF Removal
    <3> QED
      BY <1>3, <3>1, <3>2
  <2>2. \A n \in Name : Entries(plain'[n]) \subseteq InFiles /\ Entries(gz'[n]) \subseteq InFiles
    BY <2>1, InFilesHas, EntriesAre
  <2>3. \A e \in Entries(active') : e \in InFiles \/ Added(e)
    BY <2>1, InFilesHas
  <2>4. \A n \in Name : plain'[n].present => Entries(gz'[n]) \subseteq Entries(plain'[n])
    BY <2>1, FileIs, EntriesAre DEF TwinLines
  <2>5. TwinLines'
    BY <2>4 DEF TwinLines, Entries
  <2> QED
    BY <2>1, <2>2, <2>3, <2>5, AddedOnly
<1> QED
  BY <1>1, <1>2, <1>3

LEMMA EntriesEngine ==
  ASSUME Typed, Files, Ordered, Twins, TwinLines, EngineStep
  PROVE  config' = config /\ TwinLines' /\ \A e \in InFiles' : e \in InFiles \/ Added(e)
BY EntriesWrite, EntriesRestart, EntriesRotate, EngineSteps

-----------------------------------------------------------------------------
(* What the reader has found is what a reader makes of genuine lines.       *)
GenuineHits ==
  \A i \in DOMAIN reader.records :
    /\ Genuine(reader.records[i].of) /\ Parses(reader.records[i].of.line)
    /\ reader.records[i].record = Parsed(reader.records[i].of.line)

(* The records owed match the query.                                        *)
Wanted == \A e \in InFiles : e.whole /\ e.id \in owed => Matches(Expected(e), reader.query)

(* A record owed is delivered, or it is still ahead of the reader, or the   *)
(* codec can not bring some record back and a segment was counted.          *)
Delivered(id) == \E i \in DOMAIN reader.records : reader.records[i].of.id = id /\ reader.records[i].of.whole
Ahead(id) == \E j \in DOMAIN reader.segments : id \in Ids(FileOf(reader.segments[j]))
Counted == corrupted > 0 /\ ~Restorable

Awaited ==
  /\ reader.at = "archive" => \A id \in owed :
       \/ id \in Ids(active)
       \/ reader.query.include_archive /\ \E n \in Name : id \in Ids(plain[n]) \cup Ids(gz[n])
  /\ reader.at = "active" => \A id \in owed : id \in Ids(active) \/ Ahead(id)
  /\ reader.at \in {"read", "done"} /\ Len(reader.records) < reader.query.limit =>
       \A id \in owed : Delivered(id) \/ Counted \/ Ahead(id)

Content == GenuineFiles /\ TwinLines /\ GenuineHits /\ Wanted /\ Awaited

LEMMA ContentInit ==
  ASSUME Init
  PROVE  Content
<1>1. /\ active = File(<<>>, 0) /\ plain = [n \in Name |-> None] /\ gz = [n \in Name |-> None]
      /\ reader = NoQuery /\ owed = {}
  BY DEF Init, ArchiveInit
<1>2. active.lines = <<>>
  BY <1>1 DEF File
<1>3. InFiles = {}
  BY <1>1, <1>2, EntriesAre DEF InFiles
<1>4. TwinLines
  BY <1>1, FileIs DEF TwinLines
<1>5. reader.records = <<>> /\ reader.at = "idle" /\ DOMAIN reader.records = {}
  <2>1. NoQuery.records = <<>> /\ NoQuery.at = "idle"
    BY DEF NoQuery
  <2>2. PICK s : s = reader.records
    OBVIOUS
  <2>3. s = <<>> /\ DOMAIN <<>> = {}
    BY <1>1, <2>1, <2>2
  <2> QED
    BY <1>1, <2>1, <2>2, <2>3
<1> QED
  BY <1>1, <1>3, <1>4, <1>5 DEF Content, GenuineFiles, GenuineHits, Wanted, Awaited

(* What a record of which no copy moved is in, it stays in.                 *)
LEMMA NotMoved ==
  ASSUME NEW id \in owed \ Moved
  PROVE  /\ id \in Ids(active) => id \in Ids(active')
         /\ \A n \in Name : id \in Ids(plain[n]) => id \in Ids(plain'[n])
         /\ \A n \in Name : id \in Ids(gz[n]) => id \in Ids(gz'[n])
<1> DEFINE left(before, after) == IF before = after THEN {} ELSE Ids(before) \ Ids(after)
<1>1. Moved = left(active, active') \cup
                UNION {left(plain[n], plain'[n]) \cup left(gz[n], gz'[n]) : n \in Name}
  BY DEF Moved
<1>2. id \notin left(active, active')
  BY <1>1
<1>3. \A n \in Name : id \notin left(plain[n], plain'[n]) \cup left(gz[n], gz'[n])
  BY <1>1
<1> QED
  BY <1>2, <1>3

(* A step of the engine, or of the medium.                                  *)
LEMMA ContentMoves ==
  ASSUME Typed, ReaderTyped, Content, config' = config, TwinLines',
         \A e \in InFiles' : e \in InFiles \/ Added(e),
         owed' = owed \ Moved, UNCHANGED <<reader, corrupted>>,
         written' \in Nat, written <= written'
  PROVE  Content'
<1>1. \A e : Genuine(e)' <=> Genuine(e)
  BY DEF Genuine
<1>2. GenuineFiles'
  BY <1>1 DEF Content, GenuineFiles, Added
<1>3. GenuineHits'
  BY <1>1 DEF Content, GenuineHits
<1>4. Wanted'
  <2>1. \A e : Expected(e)' = Expected(e)
    BY DEF Expected
  <2>2. owed' \subseteq owed /\ owed \subseteq finished
    BY DEF ReaderTyped
  <2>3. \A e \in InFiles' : e.whole /\ e.id \in owed' => e \in InFiles
    BY <2>2 DEF Added
  <2>4. \A e \in InFiles : e.whole /\ e.id \in owed => Matches(Expected(e), reader.query)
    BY DEF Content, Wanted
  <2> QED
    BY <2>1, <2>2, <2>3, <2>4 DEF Wanted
<1>5. Awaited'
  <2>1. \A id \in owed' : id \in Ids(active) => id \in Ids(active')
    BY NotMoved
  <2>2. \A id \in owed' : \A n \in Name : id \in Ids(plain[n]) => id \in Ids(plain'[n])
    BY NotMoved
  <2>3. \A id \in owed' : \A n \in Name : id \in Ids(gz[n]) => id \in Ids(gz'[n])
    BY NotMoved
  <2>4. \A j \in DOMAIN reader.segments : reader.segments[j].name \in Name
    <3>1. reader.segments \in Seq(AnySegment)
      BY DEF ReaderTyped
    <3>2. \A j \in DOMAIN reader.segments : reader.segments[j] \in AnySegment
      BY <3>1
    <3> QED
      BY <3>2 DEF AnySegment
  <2>5. \A id \in owed' : Ahead(id) => Ahead(id)'
    <3> SUFFICES ASSUME NEW id \in owed', NEW j \in DOMAIN reader.segments,
                        id \in Ids(FileOf(reader.segments[j]))
                 PROVE  id \in Ids(FileOf(reader.segments[j]))'
      BY DEF Ahead
    <3> DEFINE s == reader.segments[j]
    <3>1. s.name \in Name /\ s' = s
      BY <2>4
    <3>2. id \in Ids(IF ~s.archived THEN active ELSE IF s.gz THEN gz[s.name] ELSE plain[s.name])
      BY DEF FileOf
    <3>3. id \in Ids(IF ~s.archived THEN active' ELSE IF s.gz THEN gz'[s.name] ELSE plain'[s.name])
      <4> HIDE DEF s
      <4> QED
        BY <2>1, <2>2, <2>3, <3>1, <3>2
    <3> HIDE DEF s
    <3>4. id \in Ids(FileOf(s))'
      BY <3>1, <3>3 DEF FileOf, Ids
    <3> QED
      BY <3>4 DEF s
  <2>6. \A id : Delivered(id) => Delivered(id)'
    BY DEF Delivered
  <2>7. Counted => Counted'
    <3>1. \A id : CodecRestores(id)' <=> CodecRestores(id)
      BY Zenon DEF CodecRestores
    <3>2. Restorable' => Restorable
      <4>1. \A id \in 1..written : id \in 1..written'
        BY DEF Typed
      <4> QED
        BY <3>1, <4>1 DEF Restorable
    <3> QED
      BY <3>2 DEF Counted
  <2>8. owed' \subseteq owed
    OBVIOUS
  <2>9. ASSUME reader.at = "archive", NEW id \in owed'
        PROVE  \/ id \in Ids(active')
               \/ reader.query.include_archive /\ \E n \in Name : id \in Ids(plain'[n]) \cup Ids(gz'[n])
    BY <2>1, <2>2, <2>3, <2>8, <2>9 DEF Content, Awaited
  <2>10. ASSUME reader.at = "active", NEW id \in owed'
         PROVE  id \in Ids(active') \/ Ahead(id)'
    BY <2>1, <2>5, <2>8, <2>10 DEF Content, Awaited
  <2>11. ASSUME reader.at \in {"read", "done"}, Len(reader.records) < reader.query.limit, NEW id \in owed'
         PROVE  Delivered(id)' \/ Counted' \/ Ahead(id)'
    <3>1. Delivered(id) \/ Counted \/ Ahead(id)
      BY <2>8, <2>11 DEF Content, Awaited
    <3> QED
      BY <2>5, <2>6, <2>7, <3>1
  <2>12. \A f : Ids(f)' = Ids(f)
    BY DEF Ids
  <2> QED
    BY <2>9, <2>10, <2>11 DEF Awaited, Ids
<1> QED
  BY <1>2, <1>3, <1>4, <1>5 DEF Content

LEMMA ContentDamage ==
  ASSUME Typed, Files, ReaderTyped, Content,
         NEW n \in Name, NEW keep \in 0..(Len(gz[n].lines) - 1), Damage(n, keep)
  PROVE  Content'
<1>1. /\ UNCHANGED <<config, active, plain, written, reader, corrupted>>
      /\ keep \in 0..Len(gz[n].lines) /\ gz'[n].lines = SubSeq(gz[n].lines, 1, keep)
      /\ \A m \in Name : m # n => gz'[m] = gz[m]
  BY DamageEffect
<1>2. owed' = owed \ Moved
  BY DEF Damage
<1>3. Entries(gz'[n]) \subseteq Entries(gz[n])
  <2>1. gz[n].lines \in Seq(AnyEntry)
    BY DEF Typed, AnyFile
  <2> QED
    BY <1>1, <2>1, EntriesPrefix
<1>4. \A m \in Name : Entries(gz'[m]) \subseteq Entries(gz[m])
  BY <1>1, <1>3
<1>5. TwinLines'
  <2>1. \A m \in Name : plain'[m].present => Entries(gz'[m]) \subseteq Entries(plain'[m])
    BY <1>1, <1>4 DEF Content, TwinLines
  <2> QED
    BY <2>1 DEF TwinLines, Entries
<1>6. \A e \in InFiles' : e \in InFiles \/ Added(e)
  <2>1. \A e \in Entries(active') : e \in InFiles \/ Added(e)
    BY <1>1, InFilesHas
  <2>2. \A m \in Name : Entries(plain'[m]) \subseteq InFiles /\ Entries(gz'[m]) \subseteq InFiles
    BY <1>1, <1>4, InFilesHas
  <2> QED
    BY <2>1, <2>2, AddedOnly
<1>7. written' \in Nat /\ written <= written'
  BY <1>1 DEF Typed
<1> QED
  BY <1>1, <1>2, <1>5, <1>6, <1>7, ContentMoves

-----------------------------------------------------------------------------
(* A record has one line, wherever copies of it lie.                        *)
LEMMA OneInFile ==
  ASSUME NEW f \in AnyFile, Sound(f, written, finished), NEW e \in Entries(f), NEW x \in Entries(f),
         e.id = x.id, written \in Nat
  PROVE  e = x
<1>1. f.lines \in Seq(AnyEntry)
  BY DEF AnyFile
<1>2. DOMAIN f.lines = 1..Len(f.lines) /\ Len(f.lines) \in Nat
  BY <1>1
<1>3. PICK i \in DOMAIN f.lines, j \in DOMAIN f.lines : e = f.lines[i] /\ x = f.lines[j]
  BY DEF Entries
<1>4. e.id \in Nat
  BY <1>3 DEF Sound
<1>5. ~(i < j) /\ ~(j < i)
  BY <1>3, <1>4 DEF Sound
<1>6. i = j
  BY <1>2, <1>5
<1> QED
  BY <1>3, <1>6

LEMMA SameEntry ==
  ASSUME Typed, Files, Ordered, TwinLines, NEW e \in InFiles, NEW x \in InFiles, e.id = x.id
  PROVE  e = x
<1> DEFINE Best(n) == IF plain[n].present THEN plain[n] ELSE gz[n]
<1>1. \A n \in Name : /\ Entries(plain[n]) \subseteq Entries(Best(n))
                      /\ Entries(gz[n]) \subseteq Entries(Best(n))
                      /\ Best(n) \in AnyFile /\ Sound(Best(n), written, finished)
                      /\ LineIds(Best(n)) \subseteq Archive(n)
  <2> TAKE n \in Name
  <2>1. CASE plain[n].present
    BY <2>1, ArchiveFiles DEF TwinLines, Archive
  <2>2. CASE ~plain[n].present
    BY <2>2, ArchiveFiles, EntriesAre DEF Archive
  <2> QED
    BY <2>1, <2>2
<1>2. \A y \in InFiles : y \in Entries(active) \/ \E n \in Name : y \in Entries(Best(n))
  BY <1>1 DEF InFiles
<1>3. \A f : \A y \in Entries(f) : y.id \in LineIds(f)
  BY DEF Entries, LineIds
<1>4. /\ active \in AnyFile /\ Sound(active, written, finished) /\ written \in Nat
      /\ \A y \in Entries(active) : y.id \in Nat
  BY DEF Typed, Files, InOrder, Sound, Entries
<1> HIDE DEF Best
<1>5. \A n \in Name : \A y \in Entries(Best(n)) : y.id \in Archive(n) /\ y.id \in Nat
  <2>1. \A n \in Name : \A y \in Entries(Best(n)) : y.id \in 1..written
    BY <1>1 DEF Sound, Entries
  <2> QED
    BY <1>1, <1>3, <1>4, <2>1
<1>6. \A n \in Name : \A y \in Entries(Best(n)) : \A z \in Entries(active) : y.id # z.id
  <2> SUFFICES ASSUME NEW n \in Name, NEW y \in Entries(Best(n)), NEW z \in Entries(active)
               PROVE  y.id < z.id
    BY <1>4, <1>5
  <2> QED
    BY <1>3, <1>5 DEF Ordered, Older
<1>7. \A m, n \in Name : \A y \in Entries(Best(m)) : \A z \in Entries(Best(n)) : y.id = z.id => m = n
  <2> SUFFICES ASSUME NEW m \in Name, NEW n \in Name, NEW y \in Entries(Best(m)),
                      NEW z \in Entries(Best(n)), m # n
               PROVE  y.id # z.id
    OBVIOUS
  <2>1. /\ Before(m, n) => y.id < z.id
        /\ Before(n, m) => z.id < y.id
    BY <1>5 DEF Ordered, Older
  <2> QED
    BY <1>5, <2>1, BeforeOrders
<1>8. CASE e \in Entries(active) /\ x \in Entries(active)
  BY <1>4, <1>8, OneInFile
<1>9. CASE \E n \in Name : e \in Entries(Best(n)) /\ x \in Entries(Best(n))
  BY <1>1, <1>4, <1>9, OneInFile
<1> QED
  BY <1>2, <1>6, <1>7, <1>8, <1>9

(* What a step of the reader leaves as it was.                              *)
LEMMA ArchiveStays ==
  ASSUME UNCHANGED archiveVars
  PROVE  /\ UNCHANGED <<config, active, plain, gz, written, finished>>
         /\ \A e : (Genuine(e)' <=> Genuine(e)) /\ Expected(e)' = Expected(e)
         /\ InFiles' = InFiles /\ (TwinLines => TwinLines')
         /\ \A s : FileOf(s)' = FileOf(s) /\ Ids(FileOf(s))' = Ids(FileOf(s))
         /\ Ids(active)' = Ids(active)
         /\ \A n : Ids(plain[n])' = Ids(plain[n]) /\ Ids(gz[n])' = Ids(gz[n])
         /\ Restorable' <=> Restorable
<1>1. UNCHANGED <<config, active, plain, gz, written, finished>>
  BY DEF archiveVars, diskVars
<1>2. \A e : (Genuine(e)' <=> Genuine(e)) /\ Expected(e)' = Expected(e)
  BY <1>1 DEF Genuine, Expected
<1>3. InFiles' = InFiles /\ (TwinLines => TwinLines')
  BY <1>1 DEF InFiles, TwinLines, Entries
<1>4. \A s : FileOf(s)' = FileOf(s)
  BY <1>1 DEF FileOf
<1>5. \A f, g : f = g => Ids(f) = Ids(g)
  OBVIOUS
<1>6. /\ \A s : Ids(FileOf(s))' = Ids(FileOf(s))
      /\ Ids(active)' = Ids(active)
      /\ \A n : Ids(plain[n])' = Ids(plain[n]) /\ Ids(gz[n])' = Ids(gz[n])
  BY <1>1, <1>4 DEF Ids
<1>7. Restorable' <=> Restorable
  <2>1. \A id : CodecRestores(id)' <=> CodecRestores(id)
    BY <1>1, Zenon DEF CodecRestores
  <2> QED
    BY <1>1, <2>1 DEF Restorable
<1> QED
  BY <1>1, <1>2, <1>3, <1>4, <1>6, <1>7

(* A step of the reader, from what it makes of the reader's variables.      *)
LEMMA ContentFrom ==
  ASSUME Content, UNCHANGED archiveVars,
         \A i \in DOMAIN reader'.records :
           /\ Genuine(reader'.records[i].of) /\ Parses(reader'.records[i].of.line)
           /\ reader'.records[i].record = Parsed(reader'.records[i].of.line),
         \A e \in InFiles : e.whole /\ e.id \in owed' => Matches(Expected(e), reader'.query),
         reader'.at = "archive" => \A id \in owed' :
           \/ id \in Ids(active)
           \/ reader'.query.include_archive /\ \E n \in Name : id \in Ids(plain[n]) \cup Ids(gz[n]),
         reader'.at = "active" => \A id \in owed' :
           \/ id \in Ids(active)
           \/ \E j \in DOMAIN reader'.segments : id \in Ids(FileOf(reader'.segments[j])),
         reader'.at \in {"read", "done"} /\ Len(reader'.records) < reader'.query.limit =>
           \A id \in owed' :
             \/ \E i \in DOMAIN reader'.records : reader'.records[i].of.id = id /\ reader'.records[i].of.whole
             \/ corrupted' > 0 /\ ~Restorable
             \/ \E j \in DOMAIN reader'.segments : id \in Ids(FileOf(reader'.segments[j]))
  PROVE  Content'
<1>1. GenuineFiles' /\ TwinLines'
  BY ArchiveStays DEF Content, GenuineFiles
<1>2. GenuineHits'
  BY ArchiveStays DEF GenuineHits
<1>3. Wanted'
  BY ArchiveStays DEF Wanted
<1>4. \A j : Ids(FileOf(reader'.segments[j])) = Ids(FileOf(reader.segments[j]))'
  <2>1. UNCHANGED <<active, plain, gz>>
    BY ArchiveStays
  <2>2. \A j : FileOf(reader'.segments[j]) = FileOf(reader.segments[j])'
    BY <2>1 DEF FileOf
  <2> QED
    BY <2>2 DEF Ids
<1>5. /\ \A id : Delivered(id)' <=> \E i \in DOMAIN reader'.records :
                      reader'.records[i].of.id = id /\ reader'.records[i].of.whole
      /\ \A id : Ahead(id)' <=> \E j \in DOMAIN reader'.segments : id \in Ids(FileOf(reader'.segments[j]))
      /\ Counted' <=> corrupted' > 0 /\ ~Restorable
  BY <1>4, ArchiveStays DEF Delivered, Ahead, Counted
<1>6. Awaited'
  BY <1>5, ArchiveStays DEF Awaited
<1> QED
  BY <1>1, <1>2, <1>3, <1>6 DEF Content

LEMMA LimitedMatches ==
  ASSUME NEW q \in Queries, NEW r
  PROVE  /\ Matches(r, Limited(q)) <=> Matches(r, q)
         /\ Limited(q).include_archive = q.include_archive
<1>1. q \in [via : {"http", "grpc"}, seq_from : Bound, seq_to : Bound, time_from : Bound,
             time_to : Bound, source_id : STRING, agent_id : STRING, limit : Bound,
             include_archive : BOOLEAN]
  BY QueryAssumption
<1>2. /\ Limited(q).include_archive = q.include_archive
      /\ Limited(q).seq_from = q.seq_from /\ Limited(q).seq_to = q.seq_to
      /\ Limited(q).time_from = q.time_from /\ Limited(q).time_to = q.time_to
      /\ Limited(q).source_id = q.source_id /\ Limited(q).agent_id = q.agent_id
  BY <1>1 DEF Limited
<1> QED
  BY <1>2 DEF Matches

LEMMA ContentAsks ==
  ASSUME Typed, Files, Ordered, Content, UNCHANGED archiveVars, NEW q \in Queries, Ask(q)
  PROVE  Content'
<1>1. reader' = [NoQuery EXCEPT !.query = Limited(q), !.at = "archive"]
  BY DEF Ask
<1>2. /\ reader'.at = "archive" /\ reader'.records = <<>> /\ reader'.query = Limited(q)
  BY <1>1 DEF NoQuery
<1>3. \A f : \A id \in Owed(f, q) :
        /\ id \in Ids(f)
        /\ \E x \in Entries(f) : x.whole /\ x.id = id /\ Matches(Expected(x), q)
  BY DEF Owed, Entries, Ids
<1>4. \A id \in owed' :
        \/ id \in Owed(active, q)
        \/ q.include_archive /\ \E n \in Name : id \in Owed(plain[n], q) \cup Owed(gz[n], q)
  BY DEF Ask
<1>5. \A id \in owed' : \E x \in InFiles : x.id = id /\ Matches(Expected(x), q)
  BY <1>3, <1>4 DEF InFiles
<1>6. \A e \in InFiles : e.whole /\ e.id \in owed' => Matches(Expected(e), Limited(q))
  <2>1. TwinLines
    BY DEF Content
  <2>2. \A e \in InFiles : e.whole /\ e.id \in owed' => Matches(Expected(e), q)
    BY <1>5, <2>1, SameEntry
  <2> QED
    BY <2>2, LimitedMatches
<1>7. \A id \in owed' :
        \/ id \in Ids(active)
        \/ q.include_archive /\ \E n \in Name : id \in Ids(plain[n]) \cup Ids(gz[n])
  BY <1>3, <1>4
<1>8. Limited(q).include_archive = q.include_archive
  BY LimitedMatches
<1>9. DOMAIN reader'.records = {}
  <2>1. PICK s : s = reader'.records
    OBVIOUS
  <2> QED
    BY <1>2, <2>1
<1> QED
  BY <1>2, <1>6, <1>7, <1>8, <1>9, ContentFrom

(* A listing without repetition that is as long as its set has all of it.   *)
LEMMA HitsAll ==
  ASSUME NEW S, IsFiniteSet(S), NEW f \in [1..Cardinality(S) -> S],
         \A i, j \in 1..Cardinality(S) : i < j => f[i] # f[j]
  PROVE  \A x \in S : \E i \in 1..Cardinality(S) : f[i] = x
<1> SUFFICES ASSUME NEW x \in S, \A i \in 1..Cardinality(S) : f[i] # x
             PROVE  FALSE
  OBVIOUS
<1> DEFINE c == Cardinality(S)
           T == S \ {x}
<1>1. c \in Nat
  BY FS_CardinalityType
<1>2. IsFiniteSet(T) /\ Cardinality(T) = c - 1
  BY FS_RemoveElement
<1>3. IsFiniteSet(1..c) /\ Cardinality(1..c) = c
  <2>1. 1 \in Int /\ c \in Int
    BY <1>1
  <2> HIDE DEF c
  <2>2. IsFiniteSet(1..c) /\ Cardinality(1..c) = IF 1 > c THEN 0 ELSE c - 1 + 1
    BY <2>1, FS_Interval
  <2> QED
    BY <1>1, <2>2
<1>4. f \in [1..c -> T]
  OBVIOUS
<1> HIDE DEF T
<1>5. Cardinality(T) < Cardinality(1..c)
  <2> HIDE DEF c
  <2> QED
    BY <1>1, <1>2, <1>3
<1>6. PICK i \in 1..c, j \in 1..c : i # j /\ f[i] = f[j]
  <2> HIDE DEF c
  <2> QED
    BY <1>2, <1>3, <1>4, <1>5, FS_PigeonHole
<1>7. i < j \/ j < i
  BY <1>1, <1>6
<1> QED
  BY <1>6, <1>7

(* Every segment of the archive is listed.                                  *)
LEMMA AllListed ==
  ASSUME NEW n \in Named
  PROVE  \E j \in DOMAIN ArchiveSegments :
           ArchiveSegments[j] = [archived |-> TRUE, name |-> n, gz |-> Zipped(n)]
<1> DEFINE names == Sorted(Named)
           c == Cardinality(Named)
<1>1. Named \in SUBSET Name /\ IsFiniteSet(Named)
  <2>1. Named \subseteq Name
    BY DEF Named
  <2> QED
    BY <2>1, NamesFinite, FS_Subset
<1>2. /\ names \in [1..c -> Named] /\ c \in Nat
      /\ \A i, j \in 1..c : i < j => Before(names[i], names[j])
  BY <1>1, SortedLists
<1>3. \A i, j \in 1..c : i < j => names[i] # names[j]
  <2> SUFFICES ASSUME NEW i \in 1..c, NEW j \in 1..c, i < j PROVE names[i] # names[j]
    OBVIOUS
  <2>1. names[i] \in Name /\ Before(names[i], names[j])
    BY <1>1, <1>2
  <2> QED
    BY <2>1, BeforeOrders
<1>4. PICK j \in 1..c : names[j] = n
  <2> HIDE DEF names
  <2> QED
    BY <1>1, <1>2, <1>3, HitsAll
<1>5. ArchiveSegments =
        [i \in DOMAIN names |-> [archived |-> TRUE, name |-> names[i], gz |-> Zipped(names[i])]]
  BY DEF ArchiveSegments
<1> HIDE DEF names, c
<1>6. DOMAIN names = 1..c
  BY <1>2
<1>7. /\ j \in DOMAIN ArchiveSegments
      /\ ArchiveSegments[j] = [archived |-> TRUE, name |-> names[j], gz |-> Zipped(names[j])]
  BY <1>4, <1>5, <1>6
<1> QED
  BY <1>4, <1>7

LEMMA ContentLists ==
  ASSUME Typed, Files, ReaderInv, Content, UNCHANGED archiveVars, ListArchive
  PROVE  Content'
<1> DEFINE s == IF reader.query.include_archive THEN ArchiveSegments ELSE <<>>
<1>1. /\ reader.at = "archive" /\ owed' = owed
      /\ reader' = [reader EXCEPT !.at = "active", !.segments = s]
  BY DEF ListArchive
<1>2. /\ reader'.at = "active" /\ reader'.segments = s /\ reader'.records = reader.records
      /\ reader'.query = reader.query
  BY <1>1 DEF ReaderInv, ReaderTyped
<1>3. ASSUME NEW id \in owed
      PROVE  id \in Ids(active) \/ \E j \in DOMAIN s : id \in Ids(FileOf(s[j]))
  <2>1. CASE id \in Ids(active)
    BY <2>1
  <2>2. CASE id \notin Ids(active)
    <3>1. /\ reader.query.include_archive
          /\ \E n \in Name : id \in Ids(plain[n]) \cup Ids(gz[n])
      BY <1>1, <2>2 DEF Content, Awaited
    <3>2. PICK n \in Name : id \in Ids(plain[n]) \cup Ids(gz[n])
      BY <3>1
    <3>3. Ids(gz[n]) \subseteq Ids(plain[n]) \/ ~plain[n].present
      BY EntriesAre DEF Content, TwinLines
    <3>4. /\ ~plain[n].present => Ids(plain[n]) = {}
          /\ ~gz[n].present => Ids(gz[n]) = {}
      BY ArchiveFiles, NoneIs
    <3>5. n \in Named
      BY <3>2, <3>4 DEF Named
    <3>6. PICK j \in DOMAIN ArchiveSegments :
            ArchiveSegments[j] = [archived |-> TRUE, name |-> n, gz |-> Zipped(n)]
      BY <3>5, AllListed
    <3>7. FileOf(ArchiveSegments[j]) = IF plain[n].present THEN plain[n] ELSE gz[n]
      <4>1. PICK x : x = ArchiveSegments[j]
        OBVIOUS
      <4>2. PICK z : z = Zipped(n)
        OBVIOUS
      <4>3. x.archived /\ x.name = n /\ x.gz = z
        BY <3>6, <4>1, <4>2
      <4>4. CASE plain[n].present
        <5>1. z = FALSE
          BY <4>2, <4>4 DEF Zipped
        <5> QED
          BY <4>1, <4>3, <4>4, <5>1 DEF FileOf
      <4>5. CASE ~plain[n].present
        <5>1. z = TRUE
          BY <4>2, <4>5 DEF Zipped
        <5> QED
          BY <4>1, <4>3, <4>5, <5>1 DEF FileOf
      <4> QED
        BY <4>4, <4>5
    <3>8. id \in Ids(FileOf(ArchiveSegments[j]))
      BY <3>2, <3>3, <3>4, <3>7
    <3>9. s = ArchiveSegments
      BY <3>1
    <3> HIDE DEF s
    <3> QED
      BY <3>6, <3>8, <3>9
  <2> QED
    BY <2>1, <2>2
<1> HIDE DEF s
<1>4. /\ \A i \in DOMAIN reader.records :
           /\ Genuine(reader.records[i].of) /\ Parses(reader.records[i].of.line)
           /\ reader.records[i].record = Parsed(reader.records[i].of.line)
      /\ \A e \in InFiles : e.whole /\ e.id \in owed => Matches(Expected(e), reader.query)
  BY DEF Content, GenuineHits, Wanted
<1> QED
  BY <1>1, <1>2, <1>3, <1>4, ContentFrom

LEMMA ContentListsActive ==
  ASSUME Typed, Files, ReaderInv, Content, UNCHANGED archiveVars, ListActive
  PROVE  Content'
<1> DEFINE last == [archived |-> FALSE, name |-> <<0, 0>>, gz |-> FALSE]
           old == reader.segments
           s == IF active.present THEN Append(old, last) ELSE old
<1>1. /\ reader.at = "active" /\ owed' = owed
      /\ reader' = [reader EXCEPT !.at = "read", !.segments = s]
  BY DEF ListActive
<1>2. /\ reader'.at = "read" /\ reader'.segments = s /\ reader'.records = reader.records
      /\ reader'.query = reader.query /\ old \in Seq(AnySegment)
  BY <1>1 DEF ReaderInv, ReaderTyped
<1>3. FileOf(last) = active /\ last \in AnySegment
  BY Options DEF FileOf, AnySegment, Name
<1> HIDE DEF last, old
<1>4. ASSUME NEW id \in owed
      PROVE  \E j \in DOMAIN s : id \in Ids(FileOf(s[j]))
  <2>1. id \in Ids(active) \/ \E j \in DOMAIN old : id \in Ids(FileOf(old[j]))
    BY <1>1 DEF Content, Awaited, Ahead, old
  <2>2. CASE active.present
    <3>1. /\ DOMAIN Append(old, last) = 1..(Len(old) + 1) /\ Append(old, last)[Len(old) + 1] = last
          /\ DOMAIN old = 1..Len(old) /\ Len(old) \in Nat
          /\ \A i \in 1..Len(old) : Append(old, last)[i] = old[i]
      BY <1>2, <1>3
    <3>2. s = Append(old, last)
      BY <2>2
    <3> HIDE DEF s
    <3>3. /\ Len(old) + 1 \in DOMAIN s /\ s[Len(old) + 1] = last
          /\ \A i \in DOMAIN old : i \in DOMAIN s /\ s[i] = old[i]
      BY <3>1, <3>2
    <3> QED
      BY <1>3, <2>1, <3>3
  <2>3. CASE ~active.present
    <3>1. Ids(active) = {}
      BY <2>3, NoneIs DEF Files, InOrder, Sound
    <3>2. s = old
      BY <2>3
    <3> QED
      BY <2>1, <3>1, <3>2
  <2> QED
    BY <2>2, <2>3
<1> HIDE DEF s
<1>5. /\ \A i \in DOMAIN reader.records :
           /\ Genuine(reader.records[i].of) /\ Parses(reader.records[i].of.line)
           /\ reader.records[i].record = Parsed(reader.records[i].of.line)
      /\ \A e \in InFiles : e.whole /\ e.id \in owed => Matches(Expected(e), reader.query)
  BY DEF Content, GenuineHits, Wanted
<1> QED
  BY <1>1, <1>2, <1>4, <1>5, ContentFrom

LEMMA ContentFinishes ==
  ASSUME ReaderInv, Content, UNCHANGED archiveVars, Finish
  PROVE  Content'
<1>1. /\ reader.at = "read" /\ owed' = owed /\ corrupted' = corrupted
      /\ reader' = [reader EXCEPT !.at = "done", !.segments = <<>>]
      /\ reader.segments = <<>> \/ reader.query.limit = 0
  BY DEF Finish
<1>2. /\ reader'.at = "done" /\ reader'.segments = <<>> /\ reader'.records = reader.records
      /\ reader'.query = reader.query /\ reader.records \in Seq(AnyHit)
  BY <1>1 DEF ReaderInv, ReaderTyped
<1>3. ASSUME Len(reader.records) < reader.query.limit, NEW id \in owed
      PROVE  \/ \E i \in DOMAIN reader.records : reader.records[i].of.id = id /\ reader.records[i].of.whole
             \/ corrupted > 0 /\ ~Restorable
  <2>1. Delivered(id) \/ Counted \/ Ahead(id)
    BY <1>1, <1>3 DEF Content, Awaited
  <2>2. reader.query.limit # 0
    <3>1. Len(reader.records) \in Nat
      BY <1>2
    <3> QED
      BY <1>3, <3>1
  <2>3. DOMAIN reader.segments = {}
    <3>1. PICK s : s = reader.segments
      OBVIOUS
    <3> QED
      BY <1>1, <2>2, <3>1
  <2> QED
    BY <2>1, <2>3 DEF Delivered, Counted, Ahead
<1>4. /\ \A i \in DOMAIN reader.records :
           /\ Genuine(reader.records[i].of) /\ Parses(reader.records[i].of.line)
           /\ reader.records[i].record = Parsed(reader.records[i].of.line)
      /\ \A e \in InFiles : e.whole /\ e.id \in owed => Matches(Expected(e), reader.query)
  BY DEF Content, GenuineHits, Wanted
<1> QED
  BY <1>1, <1>2, <1>3, <1>4, ContentFrom

LEMMA ContentReplies ==
  ASSUME Content, UNCHANGED archiveVars, Reply
  PROVE  Content'
<1>1. reader' = NoQuery /\ owed' = {}
  BY DEF Reply
<1>2. reader'.at = "idle" /\ reader'.records = <<>>
  BY <1>1 DEF NoQuery
<1>3. DOMAIN reader'.records = {}
  <2>1. PICK s : s = reader'.records
    OBVIOUS
  <2> QED
    BY <1>2, <2>1
<1> QED
  BY <1>1, <1>2, <1>3, ContentFrom

(* Reading stops at the first line that does not parse.                     *)
LEMMA ReadableParses ==
  ASSUME NEW lines \in Seq(AnyEntry)
  PROVE  \E n \in 0..Len(lines) :
           /\ Readable(lines) = SubSeq(lines, 1, n)
           /\ \A i \in 1..n : Parses(lines[i].line)
           /\ n < Len(lines) => ~Parses(lines[n + 1].line)
<1> DEFINE bad == {i \in DOMAIN lines : ~Parses(lines[i].line)}
           first == CHOOSE i \in bad : \A j \in bad : i <= j
<1>1. DOMAIN lines = 1..Len(lines) /\ Len(lines) \in Nat
  OBVIOUS
<1>2. CASE bad = {}
  <2>1. Readable(lines) = SubSeq(lines, 1, Len(lines))
    BY <1>2 DEF Readable
  <2>2. \A i \in 1..Len(lines) : Parses(lines[i].line)
    BY <1>1, <1>2
  <2> DEFINE n == Len(lines)
  <2>3. n \in 0..Len(lines) /\ ~(n < Len(lines))
    BY <1>1
  <2> QED
    BY <2>1, <2>2, <2>3, Zenon
<1>3. CASE bad # {}
  <2>1. Readable(lines) = SubSeq(lines, 1, first - 1)
    BY <1>3 DEF Readable
  <2>2. /\ bad \subseteq 1..Len(lines) /\ bad \subseteq Nat
        /\ \A i \in 1..Len(lines) : i \in bad <=> ~Parses(lines[i].line)
    BY <1>1
  <2> HIDE DEF bad
  <2>3. \E i \in bad : \A j \in bad : i <= j
    BY <1>3, <2>2, Least
  <2>4. first \in bad /\ \A j \in bad : first <= j
    BY <2>3
  <2> HIDE DEF first
  <2>5. /\ first - 1 \in 0..Len(lines) /\ (first - 1) + 1 = first
        /\ \A i \in 1..(first - 1) : i \in 1..Len(lines) /\ i \notin bad
    BY <1>1, <2>2, <2>4
  <2>6. /\ \A i \in 1..(first - 1) : Parses(lines[i].line)
        /\ ~Parses(lines[first].line)
    BY <2>2, <2>4, <2>5
  <2> QED
    BY <2>1, <2>5, <2>6
<1> QED
  BY <1>2, <1>3

(* Of what is read, every line that matches is found, and nothing else.     *)
LEMMA MatchingHas ==
  ASSUME NEW lines \in Seq(AnyEntry)
  PROVE  /\ \A i \in DOMAIN Matching(lines) : \E k \in DOMAIN lines :
              Matching(lines)[i].of = lines[k] /\ Matching(lines)[i].record = Parsed(lines[k].line)
         /\ \A k \in DOMAIN lines : Matches(Parsed(lines[k].line), reader.query) =>
              \E i \in DOMAIN Matching(lines) : Matching(lines)[i].of = lines[k]
<1> DEFINE S == {i \in DOMAIN lines : Matches(Parsed(lines[i].line), reader.query)}
           found == Ascending(S)
           c == Cardinality(S)
           M == Matching(lines)
<1>1. DOMAIN lines = 1..Len(lines) /\ Len(lines) \in Nat
  OBVIOUS
<1>2. S \subseteq DOMAIN lines /\ S \subseteq 1..Len(lines) /\ S \subseteq Nat
  BY <1>1
<1>3. IsFiniteSet(S)
  <2>1. IsFiniteSet(1..Len(lines))
    BY <1>1, FS_Interval
  <2> HIDE DEF S
  <2> QED
    BY <1>2, <2>1, FS_Subset
<1>4. M = [i \in DOMAIN found |-> [of |-> lines[found[i]], record |-> Parsed(lines[found[i]].line)]]
  BY DEF Matching
<1>5. \A k \in DOMAIN lines : Matches(Parsed(lines[k].line), reader.query) => k \in S
  OBVIOUS
<1> HIDE DEF S
<1>6. /\ found \in [1..c -> S] /\ c \in Nat
      /\ \A i, j \in 1..c : i < j => found[i] < found[j]
  BY <1>2, <1>3, AscendingLists
<1>7. \A k \in S : \E i \in 1..c : found[i] = k
  <2>1. \A i, j \in 1..c : i < j => found[i] # found[j]
    <3> HIDE DEF found, c
    <3> SUFFICES ASSUME NEW i \in 1..c, NEW j \in 1..c, i < j PROVE found[i] # found[j]
      OBVIOUS
    <3>1. found[i] < found[j] /\ found[i] \in Nat
      BY <1>2, <1>6
    <3> QED
      BY <3>1
  <2> HIDE DEF found
  <2> QED
    BY <1>3, <1>6, <2>1, HitsAll
<1> HIDE DEF found, c
<1>8. /\ DOMAIN M = 1..c
      /\ \A i \in 1..c : M[i] = [of |-> lines[found[i]], record |-> Parsed(lines[found[i]].line)]
      /\ \A i \in 1..c : found[i] \in DOMAIN lines
  BY <1>2, <1>4, <1>6
<1> HIDE DEF M
<1>9. \A i \in 1..c : M[i].of = lines[found[i]] /\ M[i].record = Parsed(lines[found[i]].line)
  BY <1>8
<1> QED
  BY <1>5, <1>7, <1>8, <1>9 DEF M

(* The lines of a segment.                                                  *)
LEMMA SegmentLines ==
  ASSUME Typed, Files, NEW s \in AnySegment
  PROVE  /\ Entries(FileOf(s)) \subseteq InFiles
         /\ \A i, m \in DOMAIN FileOf(s).lines :
              i <= m /\ FileOf(s).lines[m].whole => FileOf(s).lines[i].whole
<1>1. s.name \in Name
  BY DEF AnySegment
<1> DEFINE f == FileOf(s)
<1>2. CASE f = active
  <2>1. active.lines \in Seq(AnyEntry)
    BY DEF Typed, AnyFile
  <2>2. \A i, m \in DOMAIN active.lines : i <= m /\ active.lines[m].whole => active.lines[i].whole
    <3> SUFFICES ASSUME NEW i \in DOMAIN active.lines, NEW m \in DOMAIN active.lines, i <= m,
                        ~active.lines[i].whole
                 PROVE  ~active.lines[m].whole
      OBVIOUS
    <3>1. i = Len(active.lines)
      BY DEF Files
    <3>2. DOMAIN active.lines = 1..Len(active.lines) /\ Len(active.lines) \in Nat
      BY <2>1
    <3>3. m = i
      BY <3>1, <3>2
    <3> QED
      BY <3>3
  <2> QED
    BY <1>2, <2>2, InFilesHas
<1>3. CASE f = gz[s.name] \/ f = plain[s.name]
  <2>1. Archived(f)
    BY <1>1, <1>3 DEF Files
  <2>2. Entries(f) \subseteq InFiles
    BY <1>1, <1>3, InFilesHas
  <2> HIDE DEF f
  <2>3. \A i \in DOMAIN f.lines : f.lines[i].whole
    BY <2>1 DEF Archived
  <2> QED
    BY <2>2, <2>3 DEF f
<1> QED
  BY <1>2, <1>3 DEF FileOf

(* What the segment read next adds to the records found.                    *)
LEMMA FoundIs ==
  ASSUME Typed, Files, ReaderInv, Content, reader.segments # <<>>
  PROVE  LET f == FileOf(Head(reader.segments)) IN
         /\ Found \in Seq(AnyHit) /\ Len(reader.records) <= Len(Found)
         /\ \A i \in DOMAIN reader.records : i \in DOMAIN Found /\ Found[i] = reader.records[i]
         /\ \A i \in DOMAIN Found :
              /\ Genuine(Found[i].of) /\ Parses(Found[i].of.line)
              /\ Found[i].record = Parsed(Found[i].of.line)
         /\ \E n \in 0..Len(f.lines) :
              /\ Len(Readable(f.lines)) = n
              /\ n < Len(f.lines) => ~Parses(f.lines[n + 1].line)
              /\ \A m \in 1..n : Matches(Parsed(f.lines[m].line), reader.query) =>
                   \E i \in DOMAIN Found : Found[i].of = f.lines[m]
<1> DEFINE s == Head(reader.segments)
           f == FileOf(s)
           a == reader.records
           r == Readable(f.lines)
           b == Matching(r)
           F == Found
<1>1. s \in AnySegment /\ a \in Seq(AnyHit)
  BY DEF ReaderInv, ReaderTyped
<1>2. f.lines \in Seq(AnyEntry) /\ Entries(f) \subseteq InFiles
  BY <1>1, FileOfIs, SegmentLines
<1>3. F = a \o b
  BY DEF Found
<1> HIDE DEF s, f, F
<1>4. PICK n \in 0..Len(f.lines) :
        /\ r = SubSeq(f.lines, 1, n)
        /\ \A i \in 1..n : Parses(f.lines[i].line)
        /\ n < Len(f.lines) => ~Parses(f.lines[n + 1].line)
  BY <1>2, ReadableParses
<1>5. /\ r \in Seq(AnyEntry) /\ Len(r) = n /\ DOMAIN r = 1..n
      /\ \A k \in 1..n : r[k] = f.lines[k] /\ k \in DOMAIN f.lines
  BY <1>2, <1>4, Prefix
<1> HIDE DEF r
<1>6. /\ b \in Seq(AnyHit)
      /\ \A i \in DOMAIN b : \E k \in DOMAIN r : b[i].of = r[k] /\ b[i].record = Parsed(r[k].line)
      /\ \A k \in DOMAIN r : Matches(Parsed(r[k].line), reader.query) =>
           \E i \in DOMAIN b : b[i].of = r[k]
  BY <1>5, MatchingIs, MatchingHas
<1> HIDE DEF a, b
<1>7. /\ F \in Seq(AnyHit) /\ Len(F) = Len(a) + Len(b) /\ Len(F) \in Nat /\ DOMAIN F = 1..Len(F)
      /\ Len(a) \in Nat /\ Len(b) \in Nat
      /\ DOMAIN a = 1..Len(a) /\ DOMAIN b = 1..Len(b)
      /\ \A i \in 1..Len(a) : F[i] = a[i]
      /\ \A i \in 1..Len(b) : F[Len(a) + i] = b[i]
  BY <1>1, <1>3, <1>6, Joined
<1>8. \A i \in DOMAIN F : \/ i \in DOMAIN a /\ F[i] = a[i]
                          \/ i - Len(a) \in DOMAIN b /\ F[i] = b[i - Len(a)]
  <2> SUFFICES ASSUME NEW i \in 1..Len(F), i > Len(a)
               PROVE  i - Len(a) \in 1..Len(b) /\ F[i] = b[i - Len(a)]
    BY <1>7
  <2>1. i - Len(a) \in 1..Len(b)
    BY <1>7
  <2>2. Len(a) + (i - Len(a)) = i
    BY <1>7
  <2> QED
    BY <1>7, <2>1, <2>2
<1>9. /\ Len(a) <= Len(F) /\ \A i \in DOMAIN a : i \in DOMAIN F /\ F[i] = a[i]
      /\ \A i \in DOMAIN b : \E j \in DOMAIN F : F[j] = b[i]
  <2>1. Len(a) <= Len(F) /\ \A i \in DOMAIN a : i \in DOMAIN F /\ F[i] = a[i]
    BY <1>7
  <2>2. \A i \in DOMAIN b : Len(a) + i \in DOMAIN F /\ F[Len(a) + i] = b[i]
    BY <1>7
  <2> QED
    BY <2>1, <2>2
<1>10. \A i \in DOMAIN b : /\ Genuine(b[i].of) /\ Parses(b[i].of.line)
                           /\ b[i].record = Parsed(b[i].of.line)
  <2> TAKE i \in DOMAIN b
  <2>1. PICK k \in DOMAIN r : b[i].of = r[k] /\ b[i].record = Parsed(r[k].line)
    BY <1>6
  <2>2. r[k] = f.lines[k] /\ k \in DOMAIN f.lines /\ Parses(f.lines[k].line)
    BY <1>4, <1>5
  <2>3. f.lines[k] \in InFiles
    BY <1>2, <2>2 DEF Entries
  <2>4. Genuine(r[k])
    BY <2>2, <2>3 DEF Content, GenuineFiles
  <2> QED
    BY <2>1, <2>2, <2>4
<1>11. \A i \in DOMAIN a : /\ Genuine(a[i].of) /\ Parses(a[i].of.line)
                           /\ a[i].record = Parsed(a[i].of.line)
  BY DEF Content, GenuineHits, a
<1>12. \A i \in DOMAIN F : /\ Genuine(F[i].of) /\ Parses(F[i].of.line)
                           /\ F[i].record = Parsed(F[i].of.line)
  BY <1>8, <1>10, <1>11
<1>13. \A m \in 1..n : Matches(Parsed(f.lines[m].line), reader.query) =>
         \E i \in DOMAIN F : F[i].of = f.lines[m]
  <2> SUFFICES ASSUME NEW m \in 1..n, Matches(Parsed(f.lines[m].line), reader.query)
               PROVE  \E i \in DOMAIN F : F[i].of = f.lines[m]
    OBVIOUS
  <2>1. r[m] = f.lines[m] /\ m \in DOMAIN r
    BY <1>5
  <2>2. PICK i \in DOMAIN b : b[i].of = f.lines[m]
    BY <1>6, <2>1
  <2>3. PICK j \in DOMAIN F : F[j] = b[i]
    BY <1>9
  <2> QED
    BY <2>2, <2>3
<1>14. /\ F \in Seq(AnyHit) /\ Len(a) <= Len(F)
       /\ \A i \in DOMAIN a : i \in DOMAIN F /\ F[i] = a[i]
       /\ \E k \in 0..Len(f.lines) :
              /\ Len(r) = k
              /\ k < Len(f.lines) => ~Parses(f.lines[k + 1].line)
              /\ \A m \in 1..k : Matches(Parsed(f.lines[m].line), reader.query) =>
                   \E i \in DOMAIN F : F[i].of = f.lines[m]
  BY <1>4, <1>5, <1>7, <1>9, <1>13
<1> QED
  BY <1>12, <1>14, Zenon DEF F, a, f, s, r

(* What a step from a reader that has not its limit makes of a record owed. *)
LEMMA OwedInSegment ==
  ASSUME Envelopes, Typed, Files, ReaderInv, Content, reader.segments # <<>>, ~Full,
         NEW id \in owed, id \in Ids(FileOf(Head(reader.segments)))
  PROVE  \/ \E i \in DOMAIN Found : Found[i].of.id = id /\ Found[i].of.whole
         \/ Bad /\ ~Restorable
<1> DEFINE s == Head(reader.segments)
           f == FileOf(s)
           c == config.codec
<1>1. s \in AnySegment
  BY DEF ReaderInv, ReaderTyped
<1>2. /\ f.lines \in Seq(AnyEntry) /\ Entries(f) \subseteq InFiles
      /\ Sound(f, written, finished)
      /\ \A i, m \in DOMAIN f.lines : i <= m /\ f.lines[m].whole => f.lines[i].whole
  BY <1>1, FileOfIs, SegmentLines
<1>3. PICK n \in 0..Len(f.lines) :
        /\ Len(Readable(f.lines)) = n
        /\ n < Len(f.lines) => ~Parses(f.lines[n + 1].line)
        /\ \A m \in 1..n : Matches(Parsed(f.lines[m].line), reader.query) =>
             \E i \in DOMAIN Found : Found[i].of = f.lines[m]
  BY FoundIs
<1>4. c \in CodecConfig
  BY Options DEF Typed
<1>5. PICK m \in DOMAIN f.lines : f.lines[m].whole /\ f.lines[m].id = id
  BY DEF Ids
<1>6. Bad <=> ~Full /\ (Readable(f.lines) # f.lines \/ ~f.intact)
  BY DEF Bad
<1> HIDE DEF f, s
<1>7. DOMAIN f.lines = 1..Len(f.lines) /\ Len(f.lines) \in Nat
  BY <1>2
<1>8. \A i \in DOMAIN f.lines : f.lines[i].whole =>
        /\ f.lines[i] \in InFiles /\ f.lines[i].id \in Records /\ f.lines[i].seq \in Nat
        /\ f.lines[i].line = LineOf(c, f.lines[i].id, f.lines[i].seq)
        /\ f.lines[i].id \in 1..written
  <2> TAKE i \in DOMAIN f.lines
  <2>1. f.lines[i] \in InFiles /\ f.lines[i].id \in 1..written
    BY <1>2 DEF Entries, Sound
  <2> QED
    BY <2>1 DEF Content, GenuineFiles, Genuine
<1>9. CASE m <= n
  <2> DEFINE e == f.lines[m]
  <2>1. /\ e \in InFiles /\ e.whole /\ e.id = id /\ e.id \in Records /\ e.seq \in Nat
        /\ e.line = LineOf(c, e.id, e.seq)
    BY <1>5, <1>8
  <2>2. Matches(Expected(e), reader.query)
    BY <2>1 DEF Content, Wanted
  <2>3. Expected(e) = Rebuilt(c, e.id, e.seq)
    BY ExpectedIs
  <2> HIDE DEF e, c
  <2>4. Matches(Parsed(LineOf(c, e.id, e.seq)), reader.query)
    BY <1>4, <2>1, <2>2, <2>3, MatchesStays
  <2>5. m \in 1..n
    BY <1>7, <1>9
  <2>6. \E i \in DOMAIN Found : Found[i].of = e
    BY <1>3, <2>1, <2>4, <2>5 DEF e
  <2> QED
    BY <2>1, <2>6
<1>10. CASE ~(m <= n)
  <2> DEFINE x == f.lines[n + 1]
  <2>1. n + 1 \in DOMAIN f.lines /\ n + 1 <= m /\ n < Len(f.lines)
    BY <1>7, <1>10
  <2>2. x.whole /\ ~Parses(x.line)
    BY <1>2, <1>3, <1>5, <2>1
  <2>3. /\ x.id \in Records /\ x.seq \in Nat /\ x.id \in 1..written
        /\ x.line = LineOf(c, x.id, x.seq)
    BY <1>8, <2>1, <2>2
  <2> HIDE DEF x
  <2>4. ~CodecRestores(x.id)
    <3> SUFFICES ASSUME CodecRestores(x.id) PROVE Parses(x.line)
      BY <2>2
    <3>1. /\ c.crc = "header" => c.fields # {}
          /\ ~Structured(c) => Unlike(x.id)
      BY Zenon DEF CodecRestores, Unlike
    <3> HIDE DEF c
    <3>2. Parses(LineOf(c, x.id, x.seq))
      BY <1>4, <2>3, <3>1, Restored
    <3> QED
      BY <2>3, <3>2
  <2>5. ~Restorable
    BY <2>3, <2>4 DEF Restorable
  <2>6. Readable(f.lines) # f.lines
    <3>1. n # Len(f.lines)
      BY <1>7, <2>1
    <3>2. PICK r : r = Readable(f.lines)
      OBVIOUS
    <3>3. Len(r) # Len(f.lines)
      BY <1>3, <3>1, <3>2
    <3>4. r # f.lines
      BY <3>3
    <3> QED
      BY <3>2, <3>4
  <2>7. Bad
    BY <1>6, <2>6
  <2> QED
    BY <2>5, <2>7
<1> QED
  BY <1>9, <1>10

LEMMA ContentReads ==
  ASSUME Envelopes, Typed, Files, ReaderInv, Content, UNCHANGED archiveVars, ReadSegment
  PROVE  Content'
<1> DEFINE limit == reader.query.limit
           k == IF Full THEN limit ELSE Len(Found)
           r == SubSeq(Found, 1, k)
           s == IF Full THEN <<>> ELSE Tail(reader.segments)
           a == reader.records
<1>1. /\ reader.at = "read" /\ reader.segments # <<>> /\ owed' = owed
      /\ reader' = [reader EXCEPT !.records = r, !.segments = s]
      /\ corrupted' \in {corrupted, corrupted + 1}
      /\ Bad => corrupted' = corrupted + 1
  BY DEF ReadSegment, Reading
<1>2. /\ Found \in Seq(AnyHit) /\ Len(a) <= Len(Found)
      /\ \A i \in DOMAIN a : i \in DOMAIN Found /\ Found[i] = a[i]
      /\ \A i \in DOMAIN Found :
           /\ Genuine(Found[i].of) /\ Parses(Found[i].of.line)
           /\ Found[i].record = Parsed(Found[i].of.line)
  BY <1>1, FoundIs
<1>3. limit \in Nat /\ corrupted \in Nat /\ Len(a) \in Nat /\ Len(Found) \in Nat
  BY <1>2, Limits DEF ReaderInv, ReaderTyped
<1>4. k \in 0..Len(Found)
  BY <1>3 DEF Full
<1>5. Full => k = limit
  OBVIOUS
<1>6. ~Full => k = Len(Found) /\ s = Tail(reader.segments)
  OBVIOUS
<1>7. /\ reader'.at = "read" /\ reader'.segments = s /\ reader'.records = r
      /\ reader'.query = reader.query
  BY <1>1 DEF ReaderInv, ReaderTyped
<1> HIDE DEF k, s
<1>8. /\ r \in Seq(AnyHit) /\ Len(r) = k /\ DOMAIN r = 1..k
      /\ \A i \in 1..k : r[i] = Found[i] /\ i \in DOMAIN Found
  BY <1>2, <1>4, HitsPrefix
<1> HIDE DEF r
<1>9. \A i \in DOMAIN r : /\ Genuine(r[i].of) /\ Parses(r[i].of.line)
                          /\ r[i].record = Parsed(r[i].of.line)
  BY <1>2, <1>8
<1>10. ASSUME Len(r) < limit, NEW id \in owed
       PROVE  \/ \E i \in DOMAIN r : r[i].of.id = id /\ r[i].of.whole
              \/ corrupted' > 0 /\ ~Restorable
              \/ \E j \in DOMAIN s : id \in Ids(FileOf(s[j]))
  <2>1. ~Full
    BY <1>3, <1>5, <1>8, <1>10
  <2>2. DOMAIN r = DOMAIN Found /\ \A i \in DOMAIN Found : r[i] = Found[i]
    BY <1>2, <1>6, <1>8, <2>1
  <2>3. Len(a) < limit
    BY <1>2, <1>3, <1>6, <1>8, <1>10, <2>1
  <2>4. Delivered(id) \/ Counted \/ Ahead(id)
    BY <1>1, <2>3 DEF Content, Awaited
  <2>5. CASE Delivered(id)
    <3>1. \E i \in DOMAIN a : a[i].of.id = id /\ a[i].of.whole
      BY <2>5 DEF Delivered
    <3> HIDE DEF a
    <3> QED
      BY <1>2, <2>2, <3>1
  <2>6. CASE Counted
    BY <1>1, <1>3, <2>6 DEF Counted
  <2>7. CASE Ahead(id)
    <3>1. PICK j \in DOMAIN reader.segments : id \in Ids(FileOf(reader.segments[j]))
      BY <2>7 DEF Ahead
    <3>2. reader.segments \in Seq(AnySegment)
      BY DEF ReaderInv, ReaderTyped
    <3>3. CASE j = 1
      <4>1. Head(reader.segments) = reader.segments[j]
        BY <3>2, <3>3
      <4>2. \/ \E i \in DOMAIN Found : Found[i].of.id = id /\ Found[i].of.whole
            \/ Bad /\ ~Restorable
        BY <1>1, <2>1, <3>1, <4>1, OwedInSegment
      <4>3. Bad => corrupted' > 0
        BY <1>1, <1>3
      <4> QED
        BY <2>2, <4>2, <4>3
    <3>4. CASE j # 1
      <4> DEFINE old == reader.segments
      <4>1. j - 1 \in DOMAIN Tail(old) /\ Tail(old)[j - 1] = old[j]
        <5>1. old # <<>> /\ old \in Seq(AnySegment) /\ j \in DOMAIN old
          BY <1>1, <3>2
        <5> HIDE DEF old
        <5> QED
          BY <3>4, <5>1
      <4>2. s = Tail(old)
        BY <1>6, <2>1
      <4>3. PICK x : x = old[j]
        OBVIOUS
      <4>4. s[j - 1] = x /\ j - 1 \in DOMAIN s /\ id \in Ids(FileOf(x))
        BY <3>1, <4>1, <4>2, <4>3
      <4> QED
        BY <4>4
    <3> QED
      BY <3>3, <3>4
  <2> QED
    BY <2>4, <2>5, <2>6, <2>7
<1>11. \A e \in InFiles : e.whole /\ e.id \in owed => Matches(Expected(e), reader.query)
  BY DEF Content, Wanted
<1> QED
  BY <1>1, <1>7, <1>9, <1>10, <1>11, ContentFrom

LEMMA ContentReader ==
  ASSUME Envelopes, IndInv, Content, UNCHANGED archiveVars,
         (\E q \in Queries : Ask(q)) \/ ListArchive \/ ListActive \/ ReadSegment \/ Finish \/ Reply
  PROVE  Content'
<1>1. Typed /\ Files /\ Ordered /\ ReaderInv
  BY IndParts DEF DiskInv
<1> QED
  BY <1>1, ContentAsks, ContentLists, ContentListsActive, ContentReads, ContentFinishes, ContentReplies

LEMMA ContentStep ==
  ASSUME Envelopes, IndInv, Content, [Next]_vars
  PROVE  Content'
<1>1. /\ Typed /\ Files /\ Ordered /\ Twins /\ ReaderInv /\ ReaderTyped /\ TwinLines
  BY IndParts DEF DiskInv, ReaderInv, Content
<1>2. CASE EngineStep /\ owed' = owed \ Moved /\ UNCHANGED <<reader, corrupted, broken>>
  <2>1. config' = config /\ TwinLines' /\ \A e \in InFiles' : e \in InFiles \/ Added(e)
    BY <1>1, <1>2, EntriesEngine
  <2>2. written' \in Nat /\ written <= written'
    BY <1>1, <1>2, WrittenGrows
  <2> QED
    BY <1>1, <1>2, <2>1, <2>2, ContentMoves
<1>3. CASE /\ (\E q \in Queries : Ask(q)) \/ ListArchive \/ ListActive \/ ReadSegment \/ Finish \/ Reply
           /\ UNCHANGED archiveVars
  BY <1>3, ContentReader
<1>4. CASE \E n \in Name : \E keep \in 0..(Len(gz[n].lines) - 1) : Damage(n, keep)
  BY <1>1, <1>4, ContentDamage
<1>5. CASE UNCHANGED vars
  <2>1. UNCHANGED archiveVars /\ UNCHANGED <<reader, corrupted, owed>>
    BY <1>5 DEF vars, queryVars
  <2>2. GenuineHits /\ Wanted /\ Awaited
    BY DEF Content
  <2>3. /\ \A i \in DOMAIN reader.records :
             /\ Genuine(reader.records[i].of) /\ Parses(reader.records[i].of.line)
             /\ reader.records[i].record = Parsed(reader.records[i].of.line)
        /\ \A e \in InFiles : e.whole /\ e.id \in owed => Matches(Expected(e), reader.query)
    BY <2>2 DEF GenuineHits, Wanted
  <2>4. /\ reader.at = "archive" => \A id \in owed :
           \/ id \in Ids(active)
           \/ reader.query.include_archive /\ \E n \in Name : id \in Ids(plain[n]) \cup Ids(gz[n])
        /\ reader.at = "active" => \A id \in owed :
             \/ id \in Ids(active)
             \/ \E j \in DOMAIN reader.segments : id \in Ids(FileOf(reader.segments[j]))
        /\ reader.at \in {"read", "done"} /\ Len(reader.records) < reader.query.limit =>
           \A id \in owed :
             \/ \E i \in DOMAIN reader.records : reader.records[i].of.id = id /\ reader.records[i].of.whole
             \/ corrupted > 0 /\ ~Restorable
             \/ \E j \in DOMAIN reader.segments : id \in Ids(FileOf(reader.segments[j]))
    BY <2>2 DEF Awaited, Delivered, Counted, Ahead
  <2> QED
    BY <2>1, <2>3, <2>4, ContentFrom
<1> QED
  BY <1>2, <1>3, <1>4, <1>5 DEF Next

(* The lines of the files, and what a query makes of them, are always as    *)
(* Content says.                                                            *)
THEOREM LinesAndReplies == Envelopes => (Spec => [](IndInv /\ Content))
<1> SUFFICES ASSUME Envelopes PROVE Spec => [](IndInv /\ Content)
  OBVIOUS
<1>1. Init => IndInv /\ Content
  BY InitInv, ContentInit
<1>2. (IndInv /\ Content) /\ [Next]_vars => (IndInv /\ Content)'
  BY StepKeeps, ContentStep
<1> QED
  BY <1>1, <1>2, PTL DEF Spec

(* A record delivered with a sequence number is what was written, as far as *)
(* the checksum reaches, also when the line was being written as the query  *)
(* read it or a crash cut it short; provided every payload that begins like *)
(* an envelope is one, of a message other than the name source_id.          *)
THEOREM AuthenticHolds == Envelopes => (Spec => []Authentic)
<1> SUFFICES ASSUME Envelopes PROVE Spec => []Authentic
  OBVIOUS
<1>1. IndInv /\ Content => Authentic
  <2> SUFFICES ASSUME IndInv, Content PROVE Authentic
    OBVIOUS
  <2> DEFINE c == config.codec
             hit(i) == reader.records[i]
             covered(x) == CASE c.crc \in {"full", "payload_hash"} -> DOMAIN x
                             [] c.crc = "header" -> {"ts", "shard", "seq", "level"}
                             [] OTHER -> {}
  <2>1. c \in CodecConfig
    BY IndParts, Options DEF DiskInv, Typed
  <2>2. ASSUME NEW i \in DOMAIN reader.records, hit(i).record.seq # NaN,
               NEW k \in covered(Expected(hit(i).of))
        PROVE  hit(i).record[k] = Expected(hit(i).of)[k]
    <3>1. PICK e, r : e = hit(i).of /\ r = hit(i).record
      OBVIOUS
    <3>2. /\ e.id \in Records /\ e.seq \in Nat
          /\ e.line = LineOf(c, e.id, e.seq) \/ e.line \in Fragments(LineOf(c, e.id, e.seq))
          /\ Parses(e.line) /\ r = Parsed(e.line) /\ r.seq # NaN
      BY <2>2, <3>1 DEF Content, GenuineHits, Genuine
    <3>3. Expected(e) = Rebuilt(c, e.id, e.seq)
      BY ExpectedIs
    <3>4. PICK x : x = Rebuilt(c, e.id, e.seq)
      OBVIOUS
    <3>5. k \in covered(x)
      BY <3>1, <3>3, <3>4
    <3>6. c.crc # "none"
      BY <3>5
    <3> HIDE DEF hit
    <3>7. /\ c.crc \in {"full", "payload_hash"} => r = x
          /\ c.crc = "header" => SameNumbers(r, x)
      <4> HIDE DEF c
      <4> QED
        BY <2>1, <3>2, <3>4, <3>6, NumberedIs
    <3>8. r[k] = x[k]
      <4>1. CASE c.crc \in {"full", "payload_hash"}
        BY <3>7, <4>1
      <4>2. CASE c.crc = "header"
        <5>1. k \in {"ts", "shard", "seq", "level"}
          BY <3>5, <4>2
        <5> QED
          BY <3>7, <4>2, <5>1 DEF SameNumbers
      <4>3. CASE c.crc \notin {"full", "payload_hash", "header"}
        BY <3>5, <4>3
      <4> QED
        BY <4>1, <4>2, <4>3
    <3> QED
      BY <3>1, <3>3, <3>4, <3>8
  <2> QED
    BY <2>2 DEF Authentic
<1> QED
  BY <1>1, LinesAndReplies, PTL

(* A finished query below its limit has delivered, as it was written, every *)
(* matching record that no file move took from where it was, or has counted *)
(* a corrupted segment, and that only where the codec can not bring some    *)
(* record back; with the same proviso.                                      *)
THEOREM CompleteHolds == Envelopes => (Spec => []Complete)
<1> SUFFICES ASSUME Envelopes PROVE Spec => []Complete
  OBVIOUS
<1>1. IndInv /\ Content => Complete
  <2> SUFFICES ASSUME IndInv, Content, reader.at = "done", Len(reader.records) < reader.query.limit
               PROVE  /\ owed \subseteq Returned \/ corrupted > 0
                      /\ (\A id \in 1..written : CodecRestores(id)) =>
                           \A id \in owed : \E i \in DOMAIN reader.records :
                             /\ reader.records[i].of.id = id
                             /\ reader.records[i].record = Expected(reader.records[i].of)
    BY DEF Complete
  <2> DEFINE c == config.codec
  <2>1. c \in CodecConfig /\ owed \subseteq 1..written /\ written \in Nat
    BY IndParts, Options DEF DiskInv, ReaderInv, ReaderTyped, Typed
  <2>2. DOMAIN reader.segments = {}
    <3>1. reader.segments = <<>>
      BY DEF IndInv, ReaderSound
    <3>2. PICK s : s = reader.segments
      OBVIOUS
    <3> QED
      BY <3>1, <3>2
  <2>3. \A id \in owed : Delivered(id) \/ Counted
    BY <2>2 DEF Content, Awaited, Ahead
  <2>4. owed \subseteq Returned \/ corrupted > 0
    BY <2>3 DEF Delivered, Counted, Returned
  <2>5. ASSUME \A id \in 1..written : CodecRestores(id), NEW id \in owed
        PROVE  \E i \in DOMAIN reader.records :
                 /\ reader.records[i].of.id = id
                 /\ reader.records[i].record = Expected(reader.records[i].of)
    <3>1. PICK i \in DOMAIN reader.records : reader.records[i].of.id = id /\ reader.records[i].of.whole
      BY <2>3, <2>5 DEF Delivered, Counted, Restorable
    <3>2. PICK e, r : e = reader.records[i].of /\ r = reader.records[i].record
      OBVIOUS
    <3>3. /\ e.id = id /\ e.id \in Records /\ e.seq \in Nat
          /\ e.line = LineOf(c, e.id, e.seq) /\ r = Parsed(e.line)
      BY <3>1, <3>2 DEF Content, GenuineHits, Genuine
    <3>4. Expected(e) = Rebuilt(c, e.id, e.seq)
      BY ExpectedIs
    <3>5. CodecRestores(e.id)
      BY <2>1, <2>5, <3>3
    <3>6. /\ c.crc = "header" => c.fields # {}
          /\ ~Structured(c) => Unlike(e.id)
      BY <3>5, Zenon DEF CodecRestores, Unlike
    <3>7. r = Rebuilt(c, e.id, e.seq)
      <4> HIDE DEF c
      <4> QED
        BY <2>1, <3>3, <3>6, Restored
    <3> QED
      BY <3>1, <3>2, <3>4, <3>7
  <2> QED
    BY <2>4, <2>5
<1> QED
  BY <1>1, LinesAndReplies, PTL
=============================================================================
