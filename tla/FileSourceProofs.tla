-------------------------- MODULE FileSourceProofs --------------------------
(****************************************************************************)
(* Proofs about a source that follows log files: for any files, lines,      *)
(* shards, rotations, faults and restarts, the stored offset covers only    *)
(* what the engine holds or what an error, a crash or a truncation took;    *)
(* a record holds whole lines of one file; and nothing is collected twice   *)
(* unless a failed append, a failed store, a crash or a swapped inode       *)
(* excuses it.                                                              *)
(* The inductive invariant has three layers: Basics types the state and     *)
(* bounds the offsets, Covers and Turned follow the bytes of the file from  *)
(* the read to the store, and OnceInv adds where each character lies.       *)
(****************************************************************************)
EXTENDS FileSource, SequenceTheorems, FiniteSetTheorems, WellFoundedInduction, TLAPS

(* A set of naturals has a least element, as < is well founded on them.     *)
LEMMA Least ==
  ASSUME NEW T, T \subseteq Nat, T # {}
  PROVE  \E x \in T : \A y \in T : x <= y
<1> DEFINE R == OpToRel(<, Nat)
<1>1. \A x, y \in Nat : <<x, y>> \in R <=> x < y
  BY DEF OpToRel
<1>2. IsWellFoundedOn(R, Nat)
  BY NatLessThanWellFounded
<1> HIDE DEF R
<1>3. PICK x \in T : \A y \in T : ~ (<<y, x>> \in R)
  BY <1>2, WFMin
<1>4. \A y \in T : x <= y
  <2> TAKE y \in T
  <2>1. x \in Nat /\ y \in Nat
    OBVIOUS
  <2>2. ~ (y < x)
    BY <1>1, <1>3, <2>1
  <2> QED BY <2>1, <2>2
<1> QED BY <1>4
(* A set of positions of a sequence is finite.                              *)
LEMMA PartFinite ==
  ASSUME NEW m \in Nat, NEW S \in SUBSET (1..m)
  PROVE  IsFiniteSet(S) /\ Cardinality(S) \in Nat
<1>1. 1 \in Int /\ m \in Int
  OBVIOUS
<1>2. IsFiniteSet(1..m)
  BY ONLY <1>1, FS_Interval
<1>3. IsFiniteSet(S)
  BY ONLY <1>2, S \in SUBSET (1..m), FS_Subset
<1> QED BY <1>3, FS_CardinalityType
(* The n-th smallest position of a set is one of it, and has n positions up *)
(* to it.                                                                   *)
LEMMA NthIsMember ==
  ASSUME NEW m \in Nat, NEW S \in SUBSET (1..m), NEW n \in 1..Cardinality(S)
  PROVE  Nth(S, n) \in S /\ Cardinality({j \in S : j <= Nth(S, n)}) = n
<1> DEFINE upTo(i) == {j \in S : j <= i}
           T == {i \in Nat : Cardinality(upTo(i)) >= n}
<1>1. IsFiniteSet(S)
  BY PartFinite
<1> \A j \in S : j \in Nat /\ 1 <= j /\ j <= m
  OBVIOUS
<1>2. \A i \in Nat : IsFiniteSet(upTo(i)) /\ Cardinality(upTo(i)) \in Nat
  BY <1>1, FS_Subset, FS_CardinalityType
<1>3. upTo(m) = S
  OBVIOUS
<1>4. m \in T
  <2>1. Cardinality(S) \in Nat
    BY <1>1, FS_CardinalityType
  <2> QED BY <1>3, <2>1
<1>5. PICK x \in T : \A y \in T : x <= y
  BY <1>4, Least
<1>6. x # 0
  <2>1. upTo(0) = {}
    <3> \A j \in S : ~ (j <= 0)
      OBVIOUS
    <3> QED OBVIOUS
  <2>2. Cardinality(upTo(0)) = 0
    BY <2>1, FS_EmptySet
  <2>3. ~ (0 >= n)
    BY <1>1, FS_CardinalityType
  <2>4. 0 \notin T
    BY <2>2, <2>3
  <2> QED BY <2>4
<1>7. x \in Nat /\ x - 1 \in Nat /\ ~ (x <= x - 1)
  BY <1>6
<1>8. x - 1 \notin T
  BY <1>5, <1>7
<1>9. ~ (Cardinality(upTo(x - 1)) >= n) /\ Cardinality(upTo(x)) >= n
  BY <1>7, <1>8
<1>10. n \in Nat
  BY <1>1, FS_CardinalityType
<1>11. x \in S /\ Cardinality(upTo(x)) = n
  <2>1. CASE x \in S
    <3> \A j \in S : j <= x <=> j <= x - 1 \/ j = x
      BY <1>7
    <3>1. upTo(x) = upTo(x - 1) \cup {x} /\ x \notin upTo(x - 1)
      BY <1>7, <2>1
    <3>2. Cardinality(upTo(x)) = Cardinality(upTo(x - 1)) + 1
      BY <1>2, <1>7, <3>1, FS_AddElement
    <3>3. Cardinality(upTo(x - 1)) \in Nat
      BY <1>2, <1>7
    <3> QED BY <1>9, <1>10, <2>1, <3>2, <3>3
  <2>2. CASE x \notin S
    <3> \A j \in S : j <= x <=> j <= x - 1
      BY <1>7, <2>2
    <3>1. upTo(x) = upTo(x - 1)
      OBVIOUS
    <3> QED BY <1>9, <3>1
  <2> QED BY <2>1, <2>2
<1>12. \E i \in S : Cardinality({j \in S : j <= i}) = n
  BY <1>11
<1> QED BY <1>12 DEF Nth
(* Induction over the naturals, for a set: the least number outside would   *)
(* have a predecessor inside.                                               *)
LEMMA Inductive ==
  ASSUME NEW S, 0 \in S, \A n \in Nat : n \in S => n + 1 \in S
  PROVE  Nat \subseteq S
<1> SUFFICES ASSUME Nat \ S # {} PROVE FALSE
  OBVIOUS
<1>1. PICK x \in Nat \ S : \A y \in Nat \ S : x <= y
  BY Least
<1>2. x # 0 /\ x - 1 \in Nat /\ ~ (x <= x - 1)
  OBVIOUS
<1>3. x - 1 \in S
  BY <1>1, <1>2
<1> QED BY <1>2, <1>3
(* The positions of S up to i.                                              *)
UpTo(S, i) == {j \in S : j <= i}

(* There are more of them the larger i is.                                  *)
LEMMA UpToProperties ==
  ASSUME NEW m \in Nat, NEW S \in SUBSET (1..m), NEW i \in S, NEW k \in S
  PROVE  /\ Cardinality(UpTo(S, i)) \in 1..Cardinality(S)
         /\ i <= k => Cardinality(UpTo(S, i)) <= Cardinality(UpTo(S, k))
         /\ i < k => Cardinality(UpTo(S, i)) < Cardinality(UpTo(S, k))
<1>1. /\ \A j \in S : j \in Nat
      /\ i \in Nat /\ k \in Nat /\ Cardinality(S) \in Nat /\ IsFiniteSet(S)
  BY PartFinite
<1>2. /\ UpTo(S, i) \in SUBSET S /\ UpTo(S, k) \in SUBSET S
      /\ i \in UpTo(S, i) /\ k \in UpTo(S, k)
  BY <1>1 DEF UpTo
<1>3. ASSUME i <= k PROVE UpTo(S, i) \in SUBSET UpTo(S, k)
  <2>1. \A j \in S : j <= i => j <= k
    BY <1>1, <1>3
  <2> QED BY <2>1 DEF UpTo
<1>4. i < k => k \notin UpTo(S, i)
  BY <1>1 DEF UpTo
<1>5. /\ IsFiniteSet(UpTo(S, i)) /\ Cardinality(UpTo(S, i)) <= Cardinality(S)
      /\ IsFiniteSet(UpTo(S, k))
  BY <1>1, <1>2, FS_Subset
<1>6. Cardinality(UpTo(S, i)) \in Nat /\ Cardinality(UpTo(S, k)) \in Nat
  BY <1>5, FS_CardinalityType
<1>7. Cardinality(UpTo(S, i)) # 0
  BY <1>2, <1>5, FS_EmptySet
<1>8. i <= k => Cardinality(UpTo(S, i)) <= Cardinality(UpTo(S, k))
  BY <1>3, <1>5, FS_Subset
<1>9. ASSUME i < k PROVE Cardinality(UpTo(S, i)) < Cardinality(UpTo(S, k))
  <2>1. i <= k
    BY <1>1, <1>9
  <2>2. UpTo(S, i) \in SUBSET UpTo(S, k) /\ UpTo(S, i) # UpTo(S, k)
    BY <1>2, <1>3, <1>4, <1>9, <2>1
  <2>3. Cardinality(UpTo(S, i)) <= Cardinality(UpTo(S, k))
        /\ Cardinality(UpTo(S, i)) # Cardinality(UpTo(S, k))
    BY <1>5, <2>2, FS_Subset
  <2> QED BY <1>6, <2>3
<1> QED BY <1>1, <1>5, <1>6, <1>7, <1>8, <1>9
(* The n-th smallest positions grow with n,                                 *)
LEMMA NthOrder ==
  ASSUME NEW m \in Nat, NEW S \in SUBSET (1..m), NEW k \in 1..Cardinality(S), NEW l
           \in 1..Cardinality(S), k < l
  PROVE  Nth(S, k) < Nth(S, l)
<1>1. /\ Nth(S, k) \in S /\ Cardinality(UpTo(S, Nth(S, k))) = k
      /\ Nth(S, l) \in S /\ Cardinality(UpTo(S, Nth(S, l))) = l
  BY NthIsMember DEF UpTo
<1>2. Nth(S, l) <= Nth(S, k) => l <= k
  BY <1>1, UpToProperties
<1>0. \A j \in S : j \in Int
  OBVIOUS
<1>3. Nth(S, k) \in Int /\ Nth(S, l) \in Int
  BY <1>0, <1>1
<1>4. k \in Int /\ l \in Int
  BY PartFinite
<1> QED BY <1>2, <1>3, <1>4
(* ... and every position is one of them.                                   *)
LEMMA NthOnto ==
  ASSUME NEW m \in Nat, NEW S \in SUBSET (1..m), NEW i \in S
  PROVE  \E k \in 1..Cardinality(S) : Nth(S, k) = i
<1> DEFINE k == Cardinality(UpTo(S, i))
<1>1. k \in 1..Cardinality(S)
  BY UpToProperties
<1>2. Nth(S, k) \in S /\ Cardinality(UpTo(S, Nth(S, k))) = k
  BY <1>1, NthIsMember DEF UpTo
<1>0. (\A j \in S : j \in Int) /\ Cardinality(S) \in Nat
  BY PartFinite
<1>3. k \in Int /\ i \in Int /\ Nth(S, k) \in Int
  <2>1. i \in Int /\ Nth(S, k) \in Int
    BY <1>0, <1>2
  <2>2. \A c \in Nat : \A x \in 1..c : x \in Int
    OBVIOUS
  <2> QED BY <1>0, <1>1, <2>1, <2>2
<1>4. ~ (i < Nth(S, k))
  <2>1. i < Nth(S, k) => k < Cardinality(UpTo(S, Nth(S, k)))
    BY <1>2, UpToProperties
  <2> QED BY <1>2, <1>3, <2>1
<1>5. ~ (Nth(S, k) < i)
  <2>1. Nth(S, k) < i => Cardinality(UpTo(S, Nth(S, k))) < k
    BY <1>2, UpToProperties
  <2> QED BY <1>2, <1>3, <2>1
<1> QED BY <1>1, <1>3, <1>4, <1>5

-----------------------------------------------------------------------------
(* What a recursion over 1..m computes: a function on 0..m whose every      *)
(* value comes from the one before by the step h.                           *)
FoldOf(F, m, T, b, h) ==
  F \in [0..m -> T] /\ F[0] = b /\ \A n \in 1..m : F[n] = h[<<F[n - 1], n>>]

(* Whatever the step, such a function exists: by induction on m.            *)
LEMMA Folded ==
  ASSUME NEW m \in Nat, NEW T, NEW b \in T, NEW h \in [T \X (1..m) -> T]
  PROVE  \E F : FoldOf(F, m, T, b, h)
<1> DEFINE Runs(F, k) == F[0] = b /\ \A n \in 1..k : F[n] = h[<<F[n - 1], n>>]
           S == {k \in Nat : k <= m => \E F \in [0..k -> T] : Runs(F, k)}
<1>1. 0 \in S
  <2>1. [n \in 0..0 |-> b] \in [0..0 -> T] /\ Runs([n \in 0..0 |-> b], 0)
    OBVIOUS
  <2> QED
    BY <2>1
<1>2. ASSUME NEW k \in Nat, k \in S PROVE k + 1 \in S
  <2> SUFFICES ASSUME k + 1 <= m PROVE \E F \in [0..(k + 1) -> T] : Runs(F, k + 1)
    OBVIOUS
  <2>1. PICK F \in [0..k -> T] : Runs(F, k)
    BY <1>2
  <2> DEFINE last == h[<<F[k], k + 1>>]
             G == [n \in 0..(k + 1) |-> IF n = k + 1 THEN last ELSE F[n]]
  <2>2. k + 1 \in 1..m /\ F[k] \in T
    OBVIOUS
  <2>3. last \in T
    BY <2>2
  <2>4. G \in [0..(k + 1) -> T]
    <3>1. \A n \in 0..(k + 1) : n # k + 1 => n \in 0..k
      OBVIOUS
    <3> QED
      BY <2>3, <3>1
  <2>5. /\ \A n \in 0..k : G[n] = F[n]
        /\ G[k + 1] = last
    OBVIOUS
  <2> HIDE DEF G
  <2>6. ASSUME NEW n \in 1..(k + 1) PROVE G[n] = h[<<G[n - 1], n>>]
    <3>1. CASE n = k + 1
      <4>1. n - 1 = k /\ G[k] = F[k]
        BY <3>1, <2>5
      <4> QED
        BY <2>5, <3>1, <4>1
    <3>2. CASE n # k + 1
      <4>1. n \in 1..k /\ n \in 0..k /\ n - 1 \in 0..k
        BY <3>2
      <4> QED
        BY <2>1, <2>5, <4>1
    <3> QED
      BY <3>1, <3>2
  <2>7. G[0] = b
    BY <2>1, <2>5
  <2> QED
    BY <2>4, <2>6, <2>7
<1> HIDE DEF S
<1>3. m \in S
  BY <1>1, <1>2, Inductive
<1> QED
  BY <1>3 DEF S, FoldOf

(* The sizes of the first lines.                                            *)
Sums(F, lines) ==
  /\ F \in [0..Len(lines) -> Nat] /\ F[0] = 0
  /\ \A n \in 1..Len(lines) : F[n] = F[n - 1] + Len(lines[n]) + 1

(* The same as the recursive function that FoldOf gives.                    *)
SumsFrom(F, lines) ==
  F = [n \in 0..Len(lines) |-> IF n = 0 THEN 0 ELSE F[n - 1] + Len(lines[n]) + 1]

(* Size is the last of them.                                                *)
LEMMA SizeSums ==
  ASSUME NEW C, NEW lines \in Seq(Seq(C))
  PROVE  \E F : Sums(F, lines) /\ Size(lines) = F[Len(lines)]
<1> DEFINE m == Len(lines)
           h == [p \in Nat \X (1..m) |-> p[1] + Len(lines[p[2]]) + 1]
           first == CHOOSE F : SumsFrom(F, lines)
<1>1. m \in Nat /\ \A n \in 1..m : Len(lines[n]) \in Nat
  <2>1. m \in Nat /\ \A n \in 1..m : lines[n] \in Seq(C)
    OBVIOUS
  <2> QED
    BY <2>1
<1> HIDE DEF m
<1>2. h \in [Nat \X (1..m) -> Nat]
  BY <1>1
<1>3. \A a \in Nat, n \in 1..m : h[<<a, n>>] = a + Len(lines[n]) + 1
  BY <1>1
<1> HIDE DEF h
<1>4. PICK F \in [0..m -> Nat] : F[0] = 0 /\ \A n \in 1..m : F[n] = h[<<F[n - 1], n>>]
  <2>1. m \in Nat /\ 0 \in Nat
    BY <1>1
  <2>2. \E F : FoldOf(F, m, Nat, 0, h)
    BY ONLY <2>1, <1>2, Folded
  <2> QED
    BY <2>2 DEF FoldOf
<1>5. SumsFrom(F, lines)
  <2>1. \A n \in 0..m : F[n] = IF n = 0 THEN 0 ELSE F[n - 1] + Len(lines[n]) + 1
    <3> TAKE n \in 0..m
    <3>1. CASE n # 0
      <4>1. n \in 1..m /\ F[n - 1] \in Nat
        BY <1>1, <3>1
      <4> QED
        BY <1>3, <1>4, <3>1, <4>1
    <3> QED
      BY <1>4, <3>1
  <2>2. F = [n \in 0..m |-> F[n]]
    OBVIOUS
  <2> QED
    BY <2>1, <2>2 DEF SumsFrom, m
<1>6. SumsFrom(first, lines)
  BY <1>5
<1>7. Size(lines) = first[m]
  BY DEF Size, SumsFrom, m
<1> HIDE DEF first
<1>8. \A n \in 0..m : first[n] = IF n = 0 THEN 0 ELSE first[n - 1] + Len(lines[n]) + 1
  BY <1>6 DEF SumsFrom, m
<1>9. \A n \in 0..m : first[n] \in Nat
  <2> DEFINE S == {n \in Nat : n <= m => first[n] \in Nat}
  <2>1. 0 \in S
    BY <1>1, <1>8
  <2>2. ASSUME NEW n \in Nat, n \in S PROVE n + 1 \in S
    <3> SUFFICES ASSUME n + 1 <= m PROVE first[n + 1] \in Nat
      OBVIOUS
    <3>1. n + 1 \in 0..m /\ n + 1 \in 1..m /\ n + 1 # 0 /\ (n + 1) - 1 = n /\ first[n] \in Nat
      BY <1>1, <2>2
    <3>2. Len(lines[n + 1]) \in Nat
      BY <1>1, <3>1
    <3>3. first[n + 1] = first[n] + Len(lines[n + 1]) + 1
      BY <1>8, <3>1
    <3> QED
      BY <3>1, <3>2, <3>3
  <2> HIDE DEF S
  <2>3. Nat \subseteq S
    BY <2>1, <2>2, Inductive
  <2> QED
    BY <1>1, <2>3 DEF S
<1>10. first \in [0..m -> Nat]
  <2>1. first = [n \in 0..m |-> first[n]]
    BY <1>6, <1>8 DEF SumsFrom, m
  <2> QED
    BY <1>9, <2>1
<1>11. Sums(first, lines)
  <2>1. 0 \in 0..m /\ \A n \in 1..m : n \in 0..m /\ n # 0
    BY <1>1
  <2> QED
    BY <1>8, <1>10, <2>1 DEF Sums, m
<1> QED
  BY <1>7, <1>11 DEF m

(* The sums are the only ones of their lines, and grow.                     *)
LEMMA SumsGrow ==
  ASSUME NEW C, NEW lines \in Seq(Seq(C)), NEW F, Sums(F, lines)
  PROVE  /\ \A k \in 0..Len(lines) : F[k] \in Nat
         /\ \A k, n \in 0..Len(lines) : k < n => F[k] < F[n]
<1> DEFINE m == Len(lines)
<1>1. m \in Nat /\ \A n \in 1..m : Len(lines[n]) \in Nat
  <2>1. m \in Nat /\ \A n \in 1..m : lines[n] \in Seq(C)
    OBVIOUS
  <2> QED
    BY <2>1
<1>2. F \in [0..m -> Nat] /\ \A n \in 1..m : F[n] = F[n - 1] + Len(lines[n]) + 1
  BY DEF Sums
<1> HIDE DEF m
<1>3. ASSUME NEW k \in 0..m PROVE \A n \in 0..m : k < n => F[k] < F[n]
  <2> DEFINE S == {n \in Nat : k < n /\ n <= m => F[k] < F[n]}
  <2>1. 0 \in S
    BY <1>1
  <2>2. ASSUME NEW n \in Nat, n \in S PROVE n + 1 \in S
    <3> SUFFICES ASSUME k < n + 1, n + 1 <= m PROVE F[k] < F[n + 1]
      OBVIOUS
    <3>1. n + 1 \in 1..m /\ (n + 1) - 1 = n /\ n \in 0..m /\ (k = n \/ k < n)
      BY <1>1
    <3>2. F[n + 1] = F[n] + Len(lines[n + 1]) + 1 /\ Len(lines[n + 1]) \in Nat
      BY <1>1, <1>2, <3>1
    <3>3. F[k] = F[n] \/ F[k] < F[n]
      BY <2>2, <3>1
    <3>4. F[k] \in Nat /\ F[n] \in Nat
      BY <1>2, <3>1
    <3> QED
      BY <3>2, <3>3, <3>4
  <2> HIDE DEF S
  <2>3. Nat \subseteq S
    BY <2>1, <2>2, Inductive
  <2> QED
    BY <1>1, <2>3 DEF S
<1> QED
  BY <1>2, <1>3 DEF m

(* Lines of a run of cells, one after the other from a place on, each with  *)
(* its newline.                                                             *)
LinesIn(lines, cells, first, F) ==
  /\ lines \in Seq(Seq(Cell)) /\ Sums(F, lines)
  /\ \A n \in 1..Len(lines) :
       /\ first + F[n] <= Len(cells) /\ cells[first + F[n]] = NL
       /\ \A j \in 1..Len(lines[n]) :
            lines[n][j] = cells[first + F[n - 1] + j] /\ lines[n][j] # NL

(* The smaller of two numbers.                                              *)
LEMMA MinOfTwo ==
  ASSUME NEW a \in Nat, NEW b \in Nat
  PROVE  Min({a, b}) \in Nat /\ Min({a, b}) <= a /\ Min({a, b}) <= b
         /\ (Min({a, b}) = a \/ Min({a, b}) = b)
<1>1. \E x \in {a, b} : \A y \in {a, b} : x <= y
  <2>1. CASE a <= b
    BY <2>1
  <2>2. CASE b <= a
    BY <2>2
  <2> QED
    BY <2>1, <2>2
<1> QED
  BY <1>1 DEF Min

(* What is read are the first complete lines.                               *)
LEMMA LinesRead ==
  ASSUME NEW cells \in Seq(Cell), NEW max \in Nat
  PROVE  \E F : LinesIn(Lines(cells, max), cells, 0, F)
                /\ Size(Lines(cells, max)) = F[Len(Lines(cells, max))]
<1> DEFINE E == Ends(cells)
           n == Min({max, Cardinality(E)})
           end == [k \in 0..n |-> LineEnd(cells, k)]
           lines == Lines(cells, max)
<1>1. /\ Len(cells) \in Nat /\ DOMAIN cells = 1..Len(cells)
      /\ \A i \in 1..Len(cells) : cells[i] \in Cell
  OBVIOUS
<1>2. E \in SUBSET (1..Len(cells)) /\ \A i \in 1..Len(cells) : i \in E <=> cells[i] = NL
  BY <1>1 DEF Ends
<1>3. IsFiniteSet(E) /\ Cardinality(E) \in Nat
  BY <1>1, <1>2, PartFinite
<1>4. n \in Nat /\ n <= Cardinality(E)
  BY <1>3, MinOfTwo
<1>5. lines = [k \in 1..n |-> SubSeq(cells, LineEnd(cells, k - 1) + 1, LineEnd(cells, k) - 1)]
  BY DEF Lines
<1> HIDE DEF E, n, lines
<1>6. ASSUME NEW k \in 1..n
      PROVE  /\ end[k] \in E /\ end[k] \in 1..Len(cells) /\ end[k - 1] \in Nat
             /\ end[k - 1] < end[k]
             /\ \A i \in E : ~(end[k - 1] < i /\ i < end[k])
  <2>1. k \in 1..Cardinality(E) /\ k \in 0..n /\ k # 0 /\ k - 1 \in 0..n
    BY <1>3, <1>4
  <2>2. end[k] = Nth(E, k) /\ (k = 1 => end[k - 1] = 0) /\ (k # 1 => end[k - 1] = Nth(E, k - 1))
    BY <2>1 DEF LineEnd, E
  <2>3. Nth(E, k) \in E /\ Nth(E, k) \in 1..Len(cells)
    BY <1>1, <1>2, <2>1, NthIsMember
  <2>4. ASSUME k # 1
        PROVE  Nth(E, k - 1) \in E /\ Nth(E, k - 1) \in Nat /\ Nth(E, k - 1) < Nth(E, k)
    <3>1. k - 1 \in 1..Cardinality(E) /\ k - 1 < k
      BY <1>3, <2>1, <2>4
    <3>2. Len(cells) \in Nat /\ E \in SUBSET (1..Len(cells))
      BY <1>1, <1>2
    <3>3. Nth(E, k - 1) \in E
      BY ONLY <3>1, <3>2, NthIsMember
    <3>4. Nth(E, k - 1) < Nth(E, k)
      BY ONLY <2>1, <3>1, <3>2, NthOrder
    <3>5. \A i \in E : i \in Nat
      BY <3>2
    <3> QED
      BY <3>3, <3>4, <3>5
  <2>5. ASSUME NEW i \in E, end[k - 1] < i, i < end[k] PROVE FALSE
    <3>1. PICK l \in 1..Cardinality(E) : Nth(E, l) = i
      BY <1>1, <1>2, NthOnto
    <3>2. l < k
      <4>1. CASE l = k
        <5>1. i \in Nat
          BY <1>2
        <5> QED
          BY <2>2, <2>5, <3>1, <4>1, <5>1
      <4>2. CASE k < l
        <5>1. Nth(E, k) < Nth(E, l)
          BY <1>1, <1>2, <2>1, <4>2, NthOrder
        <5>2. i \in Nat /\ Nth(E, k) \in Nat
          BY <1>2, <2>3
        <5> QED
          BY <2>2, <2>5, <3>1, <5>1, <5>2
      <4> QED
        BY <1>3, <2>1, <4>1, <4>2
    <3>3. k # 1 /\ (l = k - 1 \/ l < k - 1)
      BY <1>3, <2>1, <3>2
    <3>4. CASE l = k - 1
      <4>1. i \in Nat
        BY <1>2
      <4> QED
        BY <2>2, <2>5, <3>1, <3>3, <3>4, <4>1
    <3>5. CASE l < k - 1
      <4>1. k - 1 \in 1..Cardinality(E)
        BY <1>3, <2>1, <3>3
      <4>2. Nth(E, l) < Nth(E, k - 1)
        BY <1>1, <1>2, <3>5, <4>1, NthOrder
      <4>3. i \in Nat /\ Nth(E, k - 1) \in Nat
        BY <1>2, <2>4, <3>3
      <4> QED
        BY <2>2, <2>5, <3>1, <3>3, <4>2, <4>3
    <3> QED
      BY <3>3, <3>4, <3>5
  <2> QED
    BY <2>2, <2>3, <2>4, <2>5
<1>7. end[0] = 0
  BY <1>4 DEF LineEnd
<1>8. \A k \in 0..n : end[k] = LineEnd(cells, k)
  OBVIOUS
<1>9. /\ \A k \in 0..n : end[k] \in Nat
      /\ end \in [0..n -> Nat]
  <2>1. \A k \in 0..n : k = 0 \/ k \in 1..n
    BY <1>4
  <2>2. ASSUME NEW k \in 0..n PROVE end[k] \in Nat
    <3>1. CASE k = 0
      BY <1>7, <3>1
    <3>2. CASE k \in 1..n
      <4>1. end[k] \in 1..Len(cells)
        BY <1>6, <3>2
      <4> QED
        BY <1>1, <4>1
    <3> QED
      BY <2>1, <3>1, <3>2
  <2>3. end = [k \in 0..n |-> end[k]]
    OBVIOUS
  <2> HIDE DEF end
  <2> QED
    BY <2>2, <2>3
<1> HIDE DEF end
<1>10. ASSUME NEW k \in 1..n
       PROVE  /\ lines[k] \in Seq(Cell) /\ Len(lines[k]) = end[k] - end[k - 1] - 1
              /\ \A j \in 1..Len(lines[k]) :
                   lines[k][j] = cells[end[k - 1] + j] /\ lines[k][j] # NL
  <2> DEFINE a == end[k - 1]
             z == end[k]
  <2>1. k - 1 \in 0..n /\ k \in 0..n
    BY <1>4
  <2>2. lines[k] = SubSeq(cells, a + 1, z - 1)
    BY <1>5, <1>8, <2>1
  <2>3. a \in Nat /\ z \in Nat /\ a < z /\ z <= Len(cells) /\ \A i \in E : ~(a < i /\ i < z)
    BY <1>6
  <2> HIDE DEF a, z
  <2>4. \A i \in (a + 1)..(z - 1) : cells[i] \in Cell
    BY <1>1, <2>3
  <2>5. /\ SubSeq(cells, a + 1, z - 1) \in Seq(Cell)
        /\ Len(SubSeq(cells, a + 1, z - 1)) = z - a - 1
        /\ \A j \in 1..(z - a - 1) : SubSeq(cells, a + 1, z - 1)[j] = cells[a + j]
    <3>1. a + 1 \in Int /\ z - 1 \in Int
      BY <2>3
    <3>2. /\ SubSeq(cells, a + 1, z - 1) \in Seq(Cell)
          /\ Len(SubSeq(cells, a + 1, z - 1))
               = IF a + 1 <= z - 1 THEN (z - 1) - (a + 1) + 1 ELSE 0
          /\ \A j \in 1..((z - 1) - (a + 1) + 1) :
               SubSeq(cells, a + 1, z - 1)[j] = cells[(a + 1) + j - 1]
      BY ONLY <2>4, <3>1, SubSeqProperties
    <3>3. (z - 1) - (a + 1) + 1 = z - a - 1 /\ (~(a + 1 <= z - 1) => z - a - 1 = 0)
      BY <2>3
    <3>4. \A j \in 1..(z - a - 1) : (a + 1) + j - 1 = a + j
      BY <2>3
    <3> QED
      BY <3>2, <3>3, <3>4
  <2>6. ASSUME NEW j \in 1..(z - a - 1) PROVE cells[a + j] # NL
    <3>1. a + j \in 1..Len(cells) /\ a < a + j /\ a + j < z
      BY <1>1, <2>3
    <3>2. a + j \notin E
      BY <2>3, <3>1
    <3> QED
      BY <1>2, <3>1, <3>2
  <2>7. z - a - 1 = end[k] - end[k - 1] - 1
    BY DEF a, z
  <2> QED
    BY <2>2, <2>5, <2>6, <2>7 DEF a
<1>11. lines \in Seq(Seq(Cell)) /\ Len(lines) = n /\ DOMAIN lines = 1..n
  <2>1. DOMAIN lines = 1..n /\ lines = [k \in 1..n |-> lines[k]]
    BY <1>5
  <2>2. lines \in [1..n -> Seq(Cell)]
    BY <1>10, <2>1
  <2> QED
    BY <1>4, <2>2
<1>12. Sums(end, lines)
  <2>1. ASSUME NEW k \in 1..n PROVE end[k] = end[k - 1] + Len(lines[k]) + 1
    <3>1. k - 1 \in 0..n /\ k \in 0..n
      BY <1>4
    <3>2. end[k] \in Nat /\ end[k - 1] \in Nat
      BY <1>9, <3>1
    <3> QED
      BY <1>10, <3>2
  <2> QED
    BY <1>7, <1>9, <1>11, <2>1 DEF Sums
<1>13. LinesIn(lines, cells, 0, end)
  <2>1. ASSUME NEW k \in 1..n
        PROVE  /\ 0 + end[k] <= Len(cells) /\ cells[0 + end[k]] = NL
               /\ \A j \in 1..Len(lines[k]) :
                    lines[k][j] = cells[0 + end[k - 1] + j] /\ lines[k][j] # NL
    <3>1. end[k] \in 1..Len(cells) /\ cells[end[k]] = NL /\ end[k - 1] \in Nat
      BY <1>2, <1>6
    <3>2. 0 + end[k] = end[k] /\ 0 + end[k - 1] = end[k - 1] /\ end[k] <= Len(cells)
      BY <1>1, <3>1
    <3> QED
      BY <1>10, <3>1, <3>2
  <2> QED
    BY <1>11, <1>12, <2>1 DEF LinesIn
<1>14. Size(lines) = end[n]
  <2>1. PICK G : Sums(G, lines) /\ Size(lines) = G[Len(lines)]
    BY <1>11, SizeSums
  <2> DEFINE S == {k \in Nat : k <= n => G[k] = end[k]}
  <2>2. 0 \in S
    BY <1>4, <1>7, <2>1 DEF Sums
  <2>3. ASSUME NEW k \in Nat, k \in S PROVE k + 1 \in S
    <3> SUFFICES ASSUME k + 1 <= n PROVE G[k + 1] = end[k + 1]
      OBVIOUS
    <3>1. k + 1 \in 1..Len(lines) /\ (k + 1) - 1 = k /\ G[k] = end[k]
      BY <1>4, <1>11, <2>3
    <3> QED
      BY <1>12, <2>1, <3>1 DEF Sums
  <2> HIDE DEF S
  <2>4. n \in S
    BY <1>4, <2>2, <2>3, Inductive
  <2> QED
    BY <1>4, <1>11, <2>1, <2>4 DEF S
<1> QED
  BY <1>11, <1>13, <1>14 DEF lines

-----------------------------------------------------------------------------
(* The elements of a sequence as a set.                                     *)
LEMMA ToSetIs ==
  ASSUME NEW C, NEW q \in Seq(C)
  PROVE  /\ ToSet(q) \in SUBSET C
         /\ \A x : x \in ToSet(q) <=> \E k \in DOMAIN q : q[k] = x
<1>1. ToSet(q) = {q[i] : i \in DOMAIN q}
  BY DEF ToSet
<1>2. \A i \in DOMAIN q : q[i] \in C
  OBVIOUS
<1> QED
  BY <1>1, <1>2

(* The characters of a line.                                                *)
LEMMA CharsAre ==
  ASSUME NEW q \in Seq(Cell)
  PROVE  /\ Chars(q) \in SUBSET Cell
         /\ \A x : x \in Chars(q) <=> x # NL /\ \E k \in 1..Len(q) : q[k] = x
<1>1. DOMAIN q = 1..Len(q)
  OBVIOUS
<1>2. /\ ToSet(q) \in SUBSET Cell
      /\ \A x : x \in ToSet(q) <=> \E k \in DOMAIN q : q[k] = x
  BY ONLY q \in Seq(Cell), ToSetIs
<1> QED
  BY <1>1, <1>2 DEF Chars

(* Chosen has the elements at the chosen positions, in their order.         *)
LEMMA ChosenIs ==
  ASSUME NEW C, NEW q \in Seq(C), NEW set \in SUBSET (1..Len(q))
  PROVE  /\ Chosen(q, set) \in Seq(C) /\ Len(Chosen(q, set)) = Cardinality(set)
         /\ \A k \in 1..Len(Chosen(q, set)) : Nth(set, k) \in set
            /\ Chosen(q, set)[k] = q[Nth(set, k)]
         /\ \A i \in set : \E k \in 1..Len(Chosen(q, set)) : Nth(set, k) = i
<1> DEFINE n == Cardinality(set)
<1>1. Len(q) \in Nat /\ \A i \in 1..Len(q) : q[i] \in C
  OBVIOUS
<1>2. n \in Nat
  BY <1>1, PartFinite
<1>3. \A k \in 1..n : Nth(set, k) \in set
  BY <1>1, NthIsMember
<1>4. \A i \in set : \E k \in 1..n : Nth(set, k) = i
  BY <1>1, NthOnto
<1>5. Chosen(q, set) = [k \in 1..n |-> q[Nth(set, k)]]
  BY DEF Chosen
<1> HIDE DEF n
<1>6. \A k \in 1..n : Chosen(q, set)[k] = q[Nth(set, k)] /\ Chosen(q, set)[k] \in C
  BY <1>1, <1>3, <1>5
<1>7. Chosen(q, set) \in [1..n -> C]
  BY <1>5, <1>6
<1>8. Chosen(q, set) \in Seq(C) /\ Len(Chosen(q, set)) = n
  BY <1>2, <1>7
<1> QED
  BY <1>3, <1>4, <1>6, <1>8 DEF n

-----------------------------------------------------------------------------
(* The options of an agent.                                                 *)
OptionsOK ==
  options \in [multiline : BOOLEAN, max_lines : Nat, max_message : Nat, max_buffer : Nat]

(* The state of apply_multiline_records.                                    *)
Gathering == [records : Seq(Seq(Cell)), current : Seq(Cell), count : Nat]

(* Gather keeps it.                                                         *)
LEMMA GatherType ==
  ASSUME OptionsOK, NEW line \in Seq(Cell), NEW acc \in Gathering
  PROVE  Gather(line, acc) \in Gathering
<1> DEFINE cut == acc.current # <<>> /\
               (StartsRecord(line) \/ (options.max_lines > 0 /\ acc.count >= options.max_lines))
           cur == IF cut THEN <<>> ELSE acc.current
           records == IF cut THEN Append(acc.records, acc.current) ELSE acc.records
           current == IF cur = <<>> THEN line ELSE Append(cur, NL) \o line
           count == (IF cut THEN 0 ELSE acc.count) + 1
<1>1. acc.records \in Seq(Seq(Cell)) /\ acc.current \in Seq(Cell) /\ acc.count \in Nat
  BY DEF Gathering
<1>2. Gather(line, acc) = [records |-> records, current |-> current, count |-> count]
  BY DEF Gather
<1> HIDE DEF cut
<1>3. records \in Seq(Seq(Cell)) /\ count \in Nat /\ cur \in Seq(Cell)
  BY <1>1
<1> HIDE DEF cur
<1>4. current \in Seq(Cell)
  <2>1. NL \in Cell
    BY DEF Cell
  <2>2. Append(cur, NL) \in Seq(Cell)
    BY <1>3, <2>1
  <2>3. Append(cur, NL) \o line \in Seq(Cell)
    BY <2>2
  <2> QED
    BY <2>3
<1> HIDE DEF records, current, count
<1> QED
  BY <1>2, <1>3, <1>4 DEF Gathering

(* ApplyMultiline's recursive function, over the first lines.               *)
GatheredTo(f, lines) ==
  f = [n \in 0..Len(lines) |->
         IF n = 0 THEN [records |-> <<>>, current |-> <<>>, count |-> 0]
         ELSE Gather(lines[n], f[n - 1])]

(* What apply_multiline_records has gathered after each line.               *)
Gathers(f, lines) ==
  /\ f \in [0..Len(lines) -> Gathering]
  /\ f[0] = [records |-> <<>>, current |-> <<>>, count |-> 0]
  /\ \A n \in 1..Len(lines) : f[n] = Gather(lines[n], f[n - 1])

(* ApplyMultiline runs Gather over the lines.                               *)
LEMMA MultilineGathers ==
  ASSUME OptionsOK, options.multiline, NEW lines \in Seq(Seq(Cell))
  PROVE  \E f : /\ Gathers(f, lines)
                /\ ApplyMultiline(lines)
                     = IF f[Len(lines)].current = <<>> THEN f[Len(lines)].records
                       ELSE Append(f[Len(lines)].records, f[Len(lines)].current)
<1> DEFINE m == Len(lines)
           none == [records |-> <<>>, current |-> <<>>, count |-> 0]
           h == [p \in Gathering \X (1..m) |-> Gather(lines[p[2]], p[1])]
           first == CHOOSE f : GatheredTo(f, lines)
<1>1. m \in Nat /\ \A n \in 1..m : lines[n] \in Seq(Cell)
  OBVIOUS
<1>2. none \in Gathering
  <2>1. <<>> \in Seq(Seq(Cell)) /\ <<>> \in Seq(Cell) /\ 0 \in Nat
    OBVIOUS
  <2> QED
    BY <2>1 DEF Gathering
<1> HIDE DEF m
<1>3. h \in [Gathering \X (1..m) -> Gathering]
  <2>1. ASSUME NEW p \in Gathering \X (1..m) PROVE Gather(lines[p[2]], p[1]) \in Gathering
    <3>1. p[1] \in Gathering /\ p[2] \in 1..m /\ lines[p[2]] \in Seq(Cell)
      BY <1>1
    <3> QED
      BY <3>1, GatherType
  <2> QED
    BY <2>1
<1>4. \A a \in Gathering, n \in 1..m : h[<<a, n>>] = Gather(lines[n], a)
  OBVIOUS
<1> HIDE DEF h
<1>5. PICK F : FoldOf(F, m, Gathering, none, h)
  BY ONLY <1>1, <1>2, <1>3, Folded
<1>6. F \in [0..m -> Gathering] /\ F[0] = none /\ \A n \in 1..m : F[n] = h[<<F[n - 1], n>>]
  BY <1>5 DEF FoldOf
<1>7. GatheredTo(F, lines)
  <2>1. ASSUME NEW n \in 0..m PROVE F[n] = IF n = 0 THEN none ELSE Gather(lines[n], F[n - 1])
    <3>1. CASE n # 0
      <4>1. n \in 1..m /\ n - 1 \in 0..m
        BY <1>1, <3>1
      <4>2. F[n - 1] \in Gathering
        BY <1>6, <4>1
      <4> QED
        BY <1>4, <1>6, <3>1, <4>1, <4>2
    <3> QED
      BY <1>6, <3>1
  <2>2. F = [n \in 0..m |-> F[n]]
    BY <1>6
  <2> QED
    BY <2>1, <2>2 DEF GatheredTo, m
<1>8. GatheredTo(first, lines)
  BY <1>7
<1>9. ApplyMultiline(lines) = IF first[m].current = <<>> THEN first[m].records
                              ELSE Append(first[m].records, first[m].current)
  BY DEF ApplyMultiline, GatheredTo, m
<1> HIDE DEF first
<1>10. \A n \in 0..m : first[n] = IF n = 0 THEN none ELSE Gather(lines[n], first[n - 1])
  BY <1>8 DEF GatheredTo, m
<1>11. \A n \in 0..m : first[n] \in Gathering
  <2> DEFINE S == {n \in Nat : n <= m => first[n] \in Gathering}
  <2>1. 0 \in S
    BY <1>1, <1>2, <1>10
  <2>2. ASSUME NEW n \in Nat, n \in S PROVE n + 1 \in S
    <3> SUFFICES ASSUME n + 1 <= m PROVE first[n + 1] \in Gathering
      OBVIOUS
    <3>1. n + 1 \in 0..m /\ n + 1 \in 1..m /\ n + 1 # 0 /\ (n + 1) - 1 = n /\ first[n] \in Gathering
      BY <1>1, <2>2
    <3>2. first[n + 1] = Gather(lines[n + 1], first[n])
      BY <1>10, <3>1
    <3>3. lines[n + 1] \in Seq(Cell)
      BY <1>1, <3>1
    <3> QED
      BY <3>1, <3>2, <3>3, GatherType
  <2> HIDE DEF S
  <2>3. Nat \subseteq S
    BY <2>1, <2>2, Inductive
  <2> QED
    BY <1>1, <2>3 DEF S
<1>12. first \in [0..m -> Gathering]
  <2>1. first = [n \in 0..m |-> first[n]]
    BY <1>8, <1>10 DEF GatheredTo, m
  <2> QED
    BY <1>11, <2>1
<1>13. Gathers(first, lines)
  <2>1. 0 \in 0..m /\ \A n \in 1..m : n \in 0..m /\ n # 0
    BY <1>1
  <2> QED
    BY <1>10, <1>12, <2>1 DEF Gathers, m
<1> QED
  BY <1>9, <1>13 DEF m

-----------------------------------------------------------------------------
(* The multiline rule drops no empty line here.                             *)
NoneDropped(lines) == options.multiline => \A j \in 1..Len(lines) : lines[j] # <<>>

(* Lines a + 1 to b, one record: their characters and, when no empty line   *)
(* was dropped, their text in the file.                                     *)
IsRecord(r, a, b, lines, cells, first, F) ==
  /\ a < b
  /\ \A c : c \in Chars(r) <=> \E j \in (a + 1)..b : c \in Chars(lines[j])
  /\ NoneDropped(lines) =>
       Len(r) = F[b] - F[a] - 1 /\ \A i \in 1..Len(r) : r[i] = cells[first + F[a] + i]

(* Records of the first n lines, one after the other; B has the last line   *)
(* of each.                                                                 *)
Parted(records, B, n, lines, cells, first, F) ==
  /\ records \in Seq(Seq(Cell)) /\ B \in [0..Len(records) -> 0..n] /\ B[0] = 0
  /\ \A k \in 1..Len(records) : IsRecord(records[k], B[k - 1], B[k], lines, cells, first, F)

(* The sums and the lines as far as they are needed.                        *)
LEMMA LinesInFacts ==
  ASSUME NEW cells \in Seq(Cell), NEW first \in Nat, NEW lines, NEW F,
         LinesIn(lines, cells, first, F)
  PROVE  /\ Len(lines) \in Nat /\ F[0] = 0
         /\ \A n \in 0..Len(lines) : F[n] \in Nat
         /\ \A n \in 1..Len(lines) :
              /\ lines[n] \in Seq(Cell) /\ Len(lines[n]) \in Nat
              /\ F[n] = F[n - 1] + Len(lines[n]) + 1
              /\ first + F[n] <= Len(cells) /\ cells[first + F[n]] = NL
              /\ \A j \in 1..Len(lines[n]) :
                   lines[n][j] = cells[first + F[n - 1] + j] /\ lines[n][j] # NL
<1>1. lines \in Seq(Seq(Cell))
  BY DEF LinesIn
<1>2. Len(lines) \in Nat /\ \A n \in 1..Len(lines) : lines[n] \in Seq(Cell) /\ Len(lines[n]) \in Nat
  <2>1. Len(lines) \in Nat /\ \A n \in 1..Len(lines) : lines[n] \in Seq(Cell)
    BY <1>1
  <2> QED
    BY <2>1
<1> QED
  BY <1>2 DEF LinesIn, Sums

(* One line is a record; an empty one has no character.                     *)
LEMMA LineIsRecord ==
  ASSUME NEW cells \in Seq(Cell), NEW first \in Nat, NEW lines, NEW F,
         LinesIn(lines, cells, first, F), NEW n \in 1..Len(lines), NEW a \in 0..(n - 1),
         \A j \in (a + 1)..(n - 1) : Chars(lines[j]) = {},
         NoneDropped(lines) => a = n - 1
  PROVE  IsRecord(lines[n], a, n, lines, cells, first, F)
<1>1. /\ Len(lines) \in Nat /\ F[n] = F[n - 1] + Len(lines[n]) + 1
      /\ F[n - 1] \in Nat /\ Len(lines[n]) \in Nat
      /\ \A j \in 1..Len(lines[n]) : lines[n][j] = cells[first + F[n - 1] + j]
  <2>1. /\ Len(lines) \in Nat
        /\ \A k \in 0..Len(lines) : F[k] \in Nat
        /\ \A k \in 1..Len(lines) :
             /\ F[k] = F[k - 1] + Len(lines[k]) + 1 /\ Len(lines[k]) \in Nat
             /\ \A j \in 1..Len(lines[k]) : lines[k][j] = cells[first + F[k - 1] + j]
    BY LinesInFacts
  <2>2. n - 1 \in 0..Len(lines)
    BY <2>1
  <2> QED
    BY <2>1, <2>2
<1>2. a < n /\ \A j : j \in (a + 1)..n <=> j \in (a + 1)..(n - 1) \/ j = n
  BY <1>1
<1>3. \A c : c \in Chars(lines[n]) <=> \E j \in (a + 1)..n : c \in Chars(lines[j])
  BY <1>2
<1>4. NoneDropped(lines) =>
        Len(lines[n]) = F[n] - F[a] - 1
        /\ \A i \in 1..Len(lines[n]) : lines[n][i] = cells[first + F[a] + i]
  BY <1>1
<1> QED
  BY <1>2, <1>3, <1>4 DEF IsRecord

(* A record goes on with the next line.                                     *)
LEMMA RecordGrows ==
  ASSUME NEW cells \in Seq(Cell), NEW first \in Nat, NEW lines, NEW F,
         LinesIn(lines, cells, first, F), NEW n \in 1..Len(lines), NEW a \in 0..(n - 1),
         NEW cur \in Seq(Cell), IsRecord(cur, a, n - 1, lines, cells, first, F)
  PROVE  IsRecord(Append(cur, NL) \o lines[n], a, n, lines, cells, first, F)
<1> DEFINE line == lines[n]
           r == Append(cur, NL) \o line
           m == Len(cur)
<1>1. /\ Len(lines) \in Nat /\ F[n] = F[n - 1] + Len(line) + 1 /\ line \in Seq(Cell)
      /\ F[n - 1] \in Nat /\ F[a] \in Nat /\ Len(line) \in Nat
      /\ \A j \in 1..Len(line) : line[j] = cells[first + F[n - 1] + j]
  <2>1. /\ Len(lines) \in Nat
        /\ \A k \in 0..Len(lines) : F[k] \in Nat
        /\ \A k \in 1..Len(lines) :
             /\ F[k] = F[k - 1] + Len(lines[k]) + 1 /\ lines[k] \in Seq(Cell)
                /\ Len(lines[k]) \in Nat
             /\ \A j \in 1..Len(lines[k]) : lines[k][j] = cells[first + F[k - 1] + j]
    BY LinesInFacts
  <2>2. n - 1 \in 0..Len(lines) /\ a \in 0..Len(lines)
    BY <2>1
  <2> QED
    BY <2>1, <2>2
<1> HIDE DEF line
<1>2. m \in Nat /\ NL \in Cell
  BY DEF Cell
<1>11. Len(line) \in Nat
  BY <1>1
<1>12. F[n] = F[n - 1] + Len(line) + 1 /\ F[n - 1] \in Nat /\ F[a] \in Nat
  BY <1>1
<1>3. /\ r \in Seq(Cell) /\ Len(r) = m + 1 + Len(line)
      /\ \A i \in 1..m : r[i] = cur[i]
      /\ r[m + 1] = NL
      /\ \A j \in 1..Len(line) : r[m + 1 + j] = line[j]
  <2> DEFINE l == Append(cur, NL)
  <2>1. l \in Seq(Cell) /\ Len(l) = m + 1 /\ (\A i \in 1..m : l[i] = cur[i]) /\ l[m + 1] = NL
    BY <1>2
  <2> HIDE DEF l, m
  <2>2. /\ l \o line \in Seq(Cell) /\ Len(l \o line) = Len(l) + Len(line)
        /\ \A i \in 1..(Len(l) + Len(line)) :
             (l \o line)[i] = IF i <= Len(l) THEN l[i] ELSE line[i - Len(l)]
    BY <1>1, <2>1, ConcatProperties
  <2>3. ASSUME NEW j \in 1..Len(line) PROVE (l \o line)[m + 1 + j] = line[j]
    <3>1. m + 1 + j \in 1..(Len(l) + Len(line)) /\ ~(m + 1 + j <= Len(l))
          /\ (m + 1 + j) - Len(l) = j
      BY <1>2, <1>11, <2>1
    <3> QED
      BY <2>2, <3>1
  <2>4. \A i \in 1..(m + 1) : i \in 1..(Len(l) + Len(line)) /\ i <= Len(l)
    BY <1>1, <1>2, <2>1
  <2>5. \A i \in 1..m : i \in 1..(m + 1)
    BY <1>2
  <2>6. m + 1 \in 1..(m + 1)
    BY <1>2
  <2> QED
    BY <2>1, <2>2, <2>3, <2>4, <2>5, <2>6 DEF l
<1> HIDE DEF r
<1>4. /\ a < n - 1
      /\ \A c : c \in Chars(cur) <=> \E j \in (a + 1)..(n - 1) : c \in Chars(lines[j])
      /\ NoneDropped(lines) =>
           m = F[n - 1] - F[a] - 1 /\ \A i \in 1..m : cur[i] = cells[first + F[a] + i]
  BY DEF IsRecord
<1>5. cells[first + F[n - 1]] = NL
  <2>1. n - 1 \in 1..Len(lines)
    BY <1>1, <1>4
  <2> QED
    BY <2>1, LinesInFacts
<1> HIDE DEF m
<1>6. \A c : c \in Chars(r) <=> c \in Chars(cur) \/ c \in Chars(line)
  <2> TAKE c
  <2>1. c \in Chars(r) <=> c # NL /\ \E k \in 1..(m + 1 + Len(line)) : r[k] = c
    BY <1>3, CharsAre
  <2>2. c \in Chars(cur) <=> c # NL /\ \E k \in 1..m : cur[k] = c
    BY CharsAre DEF m
  <2>3. c \in Chars(line) <=> c # NL /\ \E k \in 1..Len(line) : line[k] = c
    BY <1>1, CharsAre
  <2>4. \A k \in 1..(m + 1 + Len(line)) :
          k \in 1..m \/ k = m + 1 \/ (k - (m + 1) \in 1..Len(line) /\ m + 1 + (k - (m + 1)) = k)
    BY <1>1, <1>2
  <2>5. (\A k \in 1..m : k \in 1..(m + 1 + Len(line)))
        /\ (\A j \in 1..Len(line) : m + 1 + j \in 1..(m + 1 + Len(line)))
    BY <1>2, <1>11
  <2>6. ASSUME c \in Chars(r) PROVE c \in Chars(cur) \/ c \in Chars(line)
    <3>1. PICK k \in 1..(m + 1 + Len(line)) : r[k] = c /\ c # NL
      BY <2>1, <2>6
    <3>2. CASE k \in 1..m
      BY <1>3, <2>2, <3>1, <3>2
    <3>3. CASE k = m + 1
      BY <1>3, <3>1, <3>3
    <3>4. CASE k - (m + 1) \in 1..Len(line) /\ m + 1 + (k - (m + 1)) = k
      <4>1. r[k] = line[k - (m + 1)]
        BY <1>3, <3>4
      <4> QED
        BY <2>3, <3>1, <3>4, <4>1
    <3> QED
      BY <2>4, <3>2, <3>3, <3>4
  <2> QED
    BY <1>3, <2>1, <2>2, <2>3, <2>5, <2>6
<1>7. \A j : j \in (a + 1)..n <=> j \in (a + 1)..(n - 1) \/ j = n
  BY <1>1
<1>8. \A c : c \in Chars(r) <=> \E j \in (a + 1)..n : c \in Chars(lines[j])
  BY <1>4, <1>6, <1>7 DEF line
<1>9. ASSUME NoneDropped(lines)
      PROVE  Len(r) = F[n] - F[a] - 1 /\ \A i \in 1..Len(r) : r[i] = cells[first + F[a] + i]
  <2>1. m = F[n - 1] - F[a] - 1
    BY <1>4, <1>9
  <2>4. Len(r) = m + 1 + Len(line)
    BY <1>3
  <2>5. PICK x, y, z, w : x = F[n - 1] /\ y = F[a] /\ z = F[n] /\ w = Len(line)
    OBVIOUS
  <2>6. x \in Nat /\ y \in Nat /\ w \in Nat /\ z = x + w + 1 /\ m = x - y - 1
        /\ Len(r) = m + 1 + w
    BY <1>11, <1>12, <2>1, <2>4, <2>5
  <2>7. Len(r) = z - y - 1
    BY ONLY <2>6
  <2>2. Len(r) = F[n] - F[a] - 1
    BY <2>5, <2>7
  <2>3. ASSUME NEW i \in 1..Len(r) PROVE r[i] = cells[first + F[a] + i]
    <3>1. CASE i \in 1..m
      BY <1>3, <1>4, <1>9, <3>1
    <3>2. CASE i = m + 1
      <4>0. first + y + i = first + x
        BY ONLY <2>6, <3>2, first \in Nat
      <4>1. first + F[a] + i = first + F[n - 1]
        BY <2>5, <4>0
      <4> QED
        BY <1>3, <1>5, <3>2, <4>1
    <3>3. CASE i \notin 1..(m + 1)
      <4>1. i - (m + 1) \in 1..Len(line) /\ m + 1 + (i - (m + 1)) = i
            /\ first + F[n - 1] + (i - (m + 1)) = first + F[a] + i
        <5>1. i \in 1..Len(r) /\ m \in Nat
          BY <1>2
        <5>2. i - (m + 1) \in 1..w /\ m + 1 + (i - (m + 1)) = i
              /\ first + x + (i - (m + 1)) = first + y + i
          BY ONLY <2>6, <3>3, <5>1, first \in Nat
        <5> QED
          BY <2>5, <5>2
      <4>2. r[i] = line[i - (m + 1)]
        BY <1>3, <4>1
      <4> QED
        BY <1>1, <4>1, <4>2
    <3> QED
      BY <1>2, <3>1, <3>2, <3>3
  <2> QED
    BY <2>2, <2>3
<1>10. a < n
  BY <1>1
<1> QED
  BY <1>8, <1>9, <1>10 DEF IsRecord, line, r

-----------------------------------------------------------------------------
(* One more record, up to line e.                                           *)
LEMMA PartedMore ==
  ASSUME NEW cells, NEW first, NEW lines, NEW F, NEW records, NEW B, NEW n \in Nat,
         Parted(records, B, n, lines, cells, first, F), NEW r \in Seq(Cell), NEW e \in 0..n,
         IsRecord(r, B[Len(records)], e, lines, cells, first, F)
  PROVE  \E C : /\ Parted(Append(records, r), C, n, lines, cells, first, F)
                /\ C[Len(Append(records, r))] = e
<1> DEFINE l == Len(records)
           C == [k \in 0..(l + 1) |-> IF k = l + 1 THEN e ELSE B[k]]
           more == Append(records, r)
<1>1. /\ records \in Seq(Seq(Cell)) /\ B \in [0..l -> 0..n] /\ B[0] = 0
      /\ \A k \in 1..l : IsRecord(records[k], B[k - 1], B[k], lines, cells, first, F)
  BY DEF Parted
<1>2. l \in Nat
  BY <1>1
<1>3. more \in Seq(Seq(Cell)) /\ Len(more) = l + 1 /\ (\A k \in 1..l : more[k] = records[k])
      /\ more[l + 1] = r
  BY <1>1
<1> HIDE DEF l, more
<1>4. C[l + 1] = e /\ \A k \in 0..l : C[k] = B[k]
  BY <1>2
<1>5. C \in [0..(l + 1) -> 0..n]
  <2>1. \A k \in 0..(l + 1) : k # l + 1 => k \in 0..l
    BY <1>2
  <2> QED
    BY <1>1, <2>1
<1> HIDE DEF C
<1>6. ASSUME NEW k \in 1..(l + 1)
      PROVE  IsRecord(more[k], C[k - 1], C[k], lines, cells, first, F)
  <2>1. CASE k \in 1..l
    <3>1. k - 1 \in 0..l /\ k \in 0..l
      BY <1>2, <2>1
    <3> QED
      BY <1>1, <1>3, <1>4, <2>1, <3>1
  <2>2. CASE k = l + 1
    <3>1. k - 1 = l /\ l \in 0..l
      BY <1>2, <2>2
    <3>2. C[k - 1] = B[l] /\ C[k] = e /\ more[k] = r
      BY <1>3, <1>4, <2>2, <3>1
    <3> QED
      BY <3>2 DEF l
  <2> QED
    BY <1>2, <2>1, <2>2
<1>7. C[0] = 0
  BY <1>1, <1>2, <1>4
<1>8. Parted(more, C, n, lines, cells, first, F) /\ C[Len(more)] = e
  BY <1>3, <1>4, <1>5, <1>6, <1>7 DEF Parted
<1> QED
  BY <1>8 DEF more

(* The record that is being gathered: lines b + 1 to n, or nothing.         *)
Open(current, b, n, lines, cells, first, F) ==
  IF current # <<>> THEN IsRecord(current, b, n, lines, cells, first, F)
  ELSE (\A j \in (b + 1)..n : Chars(lines[j]) = {}) /\ (NoneDropped(lines) => b = n)

(* What apply_multiline_records has after n lines.                          *)
Sorted(acc, n, lines, cells, first, F) ==
  \E B : /\ Parted(acc.records, B, n, lines, cells, first, F)
         /\ Open(acc.current, B[Len(acc.records)], n, lines, cells, first, F)

(* A line that is not empty starts a record; an empty one leaves nothing    *)
(* under way.                                                               *)
LEMMA OpenLine ==
  ASSUME NEW cells \in Seq(Cell), NEW first \in Nat, NEW lines, NEW F, options.multiline,
         LinesIn(lines, cells, first, F), NEW n \in 1..Len(lines), NEW b \in 0..(n - 1),
         \A j \in (b + 1)..(n - 1) : Chars(lines[j]) = {}, NoneDropped(lines) => b = n - 1
  PROVE  Open(lines[n], b, n, lines, cells, first, F)
<1>1. Len(lines) \in Nat /\ lines[n] \in Seq(Cell)
  BY LinesInFacts
<1>2. CASE lines[n] # <<>>
  <2>1. IsRecord(lines[n], b, n, lines, cells, first, F)
    BY LineIsRecord
  <2> QED
    BY <1>2, <2>1 DEF Open
<1>3. CASE lines[n] = <<>>
  <2>1. Chars(lines[n]) = {}
    <3>1. Len(lines[n]) = 0
      BY <1>3
    <3>2. \A c : c \notin Chars(lines[n])
      BY <1>1, <3>1, CharsAre
    <3> QED
      BY <3>2
  <2>2. \A j \in (b + 1)..n : j \in (b + 1)..(n - 1) \/ j = n
    BY <1>1
  <2>3. ~NoneDropped(lines)
    BY <1>3 DEF NoneDropped
  <2> QED
    BY <1>3, <2>1, <2>2, <2>3 DEF Open
<1> QED
  BY <1>2, <1>3

(* Each line keeps the records and the one under way in order.              *)
LEMMA GatherSorts ==
  ASSUME OptionsOK, options.multiline, NEW cells \in Seq(Cell), NEW first \in Nat, NEW lines, NEW F,
         LinesIn(lines, cells, first, F), NEW n \in 1..Len(lines), NEW acc \in Gathering,
         Sorted(acc, n - 1, lines, cells, first, F)
  PROVE  Sorted(Gather(lines[n], acc), n, lines, cells, first, F)
<1> DEFINE line == lines[n]
           cut == acc.current # <<>> /\
               (StartsRecord(line) \/ (options.max_lines > 0 /\ acc.count >= options.max_lines))
           cur == IF cut THEN <<>> ELSE acc.current
           new == Gather(line, acc)
<1>1. acc.records \in Seq(Seq(Cell)) /\ acc.current \in Seq(Cell)
  BY DEF Gathering
<1>2. /\ new.records = IF cut THEN Append(acc.records, acc.current) ELSE acc.records
      /\ new.current = IF cur = <<>> THEN line ELSE Append(cur, NL) \o line
  BY DEF Gather
<1>3. Len(lines) \in Nat /\ line \in Seq(Cell) /\ n - 1 \in Nat /\ n \in Nat
  <2>1. Len(lines) \in Nat /\ lines[n] \in Seq(Cell)
    BY LinesInFacts
  <2> QED
    BY <2>1
<1>4. PICK B : /\ Parted(acc.records, B, n - 1, lines, cells, first, F)
               /\ Open(acc.current, B[Len(acc.records)], n - 1, lines, cells, first, F)
  BY DEF Sorted
<1>5. cut => acc.current # <<>>
  OBVIOUS
<1> DEFINE b == B[Len(acc.records)]
<1>6. b \in 0..(n - 1)
  <2>1. B \in [0..Len(acc.records) -> 0..(n - 1)] /\ Len(acc.records) \in Nat
    BY <1>1, <1>4 DEF Parted
  <2> QED
    BY <2>1
<1> HIDE DEF line, cut, new, b
<1>7. CASE cut
  <2>1. IsRecord(acc.current, b, n - 1, lines, cells, first, F)
    BY <1>4, <1>5, <1>7 DEF Open, b
  <2>2. n - 1 \in 0..(n - 1)
    BY <1>3
  <2>3. PICK C : /\ Parted(Append(acc.records, acc.current), C, n - 1, lines, cells, first, F)
                 /\ C[Len(Append(acc.records, acc.current))] = n - 1
    <3>1. PICK p, records, r : p = n - 1 /\ records = acc.records /\ r = acc.current
      OBVIOUS
    <3>2. p \in Nat /\ p \in 0..p /\ r \in Seq(Cell)
          /\ Parted(records, B, p, lines, cells, first, F)
          /\ IsRecord(r, B[Len(records)], p, lines, cells, first, F)
      BY <1>1, <1>3, <1>4, <2>1, <2>2, <3>1 DEF b
    <3>3. \E C : Parted(Append(records, r), C, p, lines, cells, first, F)
               /\ C[Len(Append(records, r))] = p
      BY ONLY <3>2, PartedMore
    <3> QED
      BY <3>1, <3>3
  <2>4. Parted(Append(acc.records, acc.current), C, n, lines, cells, first, F)
    <3>1. \A i \in 0..(n - 1) : i \in 0..n
      BY <1>3
    <3> QED
      BY <2>3, <3>1 DEF Parted
  <2>5. Open(line, n - 1, n, lines, cells, first, F)
    <3>1. \A j \in ((n - 1) + 1)..(n - 1) : Chars(lines[j]) = {}
      BY <1>3
    <3> QED
      BY <2>2, <3>1, OpenLine DEF line
  <2>6. new.records = Append(acc.records, acc.current) /\ new.current = line
    BY <1>2, <1>7
  <2> QED
    BY <2>3, <2>4, <2>5, <2>6 DEF Sorted, new, line
<1>8. CASE ~cut
  <2>1. Parted(acc.records, B, n, lines, cells, first, F)
    <3>1. \A i \in 0..(n - 1) : i \in 0..n
      BY <1>3
    <3> QED
      BY <1>4, <3>1 DEF Parted
  <2>2. new.records = acc.records
        /\ new.current = IF acc.current = <<>> THEN line ELSE Append(acc.current, NL) \o line
    BY <1>2, <1>8
  <2>3. Open(new.current, b, n, lines, cells, first, F)
    <3>1. CASE acc.current = <<>>
      <4>1. (\A j \in (b + 1)..(n - 1) : Chars(lines[j]) = {}) /\ (NoneDropped(lines) => b = n - 1)
        BY <1>4, <3>1 DEF Open, b
      <4>2. Open(line, b, n, lines, cells, first, F)
        BY <1>6, <4>1, OpenLine DEF line
      <4> QED
        BY <2>2, <3>1, <4>2
    <3>2. CASE acc.current # <<>>
      <4>1. IsRecord(acc.current, b, n - 1, lines, cells, first, F)
        BY <1>4, <3>2 DEF Open, b
      <4>2. IsRecord(Append(acc.current, NL) \o line, b, n, lines, cells, first, F)
        BY <1>1, <1>6, <4>1, RecordGrows DEF line
      <4>3. Append(acc.current, NL) \o line # <<>>
        <5>1. Append(acc.current, NL) \in Seq(Cell)
              /\ Len(Append(acc.current, NL)) = Len(acc.current) + 1
              /\ Len(acc.current) \in Nat
          BY <1>1 DEF Cell
        <5>2. Len(Append(acc.current, NL) \o line) = Len(Append(acc.current, NL)) + Len(line)
              /\ Len(line) \in Nat
          BY <1>3, <5>1
        <5>3. Len(Append(acc.current, NL) \o line) # 0
          BY <5>1, <5>2
        <5>4. Len(<<>>) = 0
          OBVIOUS
        <5> QED
          BY ONLY <5>3, <5>4
      <4> QED
        BY <2>2, <3>2, <4>2, <4>3 DEF Open
    <3> QED
      BY <3>1, <3>2
  <2> QED
    BY <2>1, <2>2, <2>3 DEF Sorted, new, line, b
<1> QED
  BY <1>7, <1>8

(* apply_multiline_records gives records of all the lines, in order: each   *)
(* character is in one of them.                                             *)
LEMMA RecordsParted ==
  ASSUME OptionsOK, NEW cells \in Seq(Cell), NEW first \in Nat, NEW lines, NEW F,
         LinesIn(lines, cells, first, F), NEW records, records = ApplyMultiline(lines)
  PROVE  \E B : /\ Parted(records, B, Len(lines), lines, cells, first, F)
                /\ \A j \in 1..Len(lines) : j > B[Len(records)] => Chars(lines[j]) = {}
<1> DEFINE m == Len(lines)
<1>1. m \in Nat /\ \A n \in 1..m : lines[n] \in Seq(Cell)
  BY LinesInFacts
<1>2. lines \in Seq(Seq(Cell))
  BY DEF LinesIn
<1>3. CASE ~options.multiline
  <2> DEFINE B == [k \in 0..m |-> k]
  <2>1. records = lines
    BY <1>3 DEF ApplyMultiline
  <2> HIDE DEF m
  <2>2. B \in [0..m -> 0..m] /\ B[0] = 0 /\ B[m] = m
    BY <1>1
  <2>3. ASSUME NEW k \in 1..m PROVE IsRecord(lines[k], B[k - 1], B[k], lines, cells, first, F)
    <3>1. k - 1 \in 0..m /\ k \in 0..m /\ k - 1 \in 0..(k - 1)
      BY <1>1
    <3>2. B[k - 1] = k - 1 /\ B[k] = k
      BY <3>1
    <3>3. \A j \in ((k - 1) + 1)..(k - 1) : Chars(lines[j]) = {}
      BY <1>1
    <3>4. k \in 1..Len(lines)
      BY DEF m
    <3>5. IsRecord(lines[k], k - 1, k, lines, cells, first, F)
      BY <3>1, <3>3, <3>4, LineIsRecord
    <3> QED
      BY <3>2, <3>5
  <2> HIDE DEF B
  <2>4. Parted(lines, B, m, lines, cells, first, F)
    BY <1>2, <2>2, <2>3 DEF Parted, m
  <2>5. \A j \in 1..m : ~(j > B[m])
    BY <1>1, <2>2
  <2> QED
    BY <2>1, <2>4, <2>5 DEF m
<1>4. CASE options.multiline
  <2>1. PICK f : /\ Gathers(f, lines)
                 /\ records = IF f[m].current = <<>> THEN f[m].records
                              ELSE Append(f[m].records, f[m].current)
    BY <1>2, <1>4, MultilineGathers
  <2> HIDE DEF m
  <2>2. /\ f \in [0..m -> Gathering] /\ f[0] = [records |-> <<>>, current |-> <<>>, count |-> 0]
        /\ \A n \in 1..m : f[n] = Gather(lines[n], f[n - 1])
    BY <2>1 DEF Gathers, m
  <2> DEFINE S == {n \in Nat : n <= m => Sorted(f[n], n, lines, cells, first, F)}
  <2>3. Sorted(f[0], 0, lines, cells, first, F)
    <3> DEFINE B == [k \in 0..0 |-> 0]
    <3>1. f[0].records = <<>> /\ f[0].current = <<>>
      BY <2>2
    <3>2. <<>> \in Seq(Seq(Cell)) /\ Len(<<>>) = 0 /\ B \in [0..0 -> 0..0] /\ B[0] = 0
      OBVIOUS
    <3> HIDE DEF B
    <3>3. Parted(<<>>, B, 0, lines, cells, first, F)
      BY <3>2 DEF Parted
    <3>4. Open(<<>>, 0, 0, lines, cells, first, F)
      BY DEF Open
    <3> QED
      BY <3>1, <3>2, <3>3, <3>4 DEF Sorted
  <2>4. ASSUME NEW n \in Nat, n \in S PROVE n + 1 \in S
    <3> SUFFICES ASSUME n + 1 <= m PROVE Sorted(f[n + 1], n + 1, lines, cells, first, F)
      OBVIOUS
    <3>1. n + 1 \in 1..m /\ (n + 1) - 1 = n /\ n \in 0..m /\ Sorted(f[n], n, lines, cells, first, F)
      BY <1>1, <2>4
    <3>2. f[n] \in Gathering /\ f[n + 1] = Gather(lines[n + 1], f[n])
      BY <2>2, <3>1
    <3>3. n + 1 \in 1..Len(lines)
      BY <3>1 DEF m
    <3>4. PICK k : k = n + 1
      OBVIOUS
    <3>5. k \in 1..Len(lines) /\ Sorted(f[n], k - 1, lines, cells, first, F)
      BY <3>1, <3>3, <3>4
    <3>6. Sorted(Gather(lines[k], f[n]), k, lines, cells, first, F)
      BY <1>4, <3>2, <3>5, GatherSorts
    <3> QED
      BY <3>2, <3>4, <3>6
  <2>5. 0 \in S
    BY <2>3
  <2> HIDE DEF S
  <2>6. m \in S
    BY <1>1, <2>4, <2>5, Inductive
  <2>11. PICK acc : acc = f[m]
    OBVIOUS
  <2>7. PICK B : /\ Parted(acc.records, B, m, lines, cells, first, F)
                 /\ Open(acc.current, B[Len(acc.records)], m, lines, cells, first, F)
    BY <1>1, <2>6, <2>11 DEF S, Sorted
  <2>8. acc.current \in Seq(Cell) /\ acc.records \in Seq(Seq(Cell)) /\ Len(acc.records) \in Nat
    BY <1>1, <2>2, <2>11 DEF Gathering
  <2>9. CASE acc.current = <<>>
    <3>1. B[Len(acc.records)] \in 0..m
      <4>1. B \in [0..Len(acc.records) -> 0..m] /\ Len(acc.records) \in 0..Len(acc.records)
        BY <2>7, <2>8 DEF Parted
      <4> QED
        BY <4>1
    <3>2. \A j \in 1..m : j > B[Len(acc.records)] => Chars(lines[j]) = {}
      <4>1. PICK b : b = B[Len(acc.records)]
        OBVIOUS
      <4>2. b \in 0..m /\ \A j \in (b + 1)..m : Chars(lines[j]) = {}
        BY <2>7, <2>9, <3>1, <4>1 DEF Open
      <4>3. \A j \in 1..m : j > b => j \in (b + 1)..m
        BY <1>1, <4>2
      <4> QED
        BY <4>1, <4>2, <4>3
    <3> QED
      BY <2>1, <2>7, <2>9, <2>11, <3>2 DEF m
  <2>10. CASE acc.current # <<>>
    <3>1. IsRecord(acc.current, B[Len(acc.records)], m, lines, cells, first, F)
      BY <2>7, <2>10 DEF Open
    <3>2. m \in 0..m
      BY <1>1
    <3>3. PICK C : /\ Parted(Append(acc.records, acc.current), C, m, lines, cells, first, F)
                   /\ C[Len(Append(acc.records, acc.current))] = m
      <4>1. PICK rs, r : rs = acc.records /\ r = acc.current
        OBVIOUS
      <4>2. m \in Nat /\ m \in 0..m /\ r \in Seq(Cell)
            /\ Parted(rs, B, m, lines, cells, first, F)
            /\ IsRecord(r, B[Len(rs)], m, lines, cells, first, F)
        BY <1>1, <2>7, <2>8, <3>1, <3>2, <4>1
      <4>3. \E C : Parted(Append(rs, r), C, m, lines, cells, first, F)
                 /\ C[Len(Append(rs, r))] = m
        BY ONLY <4>2, PartedMore
      <4> QED
        BY <4>1, <4>3
    <3>4. \A j \in 1..m : ~(j > m)
      BY <1>1
    <3> QED
      BY <2>1, <2>10, <2>11, <3>3, <3>4 DEF m
  <2> QED
    BY <2>9, <2>10
<1> QED
  BY <1>3, <1>4

-----------------------------------------------------------------------------
(* A message of the source, and a letter between the shards.                *)
Msg == [key : {NoKey}, cells : Seq(Cell), at : Int, gen : Int]

(* A letter in a shard's inbox.                                             *)
Letter == [caller : Callers, msgs : Seq(Msg)]

(* A caller and the shards it still waits for.                              *)
Awaiting == [pc : {"idle", "waiting", "ok", "failed"}, left : SUBSET Shards, bad : BOOLEAN]

(* One content of a file, from its creation to its end or its cut.          *)
Generation == [inode : Nat, cells : Seq(Cell)]

(* The values of an offset.                                                 *)
Place == [inode : Nat, offset : Nat, gen : Int]

(* Where the loop can be.                                                   *)
Turn == [pc : {"idle", "stat", "size", "read", "append", "wait", "store"},
         todo : Seq(PathSet), inode : Nat, start : Nat, size : Nat,
         lines : Seq(Seq(Cell)), next : Place]

(* An offset, of a generation there has been.                               *)
IsOffset(o) ==
  /\ o \in Place
  /\ o.gen \in {Mixed} \cup 0..Len(contents)

(* The files.                                                               *)
FilesOK ==
  /\ contents \in Seq(Generation)
  /\ file \in [PathSet -> [inode : Nat, gen : Nat]]
  /\ \A p \in PathSet : file[p] # Absent => file[p].gen \in DOMAIN contents

(* The loop and its offsets.                                                *)
LoopOK ==
  /\ OptionsOK
  /\ offsets \in [PathSet -> Place] /\ stored \in [PathSet -> Place]
  /\ \A p \in PathSet : IsOffset(offsets[p]) /\ IsOffset(stored[p])
  /\ src \in Turn
  /\ IsOffset(src.next)
  /\ src.pc # "idle" => src.todo # <<>>
  /\ used \in [cells : Nat, changes : Nat, mishaps : Nat, pressure : Nat]

(* The engine under the one source: it is never stopped, only killed, and   *)
(* a shard has one letter at most, of a call that waits for it.             *)
EngineOK ==
  /\ policy \in Policies /\ rr \in Shards
  /\ queue \in [Shards -> Seq(Msg)] /\ log \in [Shards -> Seq(Msg)]
  /\ inbox \in [Shards -> Seq(Letter)] /\ call \in [Callers -> Awaiting]
  /\ started \in {"down", "up"}
  /\ started = "up" => \A s \in Shards : writer[s] = "up"
  /\ started = "down" => src = Idle
  /\ \A s \in Shards : Len(inbox[s]) <= 1
       /\ (inbox[s] # <<>>
            => call[Source].pc = "waiting" /\ s \in call[Source].left /\ started = "up")
  /\ call[Source].pc # "waiting" => call[Source].left = {}

(* The first layer: the types, and which parts can be away together.        *)
Basics == FilesOK /\ LoopOK /\ EngineOK

-----------------------------------------------------------------------------
(* The first n cells of generation g of these contents are whole lines, and *)
(* their characters are in S.                                               *)
CoveredIn(c, S, g, n) ==
  g \in DOMAIN c =>
    LET cells == c[g].cells
    IN  /\ n <= Len(cells)
        /\ n = 0 \/ cells[n] = NL
        /\ \A i \in 1..n : cells[i] = NL \/ cells[i] \in S

(* The same of the contents as they are.                                    *)
Covered(S, g, n) == CoveredIn(contents, S, g, n)

(* What a shard accepted or the limits dropped.                             *)
Reached == taken \cup refused

(* The characters on the way to a shard.                                    *)
Posted == UNION {UNION {CharsOf(inbox[s][i].msgs) : i \in DOMAIN inbox[s]} : s \in Shards}

(* These lines lie in these cells behind the first ones.                    *)
Ahead(lines, cells, first) ==
  first \in Nat /\ \E F : LinesIn(lines, cells, first, F) /\ Size(lines) = F[Len(lines)]

(* Where the lines of this turn begin.                                      *)
First == src.next.offset - Size(src.lines)

(* What was read and not stored yet.                                        *)
TurnCovers ==
  /\ src.pc = "read" => src.start = 0 \/ src.start = offsets[Path].offset
  /\ src.pc = "append" =>
       /\ Covered(Reached, src.next.gen, First)
       /\ src.next.gen \in DOMAIN contents =>
            Ahead(src.lines, contents[src.next.gen].cells, First)
  /\ src.pc = "wait" => Covered(Reached \cup Posted, src.next.gen, src.next.offset)
  /\ src.pc = "store" => Covered(Reached, src.next.gen, src.next.offset)

(* The second layer: the bytes below every offset, in memory and on disk,   *)
(* are whole lines that were accepted or dropped (agent.cc:404-405).        *)
Covers ==
  /\ \A p \in PathSet :
       /\ Covered(Reached, offsets[p].gen, offsets[p].offset)
       /\ Covered(Reached, stored[p].gen, stored[p].offset)
  /\ TurnCovers

-----------------------------------------------------------------------------
(* Everything a shard was sent since the process started, and what earlier  *)
(* ones left on its disk.                                                   *)
Sent(s) == (log[s] \o queue[s]) \o (IF inbox[s] = <<>> THEN <<>> ELSE inbox[s][1].msgs)

(* What WholeLines says of a record of these cells, of one at this place.   *)
LiesAt(cells, at, record) ==
  /\ at \in Nat /\ at + Len(record) < Len(cells) /\ cells[at + Len(record) + 1] = NL
  /\ at > 0 => cells[at] = NL
  /\ \A i \in 1..Len(record) : cells[at + i] = record[i]

(* A record lies in these cells where its source_offset says.               *)
Lies(cells, m) == LiesAt(cells, m.at, m.cells)

(* There is an empty line in these cells.                                   *)
Blank(cells) == \E i \in DOMAIN cells : cells[i] = NL /\ (i = 1 \/ cells[i - 1] = NL)

(* A record of these contents, when those were refused.                     *)
Valid(c, those, multiline, m) ==
  /\ m.gen \in {Mixed} \cup DOMAIN c
  /\ m.gen # Mixed /\ those = {} /\ (multiline => ~Blank(c[m.gen].cells)) => Lies(c[m.gen].cells, m)

(* Everything sent is whole lines of the file at its source_offset, where   *)
(* WholeLines promises it.                                                  *)
Whole ==
  \A s \in Shards : \A k \in 1..Len(Sent(s)) :
    Valid(contents, refused, options.multiline, Sent(s)[k])

(* Lines were read from a generation there is.                              *)
Turned == src.pc \in {"append", "wait", "store"} => src.next.gen \in {Mixed} \cup DOMAIN contents

-----------------------------------------------------------------------------
(* The constants.                                                           *)
LEMMA Given ==
  /\ Callers = {Source} /\ Source \in Callers /\ Home[Source] \in Shards
  /\ ShardCount \in Nat \ {0} /\ SourceMaxLines \in Nat
  /\ Options \subseteq [multiline : BOOLEAN, max_lines : Nat, max_message : Nat, max_buffer : Nat]
  /\ Paths \in Seq(PathSet) /\ Inodes # {} /\ Inodes \subseteq Nat /\ 0 \notin Inodes
BY RouterAssumption, EngineAssumption, SourceAssumption DEF PathSet

-----------------------------------------------------------------------------
(* The other programs only add to the files, and put new generations at the *)
(* paths.                                                                   *)
Grown ==
  /\ UNCHANGED <<engineVars, options, offsets, stored, src, taken, refused, excused>>
  /\ contents' \in Seq(Generation) /\ Len(contents) <= Len(contents')
  /\ \A g \in 1..Len(contents) :
       /\ contents'[g].inode = contents[g].inode
       /\ Len(contents[g].cells) <= Len(contents'[g].cells)
       /\ \A i \in 1..Len(contents[g].cells) : contents'[g].cells[i] = contents[g].cells[i]
  /\ file' \in [PathSet -> [inode : Nat, gen : Nat]]
  /\ \A p \in PathSet :
       \/ file'[p] = file[p] \/ file'[p] = Absent
       \/ /\ file'[p].gen = Len(contents) + 1 /\ Len(contents') = Len(contents) + 1
          /\ contents'[Len(contents) + 1].inode = file'[p].inode
          /\ \A q \in PathSet \ {p} : file'[q] = file[q]

(* One more cell at the end of a generation.                                *)
LEMMA CellGrows ==
  ASSUME FilesOK, NEW p \in PathSet, file[p] # Absent, NEW c \in Cell,
         contents' = [contents EXCEPT ![file[p].gen].cells = Append(@, c)],
         UNCHANGED <<Others, file>>
  PROVE  Grown
<1> DEFINE g == file[p].gen
           cells == contents[g].cells
<1>1. contents \in Seq(Generation) /\ g \in 1..Len(contents) /\ Len(contents) \in Nat
  BY DEF FilesOK
<1> HIDE DEF g
<1>2. contents[g] \in Generation /\ cells \in Seq(Cell)
  <2>1. contents[g] \in Generation
    BY <1>1
  <2> QED
    BY <2>1 DEF Generation
<1> HIDE DEF cells
<1>3. /\ Append(cells, c) \in Seq(Cell) /\ Len(Append(cells, c)) = Len(cells) + 1
      /\ Len(cells) \in Nat /\ \A i \in 1..Len(cells) : Append(cells, c)[i] = cells[i]
  BY <1>2
<1>4. contents' = [contents EXCEPT ![g] = [contents[g] EXCEPT !.cells = Append(cells, c)]]
  BY <1>1 DEF g, cells
<1>5. [contents[g] EXCEPT !.cells = Append(cells, c)] \in Generation
      /\ [contents[g] EXCEPT !.cells = Append(cells, c)].cells = Append(cells, c)
      /\ [contents[g] EXCEPT !.cells = Append(cells, c)].inode = contents[g].inode
  BY <1>2, <1>3 DEF Generation
<1> DEFINE new == [contents[g] EXCEPT !.cells = Append(cells, c)]
<1> HIDE DEF new
<1>6. contents' \in Seq(Generation) /\ Len(contents') = Len(contents)
      /\ contents'[g] = new /\ \A h \in 1..Len(contents) : h # g => contents'[h] = contents[h]
  <2>1. new \in Generation /\ contents' = [contents EXCEPT ![g] = new]
    BY <1>4, <1>5 DEF new
  <2> DEFINE n == Len(contents)
  <2>2. contents \in [1..n -> Generation] /\ n \in Nat /\ g \in 1..n
    BY <1>1
  <2> HIDE DEF n
  <2>3. contents' \in [1..n -> Generation] /\ contents'[g] = new
        /\ \A h \in 1..n : h # g => contents'[h] = contents[h]
    BY <2>1, <2>2
  <2>4. contents' \in Seq(Generation) /\ Len(contents') = n
    BY <2>2, <2>3
  <2> QED
    BY <2>3, <2>4 DEF n
<1>7. ASSUME NEW h \in 1..Len(contents)
      PROVE  /\ contents'[h].inode = contents[h].inode
             /\ Len(contents[h].cells) <= Len(contents'[h].cells)
             /\ \A i \in 1..Len(contents[h].cells) : contents'[h].cells[i] = contents[h].cells[i]
  <2>1. CASE h = g
    <3>1. contents'[h].inode = contents[h].inode /\ contents'[h].cells = Append(cells, c)
          /\ contents[h].cells = cells
      BY <1>5, <1>6, <2>1 DEF new, cells
    <3> QED
      BY <1>3, <3>1
  <2>2. CASE h # g
    <3>1. contents'[h] = contents[h] /\ contents[h] \in Generation
      BY <1>1, <1>6, <2>2
    <3>2. Len(contents[h].cells) \in Nat
      BY <3>1 DEF Generation
    <3> QED
      BY <3>1, <3>2
  <2> QED
    BY <2>1, <2>2
<1>8. file' = file
      /\ UNCHANGED <<engineVars, options, offsets, stored, src, taken, refused, excused>>
  BY DEF Others
<1> QED
  BY <1>1, <1>6, <1>7, <1>8 DEF Grown, FilesOK

(* A new generation at a path.                                              *)
LEMMA RenewGrows ==
  ASSUME FilesOK, NEW p \in PathSet, NEW inode \in Nat, Renew(p, inode)
  PROVE  Grown
<1> DEFINE new == [inode |-> inode, cells |-> <<>>]
<1>1. contents \in Seq(Generation) /\ Len(contents) \in Nat
      /\ file \in [PathSet -> [inode : Nat, gen : Nat]]
  BY DEF FilesOK
<1>2. new \in Generation /\ new.inode = inode
  BY DEF Generation
<1>3. /\ contents' = Append(contents, new)
      /\ file' = [file EXCEPT ![p] = [inode |-> inode, gen |-> Len(contents) + 1]]
      /\ UNCHANGED <<engineVars, options, offsets, stored, src, taken, refused, excused>>
  BY DEF Renew, Others
<1> HIDE DEF new
<1>4. /\ contents' \in Seq(Generation) /\ Len(contents') = Len(contents) + 1
      /\ (\A g \in 1..Len(contents) : contents'[g] = contents[g])
      /\ contents'[Len(contents) + 1] = new
  BY <1>1, <1>2, <1>3
<1>5. /\ file' \in [PathSet -> [inode : Nat, gen : Nat]]
      /\ file'[p] = [inode |-> inode, gen |-> Len(contents) + 1]
      /\ \A q \in PathSet : q # p => file'[q] = file[q]
  BY <1>1, <1>3
<1>6. \A g \in 1..Len(contents) : Len(contents[g].cells) \in Nat
  BY <1>1 DEF Generation
<1>7. Len(contents) <= Len(contents')
  BY <1>1, <1>4
<1>8. \A g \in 1..Len(contents) : Len(contents[g].cells) <= Len(contents'[g].cells)
  BY <1>4, <1>6
<1> QED
  BY <1>2, <1>3, <1>4, <1>5, <1>7, <1>8 DEF Grown

(* The steps of the other programs.                                         *)
WorldStep ==
  \/ \E p \in PathSet :
       \/ WriteChar(p) \/ EndLine(p)
       \/ \E inode \in Inodes : Rotate(p, inode) \/ Create(p, inode)
       \/ Truncate(p) \/ Unlink(p)
  \/ \E gauges \in SUBSET ToSet(Gauges) : Pressure(gauges)

(* Every step of the other programs is of that kind.                        *)
LEMMA WorldGrows ==
  ASSUME FilesOK, used.cells \in Nat, WorldStep
  PROVE  Grown
<1>1. ASSUME NEW p \in PathSet, WriteChar(p) PROVE Grown
  <2>1. used.cells + 1 \in Cell
    BY DEF Cell
  <2> QED
    BY <1>1, <2>1, CellGrows DEF WriteChar
<1>2. ASSUME NEW p \in PathSet, EndLine(p) PROVE Grown
  <2>1. NL \in Cell
    BY DEF Cell
  <2> QED
    BY <1>2, <2>1, CellGrows DEF EndLine
<1>3. ASSUME NEW p \in PathSet, NEW inode \in Inodes, Rotate(p, inode) \/ Create(p, inode)
      PROVE  Grown
  <2>1. inode \in Nat /\ Renew(p, inode)
    BY <1>3, Given DEF Rotate, Create
  <2> QED
    BY <2>1, RenewGrows
<1>4. ASSUME NEW p \in PathSet, Truncate(p) PROVE Grown
  <2>1. file[p].inode \in Nat /\ Renew(p, file[p].inode)
    BY <1>4 DEF Truncate, FilesOK
  <2> QED
    BY <2>1, RenewGrows
<1>5. ASSUME UNCHANGED <<contents, engineVars, options, offsets, stored, src, taken, refused,
               excused>>,
             file' \in [PathSet -> [inode : Nat, gen : Nat]],
             \A p \in PathSet : file'[p] = file[p] \/ file'[p] = Absent
      PROVE  Grown
  <2>1. contents \in Seq(Generation) /\ Len(contents) \in Nat
    BY DEF FilesOK
  <2>2. \A g \in 1..Len(contents) : Len(contents[g].cells) \in Nat
    BY <2>1 DEF Generation
  <2> QED
    BY <1>5, <2>1, <2>2 DEF Grown
<1>6. ASSUME NEW p \in PathSet, Unlink(p) PROVE Grown
  <2>1. file' = [file EXCEPT ![p] = Absent] /\ file \in [PathSet -> [inode : Nat, gen : Nat]]
        /\ Absent \in [inode : Nat, gen : Nat]
    BY <1>6 DEF Unlink, FilesOK, Absent
  <2> QED
    BY <1>5, <1>6, <2>1 DEF Unlink, Others
<1>7. ASSUME NEW gauges \in SUBSET ToSet(Gauges), Pressure(gauges) PROVE Grown
  BY <1>5, <1>7 DEF Pressure, FilesOK
<1> QED
  BY <1>1, <1>2, <1>3, <1>4, <1>6, <1>7 DEF WorldStep

-----------------------------------------------------------------------------
(* What the proofs use of %.                                                *)
LEMMA Remainder ==
  ASSUME NEW n \in Nat \ {0}, NEW a \in Int
  PROVE  a % n \in 0..(n - 1)
OBVIOUS

(* How many empty keys come before a message.                               *)
LEMMA EmptyBeforeIs ==
  ASSUME NEW msgs, NEW i \in Nat \ {0}
  PROVE  EmptyBefore(msgs, i) \in Nat
<1> DEFINE S == {j \in 1..(i - 1) : Empty(msgs[j])}
<1>1. i - 1 \in Nat /\ S \in SUBSET (1..(i - 1)) /\ EmptyBefore(msgs, i) = Cardinality(S)
  BY DEF EmptyBefore
<1> HIDE DEF S
<1> QED
  BY <1>1, PartFinite

(* A shard's part of a batch: the messages at these positions.              *)
Mine(msgs, shards, s) == {i \in 1..Len(msgs) : shards[i] = s}

(* PartFor takes them in order, so the k-th of a part is the message at the *)
(* k-th position of the shard's own.                                        *)
LEMMA PartIs ==
  ASSUME NEW M, NEW msgs \in Seq(M), NEW shards \in [1..Len(msgs) -> Shards], NEW s
  PROVE  LET mine == Mine(msgs, shards, s)
             part == PartFor(msgs, shards, s)
         IN  /\ part \in Seq(M) /\ Len(part) = Cardinality(mine)
             /\ mine \in SUBSET (1..Len(msgs))
             /\ \A k \in 1..Len(part) : Nth(mine, k) \in mine /\ part[k] = msgs[Nth(mine, k)]
             /\ \A i \in mine : \E k \in 1..Len(part) : Nth(mine, k) = i
<1> DEFINE mine == Mine(msgs, shards, s)
<1>1. mine \in SUBSET (1..Len(msgs)) /\ DOMAIN msgs = 1..Len(msgs)
  BY DEF Mine
<1>2. PartFor(msgs, shards, s) = Chosen(msgs, mine)
  BY <1>1 DEF PartFor, Chosen, Mine
<1> HIDE DEF mine
<1>3. /\ Chosen(msgs, mine) \in Seq(M) /\ Len(Chosen(msgs, mine)) = Cardinality(mine)
      /\ \A k \in 1..Len(Chosen(msgs, mine)) :
           Nth(mine, k) \in mine /\ Chosen(msgs, mine)[k] = msgs[Nth(mine, k)]
      /\ \A i \in mine : \E k \in 1..Len(Chosen(msgs, mine)) : Nth(mine, k) = i
  BY ONLY <1>1, msgs \in Seq(M), ChosenIs
<1> QED
  BY <1>1, <1>2, <1>3 DEF mine

(* append_batch on messages without a key: each goes to a shard.            *)
LEMMA BatchRoutes ==
  ASSUME policy \in Policies, rr \in Shards, NEW msgs \in Seq(Msg)
  PROVE  /\ ShardsOf(msgs, Home[Source]) \in [1..Len(msgs) -> Shards]
         /\ CounterAfter(msgs) \in Shards
<1> DEFINE home == Home[Source]
<1>1. Len(msgs) \in Nat /\ DOMAIN msgs = 1..Len(msgs) /\ \A i \in 1..Len(msgs) : Empty(msgs[i])
  <2>1. \A i \in 1..Len(msgs) : msgs[i] \in Msg
    OBVIOUS
  <2> QED
    BY <2>1 DEF Empty, Msg
<1>2. home \in Int /\ rr \in Int /\ ShardCount \in Nat \ {0}
  BY Given DEF Shards
<1>3. ASSUME NEW a \in Int PROVE a % ShardCount \in Shards
  BY <1>2, <1>3, Remainder DEF Shards
<1> HIDE DEF home
<1>4. ASSUME NEW i \in 1..Len(msgs) PROVE ShardsOf(msgs, home)[i] \in Shards
  <2>1. ShardsOf(msgs, home)[i]
          = IF Empty(msgs[i])
          /\ policy = "round_robin" THEN (rr + EmptyBefore(msgs, i)) % ShardCount
            ELSE RouteToShard(msgs[i].key, home, rr)
    BY <1>1 DEF ShardsOf
  <2>2. CASE policy = "round_robin"
    <3>1. EmptyBefore(msgs, i) \in Nat
      BY <1>1, EmptyBeforeIs
    <3>2. (rr + EmptyBefore(msgs, i)) % ShardCount \in Shards
      BY <1>2, <1>3, <3>1
    <3> QED
      BY <1>1, <2>1, <2>2, <3>2
  <2>3. CASE policy # "round_robin"
    <3>1. RouteToShard(msgs[i].key, home, rr) = home % ShardCount
      BY <1>1, <2>3 DEF RouteToShard, RouteEmpty, Empty
    <3> QED
      BY <1>2, <1>3, <2>1, <2>3, <3>1
  <2> QED
    BY <2>2, <2>3
<1>5. ShardsOf(msgs, home) \in [1..Len(msgs) -> Shards]
  <2>1. ShardsOf(msgs, home) = [i \in 1..Len(msgs) |-> ShardsOf(msgs, home)[i]]
    BY <1>1 DEF ShardsOf
  <2> QED
    BY <1>4, <2>1
<1>6. CounterAfter(msgs) \in Shards
  <2> DEFINE routed == IF ring # <<>> /\ SameKey(msgs) THEN 1 ELSE Len(msgs) - EmptyCount(msgs)
  <2>1. EmptyCount(msgs) \in Nat
    <3>1. Len(msgs) + 1 \in Nat \ {0}
      BY <1>1
    <3> QED
      BY <3>1, EmptyBeforeIs DEF EmptyCount
  <2>2. routed \in Int
    BY <1>1, <2>1
  <2> HIDE DEF routed
  <2>3. (rr + EmptyCount(msgs) + routed) % ShardCount \in Shards
    BY <1>2, <1>3, <2>1, <2>2
  <2> QED
    BY <2>3 DEF CounterAfter, routed
<1> QED
  BY <1>5, <1>6 DEF home

-----------------------------------------------------------------------------
(* What append_batch of the source does to every shard.                     *)
Sends(msgs, shards) ==
  /\ msgs \in Seq(Msg) /\ shards \in [1..Len(msgs) -> Shards]
  /\ started = "up" /\ rr' \in Shards
  /\ UNCHANGED <<policy, started, writer, log>>
  /\ queue' \in [Shards -> Seq(Msg)] /\ inbox' \in [Shards -> Seq(Letter)]
  /\ call' \in [Callers -> Awaiting] /\ call'[Source].pc = "waiting"
  /\ \A s \in Shards :
       LET part == PartFor(msgs, shards, s)
       IN  /\ part \in Seq(Msg) /\ inbox[s] = <<>>
           /\ queue'[s] = IF s = Home[Source] THEN queue[s] \o part ELSE queue[s]
           /\ inbox'[s] = IF s # Home[Source] /\ part # <<>>
                          THEN <<[caller |-> Source, msgs |-> part]>> ELSE <<>>
           /\ part # <<>> => s \in call'[Source].left

(* AppendBatch of the source does this, for some choice of shards.          *)
LEMMA BatchSends ==
  ASSUME EngineOK, NEW msgs \in Seq(Msg), AppendBatch(Source, msgs)
  PROVE  \E shards : Sends(msgs, shards)
<1> DEFINE shards == ShardsOf(msgs, Home[Source])
           home == Home[Source]
           parts == [s \in Shards |-> PartFor(msgs, shards, s)]
           used1 == {s \in Shards : parts[s] # <<>>}
<1>1. shards \in [1..Len(msgs) -> Shards] /\ CounterAfter(msgs) \in Shards /\ home \in Shards
  BY BatchRoutes, Given DEF EngineOK
<1>2. /\ started # "down" /\ call[Source].pc # "waiting" /\ rr' = CounterAfter(msgs)
      /\ queue' = IF Accepts(home) THEN [queue EXCEPT ![home] = @ \o parts[home]] ELSE queue
      /\ inbox' = [s \in Shards |->
                     IF s \in used1 \ {home}
                     THEN Append(inbox[s], [caller |-> Source, msgs |-> parts[s]])
                     ELSE inbox[s]]
      /\ call' = [call EXCEPT ![Source] = [pc |-> "waiting", left |-> used1, bad |-> FALSE]]
      /\ UNCHANGED <<config, started, writer, log>>
  BY DEF AppendBatch, Dispatch
<1>3. started = "up" /\ Accepts(home) /\ \A s \in Shards : inbox[s] = <<>>
  BY <1>1, <1>2 DEF EngineOK, Accepts
<1> HIDE DEF shards
<1>4. ASSUME NEW s \in Shards PROVE PartFor(msgs, shards, s) \in Seq(Msg)
  BY <1>1, PartIs
<1>5. /\ \A s \in Shards : parts[s] = PartFor(msgs, shards, s)
      /\ \A s \in Shards : s \in used1 <=> PartFor(msgs, shards, s) # <<>>
      /\ used1 \in SUBSET Shards
  OBVIOUS
<1> HIDE DEF parts, used1, home
<1>6. /\ queue \in [Shards -> Seq(Msg)] /\ inbox \in [Shards -> Seq(Letter)]
      /\ call \in [Callers -> Awaiting] /\ Source \in Callers
  BY Given DEF EngineOK
<1>7. queue' = [queue EXCEPT ![home] = queue[home] \o parts[home]]
  BY <1>2, <1>3
<1>8. queue' \in [Shards -> Seq(Msg)]
      /\ \A s \in Shards :
           queue'[s] = IF s = home THEN queue[s] \o PartFor(msgs, shards, s) ELSE queue[s]
  <2>1. queue[home] \o parts[home] \in Seq(Msg)
    BY <1>1, <1>4, <1>5, <1>6
  <2> QED
    BY <1>1, <1>5, <1>6, <1>7, <2>1
<1>9. ASSUME NEW s \in Shards
      PROVE  /\ inbox'[s] \in Seq(Letter)
             /\ inbox'[s] = IF s # home /\ PartFor(msgs, shards, s) # <<>>
                            THEN <<[caller |-> Source, msgs |-> PartFor(msgs, shards,
                              s)]>> ELSE <<>>
  <2>1. [caller |-> Source, msgs |-> PartFor(msgs, shards, s)] \in Letter
    BY <1>4, <1>6 DEF Letter
  <2>2. \A x : Append(<<>>, x) = <<x>>
    OBVIOUS
  <2>3. inbox'[s] = IF s # home /\ PartFor(msgs, shards, s) # <<>>
                    THEN <<[caller |-> Source, msgs |-> PartFor(msgs, shards, s)]>> ELSE <<>>
    BY <1>2, <1>3, <1>5, <2>2
  <2> QED
    BY <2>1, <2>3
<1>10. inbox' \in [Shards -> Seq(Letter)]
  <2>1. inbox' = [s \in Shards |-> inbox'[s]]
    BY <1>2
  <2> QED
    BY <1>9, <2>1
<1>11. /\ call' \in [Callers -> Awaiting]
       /\ call'[Source] = [pc |-> "waiting", left |-> used1, bad |-> FALSE]
  <2>1. [pc |-> "waiting", left |-> used1, bad |-> FALSE] \in Awaiting
    BY <1>5 DEF Awaiting
  <2> QED
    BY <1>2, <1>6, <2>1
<1>12. Sends(msgs, shards)
  <2>1. call'[Source].pc = "waiting" /\ call'[Source].left = used1
    BY <1>11
  <2>2. \A s \in Shards :
       LET part == PartFor(msgs, shards, s)
       IN  /\ part \in Seq(Msg) /\ inbox[s] = <<>>
           /\ queue'[s] = IF s = Home[Source] THEN queue[s] \o part ELSE queue[s]
           /\ inbox'[s] = IF s # Home[Source] /\ part # <<>>
                          THEN <<[caller |-> Source, msgs |-> part]>> ELSE <<>>
           /\ part # <<>> => s \in call'[Source].left
    BY <1>3, <1>4, <1>5, <1>8, <1>9, <2>1 DEF home
  <2>3. UNCHANGED <<policy, started, writer, log>> /\ rr' \in Shards
    BY <1>1, <1>2 DEF config
  <2> QED
    BY <1>1, <1>3, <1>8, <1>10, <1>11, <2>1, <2>2, <2>3 DEF Sends
<1> QED
  BY <1>12

(* A letter is run on its shard, which is up.                               *)
Delivers(s) ==
  /\ Len(inbox[s]) = 1 /\ inbox[s][1] \in Letter
  /\ inbox' = [inbox EXCEPT ![s] = <<>>]
  /\ queue' = [queue EXCEPT ![s] = queue[s] \o inbox[s][1].msgs]
  /\ UNCHANGED <<config, rr, started, writer, log, call>>

(* Deliver moves the shard's only letter to its queue.                      *)
LEMMA DeliverIs ==
  ASSUME EngineOK, NEW s \in Shards, Deliver(s)
  PROVE  Delivers(s)
<1>1. inbox[s] # <<>> /\ inbox[s] \in Seq(Letter) /\ Len(inbox[s]) <= 1 /\ started = "up"
      /\ writer[s] = "up"
  BY DEF EngineOK, Deliver
<1> DEFINE q == inbox[s]
<1>2. Len(q) = 1 /\ Head(q) = q[1] /\ q[1] \in Letter /\ Tail(q) = <<>>
  <2> HIDE DEF q
  <2>1. q \in Seq(Letter) /\ q # <<>> /\ Len(q) <= 1
    BY <1>1 DEF q
  <2>2. Len(q) = 1
    BY <2>1
  <2>3. Tail(q) \in Seq(Letter) /\ Len(Tail(q)) = 0
    BY <2>1, <2>2
  <2>4. Tail(q) = <<>>
    <3>1. PICK r : r = Tail(q)
      OBVIOUS
    <3>2. r \in Seq(Letter) /\ Len(r) = 0
      BY <2>3, <3>1
    <3>3. r = <<>>
      BY ONLY <3>2
    <3> QED
      BY <3>1, <3>3
  <2> QED
    BY <2>1, <2>2, <2>4
<1>3. Accepts(s)
  BY <1>1 DEF Accepts
<1> QED
  BY <1>1, <1>2, <1>3 DEF Deliver, Delivers

(* A shard's answer reaches the call.                                       *)
Answers(s) ==
  /\ inbox[s] = <<>> /\ call[Source].pc = "waiting" /\ call' \in [Callers -> Awaiting]
  /\ call'[Source].left = call[Source].left \ {s}
  /\ call'[Source].pc \in {"waiting", "ok", "failed"}
  /\ call'[Source].pc = "waiting" <=> call'[Source].left # {}
  /\ UNCHANGED <<config, rr, started, writer, inbox, queue, log>>

(* Answer counts the shard as answered.                                     *)
LEMMA AnswerIs ==
  ASSUME EngineOK, NEW s \in Shards, NEW failed \in BOOLEAN, Answer(Source, s, failed)
  PROVE  Answers(s)
<1>1. /\ s \in call[Source].left /\ \A i \in DOMAIN inbox[s] : inbox[s][i].caller # Source
      /\ call' = [call EXCEPT ![Source] = Answered(Source, s, failed)]
      /\ UNCHANGED <<config, rr, started, writer, inbox, queue, log>>
  BY DEF Answer
<1>2. /\ inbox[s] \in Seq(Letter) /\ call \in [Callers -> Awaiting] /\ call[Source] \in Awaiting
      /\ Callers = {Source}
  BY Given DEF EngineOK
<1>3. inbox[s] = <<>>
  <2>1. PICK r : r = inbox[s]
    OBVIOUS
  <2>2. r \in Seq(Letter) /\ \A i \in DOMAIN r : r[i].caller # Source
    BY <1>1, <1>2, <2>1
  <2>3. \A i \in DOMAIN r : r[i] \in Letter
    BY ONLY <2>2
  <2>4. DOMAIN r = {}
    BY <1>2, <2>2, <2>3 DEF Letter
  <2>5. r = <<>>
    BY ONLY <2>2, <2>4
  <2> QED
    BY <2>1, <2>5
<1> DEFINE left == call[Source].left \ {s}
           bad == call[Source].bad \/ failed
           pc == IF left # {} THEN "waiting" ELSE IF bad THEN "failed" ELSE "ok"
<1>4. left \in SUBSET Shards /\ bad \in BOOLEAN /\ pc \in {"waiting", "ok", "failed"}
      /\ (pc = "waiting" <=> left # {})
  BY <1>2 DEF Awaiting
<1>5. Answered(Source, s, failed) = [pc |-> pc, left |-> left, bad |-> bad]
  BY DEF Answered
<1>6. call[Source].pc = "waiting"
  BY <1>1 DEF EngineOK
<1> HIDE DEF left, bad, pc
<1>7. Answered(Source, s, failed) \in Awaiting
  BY <1>4, <1>5 DEF Awaiting
<1>8. call' \in [Callers -> Awaiting] /\ call'[Source] = [pc |-> pc, left |-> left, bad |-> bad]
  BY <1>1, <1>2, <1>5, <1>7
<1> QED
  BY <1>1, <1>3, <1>4, <1>6, <1>8 DEF Answers, left

(* A flush writes all that is queued.                                       *)
Flushes(s) ==
  /\ log' = [log EXCEPT ![s] = log[s] \o queue[s]]
  /\ queue' = [queue EXCEPT ![s] = <<>>]
  /\ UNCHANGED <<config, rr, started, writer, inbox, call>>

(* A flush of the whole queue writes all of it to the log.                  *)
LEMMA FlushIs ==
  ASSUME EngineOK, NEW s \in Shards, Flush(s, Len(queue[s]))
  PROVE  Flushes(s)
<1> DEFINE q == queue[s]
<1>1. q \in Seq(Msg)
  BY DEF EngineOK
<1>2. /\ log' = [log EXCEPT ![s] = log[s] \o SubSeq(q, 1, Len(q))]
      /\ queue' = [queue EXCEPT ![s] = SubSeq(q, Len(q) + 1, Len(q))]
      /\ UNCHANGED <<config, rr, started, writer, inbox, call>>
  BY DEF Flush
<1>3. SubSeq(q, 1, Len(q)) = q /\ SubSeq(q, Len(q) + 1, Len(q)) = <<>>
  <2> HIDE DEF q
  <2>1. Len(q) \in Nat
    BY <1>1
  <2> QED
    BY <1>1, <2>1
<1> QED
  BY <1>2, <1>3 DEF Flushes

-----------------------------------------------------------------------------
(* A run of cells from behind the first a ones.                             *)
LEMMA SubSeqIs ==
  ASSUME NEW cells \in Seq(Cell), NEW a \in Nat, NEW b \in Nat, b <= Len(cells)
  PROVE  LET sub == SubSeq(cells, a + 1, b)
         IN  /\ sub \in Seq(Cell) /\ (Len(sub) # 0 => Len(sub) = b - a)
             /\ \A i \in 1..Len(sub) : sub[i] = cells[a + i]
<1> DEFINE sub == SubSeq(cells, a + 1, b)
<1>1. Len(cells) \in Nat /\ \A i \in 1..Len(cells) : cells[i] \in Cell
  OBVIOUS
<1>2. \A i \in (a + 1)..b : cells[i] \in Cell
  BY <1>1
<1>3. a + 1 \in Int /\ b \in Int
  OBVIOUS
<1>4. /\ sub \in Seq(Cell)
      /\ Len(sub) = IF a + 1 <= b THEN b - (a + 1) + 1 ELSE 0
      /\ \A i \in 1..(b - (a + 1) + 1) : sub[i] = cells[(a + 1) + i - 1]
  BY ONLY <1>2, <1>3, SubSeqProperties
<1> HIDE DEF sub
<1>5. \A i \in 1..Len(sub) : i \in 1..(b - (a + 1) + 1) /\ (a + 1) + i - 1 = a + i
  BY <1>4
<1>6. Len(sub) # 0 => Len(sub) = b - a
  BY <1>4
<1> QED
  BY <1>4, <1>5, <1>6 DEF sub

(* Lines of a part of the file are lines of the file.                       *)
LEMMA LinesShift ==
  ASSUME NEW cells \in Seq(Cell), NEW a \in Nat, NEW b \in Nat, b <= Len(cells), NEW sub,
         sub = SubSeq(cells, a + 1, b), NEW lines, NEW F, LinesIn(lines, sub, 0, F)
  PROVE  LinesIn(lines, cells, a, F)
<1>1. /\ sub \in Seq(Cell) /\ Len(sub) \in Nat /\ (Len(sub) # 0 => Len(sub) = b - a)
      /\ \A i \in 1..Len(sub) : sub[i] = cells[a + i]
  <2>1. /\ sub \in Seq(Cell) /\ (Len(sub) # 0 => Len(sub) = b - a)
        /\ \A i \in 1..Len(sub) : sub[i] = cells[a + i]
    BY SubSeqIs
  <2> QED
    BY <2>1
<1>2. 0 \in Nat
  OBVIOUS
<1>3. /\ Len(lines) \in Nat
      /\ \A n \in 0..Len(lines) : F[n] \in Nat
      /\ \A n \in 1..Len(lines) :
           /\ Len(lines[n]) \in Nat /\ F[n] = F[n - 1] + Len(lines[n]) + 1
           /\ 0 + F[n] <= Len(sub) /\ sub[0 + F[n]] = NL
           /\ \A j \in 1..Len(lines[n]) : lines[n][j] = sub[0 + F[n - 1] + j] /\ lines[n][j] # NL
  <2>1. PICK z : z = 0
    OBVIOUS
  <2>2. z \in Nat /\ LinesIn(lines, sub, z, F)
    BY <2>1
  <2>3. /\ Len(lines) \in Nat
        /\ \A n \in 0..Len(lines) : F[n] \in Nat
        /\ \A n \in 1..Len(lines) :
             /\ Len(lines[n]) \in Nat /\ F[n] = F[n - 1] + Len(lines[n]) + 1
             /\ z + F[n] <= Len(sub) /\ sub[z + F[n]] = NL
             /\ \A j \in 1..Len(lines[n]) :
                  lines[n][j] = sub[z + F[n - 1] + j] /\ lines[n][j] # NL
    BY ONLY <1>1, <2>2, LinesInFacts
  <2> QED
    BY <2>1, <2>3
<1>4. ASSUME NEW n \in 1..Len(lines)
      PROVE  /\ a + F[n] <= Len(cells) /\ cells[a + F[n]] = NL
             /\ \A j \in 1..Len(lines[n]) :
                  lines[n][j] = cells[a + F[n - 1] + j] /\ lines[n][j] # NL
  <2>1. PICK x, z, l : x = F[n - 1] /\ z = F[n] /\ l = Len(lines[n])
    OBVIOUS
  <2>2. n - 1 \in 0..Len(lines) /\ n \in 0..Len(lines)
    BY <1>3
  <2>3. x \in Nat /\ z \in Nat /\ l \in Nat /\ z = x + l + 1 /\ 0 + z <= Len(sub) /\ sub[0 + z] = NL
        /\ \A j \in 1..l : lines[n][j] = sub[0 + x + j] /\ lines[n][j] # NL
    BY <1>3, <2>1, <2>2
  <2>4. z \in 1..Len(sub) /\ 0 + z = z /\ Len(sub) = b - a
    BY <1>1, <2>3
  <2>5. a + z <= Len(cells) /\ cells[a + z] = NL
    <3>1. Len(cells) \in Nat
      OBVIOUS
    <3> QED
      BY <1>1, <2>3, <2>4, <3>1
  <2>6. ASSUME NEW j \in 1..l PROVE lines[n][j] = cells[a + x + j] /\ lines[n][j] # NL
    <3>1. 0 + x + j \in 1..Len(sub) /\ a + (0 + x + j) = a + x + j
      <4>1. x \in Nat /\ l \in Nat /\ z = x + l + 1 /\ z <= Len(sub) /\ Len(sub) \in Nat
        BY <1>1, <2>3, <2>4
      <4> QED
        BY <4>1
    <3>2. sub[0 + x + j] = cells[a + (0 + x + j)]
      BY <1>1, <3>1
    <3> QED
      BY <2>3, <3>1, <3>2
  <2> QED
    BY <2>1, <2>5, <2>6
<1> QED
  BY <1>4 DEF LinesIn

(* The path of this turn, and what is left of the pass.                     *)
LEMMA TurnFacts ==
  ASSUME LoopOK
  PROVE  /\ src \in Turn /\ src.pc \in {"idle", "stat", "size", "read", "append", "wait", "store"}
         /\ src.todo \in Seq(PathSet) /\ src.inode \in Nat /\ src.start \in Nat /\ src.size \in Nat
         /\ src.lines \in Seq(Seq(Cell)) /\ src.next \in Place
         /\ src.pc # "idle" => Path \in PathSet
         /\ IsOffset(src.next) /\ Idle \in Turn /\ Onward \in Turn
         /\ Idle.pc = "idle" /\ Idle.todo = <<>> /\ Idle.next = Nowhere /\ Idle.lines = <<>>
         /\ Onward.pc \in {"idle", "stat"} /\ Onward.next = Nowhere
         /\ Onward.pc # "idle" => Onward.todo # <<>>
<1>1. src \in Turn /\ src.todo \in Seq(PathSet)
  BY DEF LoopOK, Turn
<1>2. src.pc # "idle" => Path \in PathSet
  BY <1>1 DEF LoopOK, Path
<1>3. /\ Idle \in Turn /\ Idle.pc = "idle" /\ Idle.todo = <<>> /\ Idle.next = Nowhere
      /\ Idle.lines = <<>>
  <2>1. Nowhere \in Place
    BY DEF Nowhere, Place
  <2>2. <<>> \in Seq(PathSet) /\ <<>> \in Seq(Seq(Cell))
    OBVIOUS
  <2> QED
    BY <2>1, <2>2 DEF Idle, Turn
<1>4. CASE Len(src.todo) > 1
  <2> DEFINE q == src.todo
  <2> HIDE DEF q
  <2>1. q \in Seq(PathSet) /\ Len(q) > 1
    BY <1>1, <1>4 DEF q
  <2>2. Tail(q) \in Seq(PathSet) /\ Len(Tail(q)) # 0
    BY <2>1
  <2>3. Tail(q) # <<>>
    <3>1. Len(<<>>) = 0
      OBVIOUS
    <3> QED
      BY ONLY <2>2, <3>1
  <2>4. Onward = [Idle EXCEPT !.pc = "stat", !.todo = Tail(q)]
    BY <1>4 DEF Onward, q
  <2>5. Onward \in Turn /\ Onward.pc = "stat" /\ Onward.todo = Tail(q) /\ Onward.next = Nowhere
    BY <1>3, <2>2, <2>4 DEF Turn
  <2> QED
    BY <1>1, <1>2, <1>3, <2>3, <2>5 DEF LoopOK, Turn
<1>5. CASE ~(Len(src.todo) > 1)
  <2>1. Onward = Idle
    BY <1>5 DEF Onward
  <2> QED
    BY <1>1, <1>2, <1>3, <2>1 DEF LoopOK, Turn
<1> QED
  BY <1>4, <1>5

(* No offset is known at first.                                             *)
LEMMA NowhereIs ==
  ASSUME FilesOK
  PROVE  IsOffset(Nowhere) /\ Nowhere.gen = 0 /\ Nowhere.offset = 0
<1>1. Len(contents) \in Nat
  BY DEF FilesOK
<1> QED
  BY <1>1 DEF IsOffset, Nowhere, Place

(* The file at a path.                                                      *)
LEMMA FileFacts ==
  ASSUME FilesOK, NEW p \in PathSet, file[p] # Absent
  PROVE  /\ file[p].gen \in 1..Len(contents) /\ Len(contents) \in Nat /\ file[p].inode \in Nat
         /\ DOMAIN contents = 1..Len(contents) /\ file[p].gen # Mixed
         /\ CellsAt(p) = contents[file[p].gen].cells /\ CellsAt(p) \in Seq(Cell)
         /\ Len(CellsAt(p)) \in Nat
<1>1. /\ contents \in Seq(Generation) /\ file[p].gen \in DOMAIN contents
      /\ file[p] \in [inode : Nat, gen : Nat]
  BY DEF FilesOK
<1>2. contents[file[p].gen] \in Generation
  BY <1>1
<1>3. CellsAt(p) \in Seq(Cell)
  BY <1>2 DEF CellsAt, Generation
<1>4. file[p].gen \in Nat /\ DOMAIN contents = 1..Len(contents) /\ Len(contents) \in Nat
  BY <1>1
<1> QED
  BY <1>1, <1>3, <1>4 DEF CellsAt, Mixed

(* A turn that reads.                                                       *)
LEMMA ReadIs ==
  ASSUME FilesOK, LoopOK, Read, file[Path] # Absent
  PROVE  \E lines, F, gen :
           /\ gen = IF src.start = 0 \/ offsets[Path].gen = file[Path].gen
                    THEN file[Path].gen ELSE Mixed
           /\ LinesIn(lines, CellsAt(Path), src.start, F) /\ Size(lines) = F[Len(lines)]
           /\ Size(lines) \in Nat /\ lines \in Seq(Seq(Cell))
           /\ excused' = (excused \/ gen = Mixed \/ src.inode # file[Path].inode)
           /\ IF lines = <<>> THEN KeepOffset(src.start, gen)
              ELSE /\ src' = [src EXCEPT !.pc = "append", !.lines = lines,
                                         !.next = [inode |-> src.inode,
                                                   offset |-> src.start + Size(lines), gen |-> gen]]
                   /\ UNCHANGED offsets
<1> DEFINE b == Min({src.size, Len(CellsAt(Path))})
           sub == SubSeq(CellsAt(Path), src.start + 1, b)
           lines == Lines(sub, SourceMaxLines)
           gen == IF src.start = 0
           \/ offsets[Path].gen = file[Path].gen THEN file[Path].gen ELSE Mixed
<1>1. src.pc = "read" /\ src.start \in Nat /\ src.size \in Nat /\ Path \in PathSet
  BY TurnFacts DEF Read
<1>2. CellsAt(Path) \in Seq(Cell) /\ Len(CellsAt(Path)) \in Nat
  BY <1>1, FileFacts
<1>3. b \in Nat /\ b <= Len(CellsAt(Path))
  BY <1>1, <1>2, MinOfTwo
<1>4. sub \in Seq(Cell)
  BY <1>1, <1>2, <1>3, SubSeqIs
<1>5. PICK F : LinesIn(lines, sub, 0, F) /\ Size(lines) = F[Len(lines)]
  BY <1>4, Given, LinesRead
<1>6. LinesIn(lines, CellsAt(Path), src.start, F)
  BY <1>1, <1>2, <1>3, <1>5, LinesShift
<1>7. lines \in Seq(Seq(Cell)) /\ Size(lines) \in Nat
  <2>1. lines \in Seq(Seq(Cell)) /\ Sums(F, lines)
    BY <1>6 DEF LinesIn
  <2> HIDE DEF lines
  <2>2. F \in [0..Len(lines) -> Nat] /\ Len(lines) \in Nat
    BY <2>1 DEF Sums
  <2>3. F[Len(lines)] \in Nat
    BY <2>2
  <2> QED
    BY <1>5, <2>1, <2>3
<1>8. /\ excused' = (excused \/ gen = Mixed \/ src.inode # file[Path].inode)
      /\ IF lines = <<>> THEN KeepOffset(src.start, gen)
         ELSE /\ src' = [src EXCEPT !.pc = "append", !.lines = lines,
                                    !.next = [inode |-> src.inode,
                                              offset |-> src.start + Size(lines), gen |-> gen]]
              /\ UNCHANGED offsets
  BY DEF Read
<1> HIDE DEF lines, gen
<1> QED
  BY <1>5, <1>6, <1>7, <1>8 DEF gen

-----------------------------------------------------------------------------
(* A step of the loop leaves the engine and the files alone.                *)
LEMMA LoopKeeps ==
  ASSUME Basics, UNCHANGED <<engineVars, options, contents, file>>, started = "up",
         offsets' \in [PathSet -> Place], stored' \in [PathSet -> Place],
         \A p \in PathSet : IsOffset(offsets'[p]) /\ IsOffset(stored'[p]),
         src' \in Turn, IsOffset(src'.next), src'.pc # "idle" => src'.todo # <<>>,
         used' \in [cells : Nat, changes : Nat, mishaps : Nat, pressure : Nat]
  PROVE  Basics'
<1>1. FilesOK'
  BY DEF Basics, FilesOK
<1>2. LoopOK'
  BY DEF Basics, LoopOK, OptionsOK, IsOffset
<1>3. EngineOK'
  BY DEF Basics, EngineOK, engineVars, config
<1> QED
  BY <1>1, <1>2, <1>3 DEF Basics

(* The loop runs in a process that is up.                                   *)
LEMMA LoopUp ==
  ASSUME Basics, src.pc # "idle"
  PROVE  started = "up"
BY DEF Basics, EngineOK, Idle

(* The loop's steps keep the first layer: a poll lists the paths.           *)
LEMMA PollBasics ==
  ASSUME Basics, Poll
  PROVE  Basics'
<1>1. PICK set : set = {i \in DOMAIN Paths : Paths[i] \in Fixed \/ file[Paths[i]] # Absent}
  OBVIOUS
<1>2. PICK paths : paths = Chosen(Paths, set)
  OBVIOUS
<1>3. src' = IF paths = <<>> THEN Idle ELSE [Idle EXCEPT !.pc = "stat", !.todo = paths]
  <2>1. src' = IF Chosen(Paths, set) = <<>> THEN Idle
               ELSE [Idle EXCEPT !.pc = "stat", !.todo = Chosen(Paths, set)]
    BY ONLY <1>1, Poll, Zenon DEF Poll
  <2> QED
    BY ONLY <1>2, <2>1
<1>4. started = "up" /\ UNCHANGED <<Rest, offsets, stored, used>>
  BY DEF Poll
<1>5. paths \in Seq(PathSet)
  <2>1. set \in SUBSET (1..Len(Paths)) /\ Paths \in Seq(PathSet)
    BY ONLY <1>1, Given
  <2> QED
    BY ONLY <1>2, <2>1, ChosenIs
<1>6. Idle \in Turn /\ Idle.pc = "idle" /\ Idle.todo = <<>> /\ Idle.next = Nowhere
      /\ IsOffset(Nowhere)
  BY TurnFacts, NowhereIs DEF Basics
<1>7. src' \in Turn /\ src'.next = Nowhere /\ (src'.pc # "idle" => src'.todo # <<>>)
  <2>1. CASE paths = <<>>
    BY ONLY <1>3, <1>6, <2>1
  <2>2. CASE paths # <<>>
    <3>1. src' = [Idle EXCEPT !.pc = "stat", !.todo = paths]
      BY ONLY <1>3, <2>2
    <3>2. src' \in Turn /\ src'.next = Idle.next /\ src'.todo = paths
      BY ONLY <1>5, <1>6, <3>1 DEF Turn
    <3> QED
      BY ONLY <1>6, <2>2, <3>2
  <2> QED
    BY ONLY <2>1, <2>2
<1> QED
  BY <1>4, <1>6, <1>7, LoopKeeps DEF Rest, Basics, LoopOK

(* What the steps of the loop leave alone.                                  *)
LEMMA LoopFacts ==
  ASSUME Basics
  PROVE  /\ offsets \in [PathSet -> Place] /\ stored \in [PathSet -> Place]
         /\ \A p \in PathSet : IsOffset(offsets[p]) /\ IsOffset(stored[p])
         /\ used \in [cells : Nat, changes : Nat, mishaps : Nat, pressure : Nat]
         /\ FilesOK /\ LoopOK /\ EngineOK
         /\ \A p \in PathSet, o \in Place : [offsets EXCEPT ![p] = o] \in [PathSet -> Place]
              /\ [stored EXCEPT ![p] = o] \in [PathSet -> Place]
BY DEF Basics, LoopOK

(* Onward and Idle are places the loop can go to.                           *)
LEMMA AwayOK ==
  ASSUME Basics, src' \in {Idle, Onward}
  PROVE  src' \in Turn /\ IsOffset(src'.next) /\ (src'.pc # "idle" => src'.todo # <<>>)
BY TurnFacts, NowhereIs, LoopFacts

(* A stat of the file, which an absent file ends.                           *)
LEMMA StatBasics ==
  ASSUME Basics, Stat
  PROVE  Basics'
<1>1. src.pc = "stat" /\ Path \in PathSet /\ started = "up" /\ src \in Turn /\ IsOffset(src.next)
      /\ src.todo # <<>>
  BY TurnFacts, LoopFacts, LoopUp DEF Stat, LoopOK
<1>2. /\ offsets' = IF offsets[Path]
           = Nowhere THEN [offsets EXCEPT ![Path] = stored[Path]] ELSE offsets
      /\ IF file[Path] = Absent THEN src' = Idle
         ELSE src' = [src EXCEPT !.pc = "size", !.inode = file[Path].inode]
      /\ UNCHANGED <<Rest, stored, used>>
  BY DEF Stat, Failed
<1>3. offsets' \in [PathSet -> Place] /\ \A p \in PathSet : IsOffset(offsets'[p])
  BY <1>1, <1>2, LoopFacts
<1>4. src' \in Turn /\ IsOffset(src'.next) /\ (src'.pc # "idle" => src'.todo # <<>>)
  <2>1. CASE file[Path] = Absent
    BY <1>2, <2>1, AwayOK
  <2>2. CASE file[Path] # Absent
    <3>1. file[Path].inode \in Nat
      BY <1>1, <2>2, FileFacts, LoopFacts
    <3>2. src' = [src EXCEPT !.pc = "size", !.inode = file[Path].inode]
      BY <1>2, <2>2
    <3>3. src' \in Turn /\ src'.next = src.next /\ src'.todo = src.todo
      BY <1>1, <3>1, <3>2 DEF Turn
    <3> QED
      BY <1>1, <3>3
  <2> QED
    BY <2>1, <2>2
<1> QED
  BY <1>1, <1>2, <1>3, <1>4, LoopFacts, LoopKeeps DEF Rest

(* The offset of a turn that found nothing.                                 *)
LEMMA KeepBasics ==
  ASSUME Basics, src.pc # "idle", NEW start \in Nat, NEW gen \in {Mixed} \cup 0..Len(contents),
         KeepOffset(start, gen), UNCHANGED <<Rest, stored, used>>
  PROVE  Basics'
<1> DEFINE o == [inode |-> src.inode, offset |-> start, gen |-> gen]
<1>1. Path \in PathSet /\ started = "up" /\ src.inode \in Nat
  BY TurnFacts, LoopFacts, LoopUp
<1>2. o \in Place /\ IsOffset(o)
  <2>1. gen \in Int
    BY LoopFacts DEF Mixed, FilesOK
  <2> QED
    BY <1>1, <2>1 DEF Place, IsOffset
<1> HIDE DEF o
<1>3. offsets' = [offsets EXCEPT ![Path] = o] /\ src' = Onward
  BY DEF KeepOffset, o
<1>4. offsets' \in [PathSet -> Place] /\ \A p \in PathSet : IsOffset(offsets'[p])
  BY <1>1, <1>2, <1>3, LoopFacts
<1>5. src' \in Turn /\ IsOffset(src'.next) /\ (src'.pc # "idle" => src'.todo # <<>>)
  BY <1>3, AwayOK
<1> QED
  BY <1>1, <1>4, <1>5, LoopFacts, LoopKeeps DEF Rest

(* The size, and the offset the read starts from.                           *)
LEMMA SizeBasics ==
  ASSUME Basics, FileSize
  PROVE  Basics'
<1> DEFINE size == Len(CellsAt(Path))
           start == IF Resumes(offsets[Path], size) THEN offsets[Path].offset ELSE 0
<1>1. src.pc = "size" /\ Path \in PathSet /\ started = "up" /\ src \in Turn /\ IsOffset(src.next)
      /\ src.todo # <<>>
  BY TurnFacts, LoopFacts, LoopUp DEF FileSize, LoopOK
<1>2. /\ IF file[Path] = Absent THEN src' = Idle /\ UNCHANGED offsets
         ELSE IF start >= size
         THEN KeepOffset(start, IF start = 0 THEN 0 ELSE offsets[Path].gen)
         ELSE /\ src' = [src EXCEPT !.pc = "read", !.start = start, !.size = size]
              /\ UNCHANGED offsets
      /\ UNCHANGED <<Rest, stored, used>>
  BY DEF FileSize, Failed
<1>3. start \in Nat
  BY <1>1, LoopFacts DEF IsOffset, Place
<1>4. CASE file[Path] = Absent
  <2>1. src' \in Turn /\ IsOffset(src'.next) /\ (src'.pc # "idle" => src'.todo # <<>>)
    BY <1>2, <1>4, AwayOK
  <2> QED
    BY <1>1, <1>2, <1>4, <2>1, LoopFacts, LoopKeeps DEF Rest
<1>5. CASE file[Path] # Absent
  <2>1. size \in Nat
    BY <1>1, <1>5, FileFacts, LoopFacts
  <2> HIDE DEF size, start
  <2>2. CASE start >= size
    <3> DEFINE gen == IF start = 0 THEN 0 ELSE offsets[Path].gen
    <3>1. gen \in {Mixed} \cup 0..Len(contents)
      <4>1. Len(contents) \in Nat
        BY LoopFacts DEF FilesOK
      <4>2. offsets[Path].gen \in {Mixed} \cup 0..Len(contents)
        BY <1>1, LoopFacts DEF IsOffset
      <4> QED
        BY <4>1, <4>2
    <3>2. KeepOffset(start, gen)
      BY <1>2, <1>5, <2>2
    <3> HIDE DEF gen
    <3> QED
      BY <1>1, <1>2, <1>3, <3>1, <3>2, KeepBasics
  <2>3. CASE ~(start >= size)
    <3>1. src' = [src EXCEPT !.pc = "read", !.start = start, !.size = size] /\ offsets' = offsets
      BY <1>2, <1>5, <2>3
    <3>2. src' \in Turn /\ src'.next = src.next /\ src'.todo = src.todo
      BY <1>1, <1>3, <2>1, <3>1 DEF Turn
    <3> QED
      BY <1>1, <1>2, <3>1, <3>2, LoopFacts, LoopKeeps DEF Rest
  <2> QED
    BY <2>2, <2>3
<1> QED
  BY <1>4, <1>5

(* A read of whole lines, and the offset to come.                           *)
LEMMA ReadBasics ==
  ASSUME Basics, Read
  PROVE  Basics'
<1>1. src.pc = "read" /\ Path \in PathSet /\ started = "up" /\ src \in Turn /\ IsOffset(src.next)
      /\ src.todo # <<>> /\ src.inode \in Nat /\ src.start \in Nat
  BY TurnFacts, LoopFacts, LoopUp DEF Read, LoopOK
<1>2. UNCHANGED <<Rest, stored, used>>
  BY DEF Read
<1>3. CASE file[Path] = Absent
  <2>1. src' = Idle /\ offsets' = offsets
    BY <1>3 DEF Read, Failed
  <2>2. src' \in Turn /\ IsOffset(src'.next) /\ (src'.pc # "idle" => src'.todo # <<>>)
    BY <2>1, AwayOK
  <2> QED
    BY <1>1, <1>2, <2>1, <2>2, LoopFacts, LoopKeeps DEF Rest
<1>4. CASE file[Path] # Absent
  <2>1. PICK lines, F, gen :
           /\ gen = IF src.start = 0 \/ offsets[Path].gen = file[Path].gen
                    THEN file[Path].gen ELSE Mixed
           /\ Size(lines) \in Nat /\ lines \in Seq(Seq(Cell))
           /\ IF lines = <<>> THEN KeepOffset(src.start, gen)
              ELSE /\ src' = [src EXCEPT !.pc = "append", !.lines = lines,
                                         !.next = [inode |-> src.inode,
                                                   offset |-> src.start + Size(lines), gen |-> gen]]
                   /\ UNCHANGED offsets
    BY <1>4, ReadIs, LoopFacts
  <2>2. gen \in {Mixed} \cup 0..Len(contents)
    <3>1. file[Path].gen \in 1..Len(contents) /\ Len(contents) \in Nat
      BY <1>1, <1>4, FileFacts, LoopFacts
    <3> QED
      BY <2>1, <3>1
  <2>3. CASE lines = <<>>
    BY <1>1, <1>2, <2>1, <2>2, <2>3, KeepBasics
  <2>4. CASE lines # <<>>
    <3> DEFINE o == [inode |-> src.inode, offset |-> src.start + Size(lines), gen |-> gen]
    <3>1. o \in Place /\ IsOffset(o)
      <4>1. gen \in Int
        BY <2>2, LoopFacts DEF Mixed, FilesOK
      <4>2. src.start + Size(lines) \in Nat
        BY <1>1, <2>1
      <4> QED
        BY <1>1, <2>2, <4>1, <4>2 DEF Place, IsOffset
    <3>2. src' = [src EXCEPT !.pc = "append", !.lines = lines, !.next = o] /\ offsets' = offsets
      BY <2>1, <2>4
    <3> HIDE DEF o
    <3>3. src' \in Turn /\ src'.next = o /\ src'.todo = src.todo
      BY <1>1, <2>1, <3>1, <3>2 DEF Turn
    <3> QED
      BY <1>1, <1>2, <3>1, <3>2, <3>3, LoopFacts, LoopKeeps DEF Rest
  <2> QED
    BY <2>3, <2>4
<1> QED
  BY <1>3, <1>4

(* The answer of the engine.                                                *)
LEMMA AppendedBasics ==
  ASSUME Basics, Appended
  PROVE  Basics'
<1>1. src.pc = "wait" /\ Path \in PathSet /\ started = "up" /\ src \in Turn /\ IsOffset(src.next)
      /\ src.todo # <<>>
  BY TurnFacts, LoopFacts, LoopUp DEF Appended, LoopOK
<1>2. /\ src' = Idle \/ src' = [src EXCEPT !.pc = "store"]
      /\ UNCHANGED <<Rest, offsets, stored, used>>
  BY DEF Appended, Failed
<1>3. src' \in Turn /\ IsOffset(src'.next) /\ (src'.pc # "idle" => src'.todo # <<>>)
  <2>1. CASE src' = Idle
    BY <2>1, AwayOK
  <2>2. CASE src' = [src EXCEPT !.pc = "store"]
    <3>1. src' \in Turn /\ src'.next = src.next /\ src'.todo = src.todo
      BY <1>1, <2>2 DEF Turn
    <3> QED
      BY <1>1, <3>1
  <2> QED
    BY <1>2, <2>1, <2>2
<1> QED
  BY <1>1, <1>2, <1>3, LoopFacts, LoopKeeps DEF Rest

(* The offset is written, or its write fails.                               *)
LEMMA StoreBasics ==
  ASSUME Basics, NEW fails \in BOOLEAN, Store(fails)
  PROVE  Basics'
<1>1. src.pc = "store" /\ Path \in PathSet /\ started = "up" /\ src \in Turn /\ IsOffset(src.next)
      /\ src.next \in Place
  BY TurnFacts, LoopFacts, LoopUp DEF Store, LoopOK
<1>2. /\ src' \in {Idle, Onward}
      /\ offsets' = offsets \/ offsets' = [offsets EXCEPT ![Path] = src.next]
      /\ stored' = stored \/ stored' = [stored EXCEPT ![Path] = src.next]
      /\ used' = used \/ used' = [used EXCEPT !["mishaps"] = @ + 1]
      /\ UNCHANGED Rest
  BY DEF Store, Failed, Use
<1>3. src' \in Turn /\ IsOffset(src'.next) /\ (src'.pc # "idle" => src'.todo # <<>>)
  BY <1>2, AwayOK
<1>4. /\ offsets' \in [PathSet -> Place] /\ stored' \in [PathSet -> Place]
      /\ \A p \in PathSet : IsOffset(offsets'[p]) /\ IsOffset(stored'[p])
  BY <1>1, <1>2, LoopFacts
<1>5. used' \in [cells : Nat, changes : Nat, mishaps : Nat, pressure : Nat]
  <2>1. used \in [cells : Nat, changes : Nat, mishaps : Nat, pressure : Nat]
    BY LoopFacts
  <2> QED
    BY <1>2, <2>1
<1> QED
  BY <1>1, <1>2, <1>3, <1>4, <1>5, LoopKeeps DEF Rest

-----------------------------------------------------------------------------
(* The other programs.                                                      *)
LEMMA GrownBasics ==
  ASSUME Basics, Grown, used' \in [cells : Nat, changes : Nat, mishaps : Nat, pressure : Nat]
  PROVE  Basics'
<1>1. contents \in Seq(Generation) /\ contents' \in Seq(Generation)
      /\ Len(contents) \in Nat /\ Len(contents') \in Nat /\ Len(contents) <= Len(contents')
      /\ DOMAIN contents = 1..Len(contents) /\ DOMAIN contents' = 1..Len(contents')
  BY DEF Basics, FilesOK, Grown
<1>2. FilesOK'
  <2>1. ASSUME NEW p \in PathSet, file'[p] # Absent PROVE file'[p].gen \in 1..Len(contents')
    <3>1. CASE file'[p] = file[p]
      <4>1. file[p].gen \in 1..Len(contents)
        BY <1>1, <2>1, <3>1 DEF Basics, FilesOK
      <4> QED
        BY <1>1, <3>1, <4>1
    <3>2. CASE file'[p].gen = Len(contents) + 1 /\ Len(contents') = Len(contents) + 1
      BY <1>1, <3>2
    <3> QED
      BY <2>1, <3>1, <3>2 DEF Grown
  <2> QED
    BY <1>1, <2>1 DEF FilesOK, Grown
<1>3. ASSUME NEW o, IsOffset(o) PROVE IsOffset(o)'
  BY <1>1, <1>3 DEF IsOffset
<1>4. LoopOK'
  <2>1. UNCHANGED <<options, offsets, stored, src>>
    BY DEF Grown
  <2> QED
    BY <1>3, <2>1 DEF Basics, LoopOK, OptionsOK
<1>5. EngineOK'
  BY DEF Basics, EngineOK, Grown, engineVars, config
<1> QED
  BY <1>2, <1>4, <1>5 DEF Basics

(* Their steps keep the count of what is used up.                           *)
LEMMA WorldUsed ==
  ASSUME used \in [cells : Nat, changes : Nat, mishaps : Nat, pressure : Nat], WorldStep
  PROVE  used' \in [cells : Nat, changes : Nat, mishaps : Nat, pressure : Nat]
<1>1. \/ used' = used \/ used' = [used EXCEPT !["cells"] = @ + 1]
      \/ used' = [used EXCEPT !["changes"] = @ + 1] \/ used' = [used EXCEPT !["pressure"] = @ + 1]
  BY DEF WorldStep, WriteChar, EndLine, Rotate, Create, Truncate, Unlink, Pressure, Change, Use
<1> QED
  BY <1>1

-----------------------------------------------------------------------------
(* The engine's steps leave the loop and the files alone.                   *)
LEMMA EngineKeeps ==
  ASSUME Basics, EngineOK', UNCHANGED <<options, contents, file, offsets, stored, src, used>>
  PROVE  Basics'
<1>1. FilesOK'
  BY DEF Basics, FilesOK
<1>2. LoopOK'
  BY DEF Basics, LoopOK, OptionsOK, IsOffset
<1> QED
  BY <1>1, <1>2 DEF Basics

(* The engine's own steps keep its part: a letter is delivered,             *)
LEMMA DeliverOK ==
  ASSUME EngineOK, NEW s \in Shards, Delivers(s), UNCHANGED src
  PROVE  EngineOK'
<1>1. inbox[s][1].msgs \in Seq(Msg)
  BY DEF Delivers, Letter
<1>2. queue[s] \o inbox[s][1].msgs \in Seq(Msg)
  BY <1>1 DEF EngineOK
<1>3. queue' \in [Shards -> Seq(Msg)]
  BY <1>2 DEF EngineOK, Delivers
<1>4. inbox' \in [Shards -> Seq(Letter)] /\ inbox'[s] = <<>>
      /\ \A t \in Shards : t # s => inbox'[t] = inbox[t]
  BY DEF EngineOK, Delivers
<1>5. Len(<<>>) = 0
  OBVIOUS
<1>6. \A t \in Shards : Len(inbox'[t]) <= 1
       /\ (inbox'[t] # <<>>
            => call[Source].pc = "waiting" /\ t \in call[Source].left /\ started = "up")
  <2>1. \A t \in Shards : Len(inbox[t]) <= 1
       /\ (inbox[t] # <<>>
            => call[Source].pc = "waiting" /\ t \in call[Source].left /\ started = "up")
    BY DEF EngineOK
  <2> QED
    BY ONLY <1>4, <1>5, <2>1
<1> QED
  BY <1>3, <1>4, <1>6 DEF EngineOK, Delivers, config

(* a shard answers,                                                         *)
LEMMA AnswerOK ==
  ASSUME EngineOK, NEW s \in Shards, Answers(s), UNCHANGED src
  PROVE  EngineOK'
<1>1. \A t \in Shards : inbox[t] # <<>> => t # s
  BY DEF Answers
<1>2. \A t \in Shards : inbox[t] # <<>> => t \in call'[Source].left /\ call'[Source].pc = "waiting"
  BY <1>1 DEF Answers, EngineOK
<1>3. /\ policy \in Policies /\ rr \in Shards
      /\ queue \in [Shards -> Seq(Msg)] /\ log \in [Shards -> Seq(Msg)]
      /\ inbox \in [Shards -> Seq(Letter)]
      /\ started \in {"down", "up"}
      /\ started = "up" => \A t \in Shards : writer[t] = "up"
      /\ started = "down" => src = Idle
      /\ \A t \in Shards : Len(inbox[t]) <= 1 /\ (inbox[t] # <<>> => started = "up")
  BY DEF EngineOK
<1>4. call' \in [Callers -> Awaiting] /\ (call'[Source].pc # "waiting" => call'[Source].left = {})
      /\ UNCHANGED <<policy, rr, queue, log, inbox, started, writer>>
  BY DEF Answers, config
<1>5. \A t \in Shards : Len(inbox'[t]) <= 1
        /\ (inbox'[t] # <<>> => call'[Source].pc = "waiting" /\ t \in call'[Source].left
                                /\ started' = "up")
  <2>1. inbox' = inbox /\ started' = started
    BY <1>4
  <2>2. ASSUME NEW t \in Shards
        PROVE  Len(inbox[t]) <= 1
                 /\ (inbox[t] # <<>> => call'[Source].pc = "waiting" /\ t \in call'[Source].left
                                        /\ started = "up")
    <3>1. inbox[t] # <<>> => t \in call'[Source].left /\ call'[Source].pc = "waiting"
      BY <1>2
    <3>2. Len(inbox[t]) <= 1 /\ (inbox[t] # <<>> => started = "up")
      BY <1>3
    <3> QED
      BY ONLY <3>1, <3>2
  <2> QED
    BY <2>1, <2>2
<1> QED
  BY <1>3, <1>4, <1>5 DEF EngineOK

(* a queue is flushed.                                                      *)
LEMMA FlushOK ==
  ASSUME EngineOK, NEW s \in Shards, Flushes(s), UNCHANGED src
  PROVE  EngineOK'
<1>1. log[s] \o queue[s] \in Seq(Msg)
  BY DEF EngineOK
<1>2. queue' \in [Shards -> Seq(Msg)] /\ log' \in [Shards -> Seq(Msg)]
  <2>1. <<>> \in Seq(Msg)
    OBVIOUS
  <2> QED
    BY <1>1, <2>1 DEF EngineOK, Flushes
<1> QED
  BY <1>2 DEF EngineOK, Flushes, config

(* The batch of the source.                                                 *)
LEMMA SendsOK ==
  ASSUME EngineOK, NEW msgs, NEW shards, Sends(msgs, shards)
  PROVE  EngineOK'
<1>1. \A s \in Shards : Len(inbox'[s]) <= 1
       /\ (inbox'[s] # <<>> => s \in call'[Source].left)
  <2>1. ASSUME NEW s \in Shards
        PROVE Len(inbox'[s]) <= 1 /\ (inbox'[s] # <<>> => s \in call'[Source].left)
    <3>1. PICK part : part = PartFor(msgs, shards, s)
      OBVIOUS
    <3>2. /\ inbox'[s] = IF s # Home[Source] /\ part # <<>>
                         THEN <<[caller |-> Source, msgs |-> part]>> ELSE <<>>
          /\ part # <<>> => s \in call'[Source].left
      BY <3>1 DEF Sends
    <3>3. Len(<<>>) = 0 /\ \A x : Len(<<x>>) = 1
      OBVIOUS
    <3> QED
      BY <3>2, <3>3
  <2> QED
    BY <2>1
<1> QED
  BY <1>1 DEF EngineOK, Sends

-----------------------------------------------------------------------------
(* What a turn hands to the engine.                                         *)
Records0 == ApplyMultiline(src.lines)

(* Those within the limits (agent_support.cc:1257).                         *)
Fit == {k \in DOMAIN Records0 : WithinLimits(Records0, k)}

(* The records that go on, in their order.                                  *)
Accepted == Chosen(Records0, Fit)

(* Their messages.                                                          *)
Batch == Messages(Accepted, First, src.next.gen)

(* The characters the limits drop.                                          *)
Over == UNION {Chars(Records0[k]) : k \in DOMAIN Records0 \ Fit}

(* A size is a number.                                                      *)
LEMMA SizeIsNat ==
  ASSUME NEW lines \in Seq(Seq(Cell))
  PROVE  Size(lines) \in Nat
<1>1. PICK F : Sums(F, lines) /\ Size(lines) = F[Len(lines)]
  BY SizeSums
<1> QED
  BY <1>1 DEF Sums

(* Records are runs of cells.                                               *)
LEMMA RecordsType ==
  ASSUME OptionsOK, NEW lines \in Seq(Seq(Cell))
  PROVE  ApplyMultiline(lines) \in Seq(Seq(Cell))
<1>1. CASE ~options.multiline
  BY <1>1 DEF ApplyMultiline
<1>2. CASE options.multiline
  <2>1. PICK f : /\ Gathers(f, lines)
                 /\ ApplyMultiline(lines)
                     = IF f[Len(lines)].current = <<>> THEN f[Len(lines)].records
                       ELSE Append(f[Len(lines)].records, f[Len(lines)].current)
    BY <1>2, MultilineGathers
  <2>2. PICK acc : acc = f[Len(lines)]
    OBVIOUS
  <2>3. acc \in Gathering
    BY <2>1, <2>2 DEF Gathers
  <2>4. acc.records \in Seq(Seq(Cell)) /\ acc.current \in Seq(Cell)
    BY <2>3 DEF Gathering
  <2> QED
    BY <2>1, <2>2, <2>4
<1> QED
  BY <1>1, <1>2

(* So are the messages made of them.                                        *)
LEMMA MessagesType ==
  ASSUME NEW records \in Seq(Seq(Cell)), NEW first \in Int, NEW gen \in Int
  PROVE  /\ Messages(records, first, gen) \in Seq(Msg)
         /\ Len(Messages(records, first, gen)) = Len(records)
         /\ \A k \in 1..Len(records) :
              /\ Messages(records, first, gen)[k].cells = records[k]
              /\ Messages(records, first, gen)[k].gen = gen
              /\ Messages(records, first, gen)[k].at = first + Size(SubSeq(records, 1, k - 1))
<1> DEFINE m(k) == [key |-> NoKey, cells |-> records[k],
                    at |-> first + Size(SubSeq(records, 1, k - 1)), gen |-> gen]
<1>1. ASSUME NEW k \in 1..Len(records) PROVE m(k) \in Msg
  <2>1. \A i \in 1..(k - 1) : records[i] \in Seq(Cell)
    OBVIOUS
  <2>2. SubSeq(records, 1, k - 1) \in Seq(Seq(Cell))
    BY <2>1, SubSeqProperties
  <2>3. Size(SubSeq(records, 1, k - 1)) \in Nat
    BY <2>2, SizeIsNat
  <2>4. records[k] \in Seq(Cell)
    OBVIOUS
  <2> QED
    BY <2>3, <2>4 DEF Msg
<1>2. Messages(records, first, gen) = [k \in 1..Len(records) |-> m(k)]
  BY DEF Messages
<1>3. \A k \in 1..Len(records) :
        /\ m(k).cells = records[k] /\ m(k).gen = gen
        /\ m(k).at = first + Size(SubSeq(records, 1, k - 1))
  OBVIOUS
<1>4. Len(records) \in Nat
  OBVIOUS
<1> HIDE DEF m
<1> QED
  BY <1>1, <1>2, <1>3, <1>4

(* append_source_lines: it gives up, hands nothing or hands the batch.      *)
LEMMA AppendIs ==
  ASSUME Basics, AppendLines
  PROVE  /\ src.pc = "append" /\ Path \in PathSet /\ taken' = taken \cup Queued'
         /\ Records0 \in Seq(Seq(Cell)) /\ Fit \in SUBSET (1..Len(Records0)) /\ First \in Int
         /\ Accepted \in Seq(Seq(Cell)) /\ Batch \in Seq(Msg)
         /\ UNCHANGED <<options, contents, file, offsets, stored, over, excused, used>>
         /\ \/ src' = Idle /\ UNCHANGED <<engineVars, refused>>
            \/ /\ src' = [src EXCEPT !.pc = "store"] /\ UNCHANGED engineVars
               /\ \/ Records0 = <<>> /\ refused' = refused
                  \/ Accepted = <<>> /\ refused' = refused \cup Over
            \/ /\ src' = [src EXCEPT !.pc = "wait"]
               /\ refused' = refused \cup Over
               /\ \E shards : Sends(Batch, shards)
<1>1. src.pc = "append" /\ Path \in PathSet /\ src.lines \in Seq(Seq(Cell)) /\ src.next \in Place
  BY TurnFacts DEF AppendLines, Basics
<1>2. taken' = taken \cup Queued'
      /\ UNCHANGED <<options, contents, file, offsets, stored, over, excused, used>>
  BY DEF AppendLines
<1>3. Records0 \in Seq(Seq(Cell)) /\ Fit \in SUBSET (1..Len(Records0))
  <2>1. Records0 \in Seq(Seq(Cell))
    BY <1>1, RecordsType DEF Basics, LoopOK, Records0
  <2> HIDE DEF Records0
  <2>2. DOMAIN Records0 = 1..Len(Records0)
    BY <2>1
  <2> QED
    BY <2>1, <2>2 DEF Fit
<1>4. First \in Int
  <2>1. Size(src.lines) \in Nat /\ src.next.offset \in Nat
    BY <1>1, SizeIsNat DEF Place
  <2> QED
    BY <2>1 DEF First
<1>5. Accepted \in Seq(Seq(Cell))
  BY <1>3, ChosenIs DEF Accepted
<1>6. Batch \in Seq(Msg)
  <2>1. src.next.gen \in Int
    BY <1>1 DEF Place
  <2> QED
    BY <1>4, <1>5, <2>1, MessagesType DEF Batch
<1>7. \/ src' = Idle /\ UNCHANGED <<engineVars, refused>>
      \/ /\ src' = [src EXCEPT !.pc = "store"] /\ UNCHANGED engineVars
         /\ \/ Records0 = <<>> /\ refused' = refused
            \/ Accepted = <<>> /\ refused' = refused \cup Over
      \/ /\ src' = [src EXCEPT !.pc = "wait"]
         /\ refused' = refused \cup Over
         /\ \E msgs \in {Batch} : AppendBatch(Source, msgs)
  BY DEF AppendLines, Failed, Records0, Fit, Accepted, Batch, Over, First
<1>8. (\E msgs \in {Batch} : AppendBatch(Source, msgs)) => \E shards : Sends(Batch, shards)
  BY <1>6, BatchSends DEF Basics
<1> HIDE DEF Batch, Accepted, Fit, Over, First, Records0
<1> QED
  BY <1>1, <1>2, <1>3, <1>4, <1>5, <1>6, <1>7, <1>8

(* The batch goes to the engine, unless the pressure or the limits leave    *)
(* none of it.                                                              *)
LEMMA AppendBasics ==
  ASSUME Basics, AppendLines
  PROVE  Basics'
<1>1. /\ src.pc = "append" /\ Path \in PathSet /\ started = "up" /\ src \in Turn
         /\ IsOffset(src.next)
      /\ src.todo # <<>>
  BY TurnFacts, LoopFacts, LoopUp, AppendIs DEF LoopOK
<1>2. /\ src' = Idle \/ src' = [src EXCEPT !.pc = "store"] \/ src' = [src EXCEPT !.pc = "wait"]
      /\ UNCHANGED engineVars \/ \E shards : Sends(Batch, shards)
      /\ UNCHANGED <<options, contents, file, offsets, stored, used>>
  BY AppendIs
<1>3. src' \in Turn /\ IsOffset(src'.next) /\ (src'.pc # "idle" => src'.todo # <<>>)
  <2>1. CASE src' = Idle
    BY <2>1, AwayOK
  <2>2. CASE src' = [src EXCEPT !.pc = "store"] \/ src' = [src EXCEPT !.pc = "wait"]
    <3>1. src' \in Turn /\ src'.next = src.next /\ src'.todo = src.todo
      BY <1>1, <2>2 DEF Turn
    <3> QED
      BY <1>1, <3>1
  <2> QED
    BY <1>2, <2>1, <2>2
<1>4. EngineOK'
  <2>1. CASE UNCHANGED engineVars
    BY <1>1, <2>1 DEF Basics, EngineOK, engineVars, config
  <2>2. CASE \E shards : Sends(Batch, shards)
    BY <2>2, SendsOK DEF Basics
  <2> QED
    BY <1>2, <2>1, <2>2
<1>5. FilesOK'
  BY <1>2 DEF Basics, FilesOK
<1>6. LoopOK'
  BY <1>2, <1>3, LoopFacts DEF LoopOK, OptionsOK, IsOffset
<1> QED
  BY <1>4, <1>5, <1>6 DEF Basics

(* A shard's step.                                                          *)
LEMMA EngineBasics ==
  ASSUME Basics, EngineStep
  PROVE  Basics'
<1>1. UNCHANGED <<options, contents, file, offsets, stored, src, used>>
  BY DEF EngineStep, sourceVars
<1>2. EngineOK'
  BY <1>1, DeliverIs, AnswerIs, FlushIs, DeliverOK, AnswerOK, FlushOK DEF EngineStep, Basics
<1> QED
  BY <1>1, <1>2, EngineKeeps

(* A crash takes the memory, the loop and the letters.                      *)
LEMMA CrashBasics ==
  ASSUME Basics, Crash
  PROVE  Basics'
<1>1. /\ src' = Idle /\ offsets' = [p \in PathSet |-> Nowhere]
      /\ used' = [used EXCEPT !["mishaps"] = @ + 1]
      /\ UNCHANGED <<options, contents, file, stored>>
      /\ started' = "down" /\ inbox' = [s \in Shards |-> <<>>] /\ queue' = [s \in Shards |-> <<>>]
      /\ call' = [c \in Callers |-> NoCall] /\ rr' = 0 /\ UNCHANGED <<policy, log>>
  BY DEF Crash, Use, EngineCrash, config
<1>2. FilesOK'
  BY <1>1 DEF Basics, FilesOK
<1>3. LoopOK'
  <2>1. IsOffset(Nowhere) /\ Nowhere \in Place /\ Idle \in Turn /\ Idle.pc = "idle"
        /\ Idle.next = Nowhere
    BY NowhereIs, TurnFacts DEF Basics, IsOffset
  <2>2. used' \in [cells : Nat, changes : Nat, mishaps : Nat, pressure : Nat]
    <3>1. used \in [cells : Nat, changes : Nat, mishaps : Nat, pressure : Nat]
      BY LoopFacts
    <3> QED
      BY <1>1, <3>1
  <2>3. offsets' \in [PathSet -> Place] /\ \A p \in PathSet : offsets'[p] = Nowhere
    BY <1>1, <2>1
  <2>4. ASSUME NEW o, IsOffset(o) PROVE IsOffset(o)'
    BY <1>1, <2>4 DEF IsOffset
  <2>5. \A p \in PathSet : IsOffset(offsets[p])' /\ IsOffset(stored[p])'
    BY <1>1, <2>1, <2>3, <2>4, LoopFacts
  <2>6. IsOffset(src.next)' /\ src' \in Turn /\ src'.pc = "idle"
    BY <1>1, <2>1, <2>4
  <2>7. stored' \in [PathSet -> Place] /\ OptionsOK'
    BY <1>1, LoopFacts DEF LoopOK, OptionsOK
  <2> QED
    BY <2>2, <2>3, <2>5, <2>6, <2>7 DEF LoopOK, IsOffset
<1>4. EngineOK'
  <2>1. NoCall \in Awaiting /\ NoCall.pc = "idle" /\ NoCall.left = {}
    BY DEF NoCall, Awaiting
  <2>2. 0 \in Shards
    BY Given DEF Shards
  <2>3. <<>> \in Seq(Msg) /\ <<>> \in Seq(Letter) /\ Len(<<>>) = 0
    OBVIOUS
  <2>4. queue' \in [Shards -> Seq(Msg)] /\ inbox' \in [Shards -> Seq(Letter)]
        /\ call' \in [Callers -> Awaiting] /\ call'[Source] = NoCall
        /\ \A s \in Shards : inbox'[s] = <<>>
    BY <1>1, <2>1, <2>3, Given
  <2>5. \A s \in Shards : Len(inbox'[s]) <= 1 /\ inbox'[s] = <<>>
    BY ONLY <2>3, <2>4
  <2>6. /\ policy' = policy /\ rr' = 0 /\ log' = log /\ started' = "down" /\ src' = Idle
        /\ policy \in Policies /\ log \in [Shards -> Seq(Msg)]
    BY <1>1 DEF Basics, EngineOK
  <2>7. call'[Source].pc # "waiting" /\ call'[Source].left = {}
    BY <2>1, <2>4
  <2> QED
    BY ONLY <2>2, <2>4, <2>5, <2>6, <2>7 DEF EngineOK
<1> QED
  BY <1>2, <1>3, <1>4 DEF Basics

(* A boot reads the offsets back.                                           *)
LEMMA BootBasics ==
  ASSUME Basics, Boot
  PROVE  Basics'
<1>1. /\ started = "down" /\ started' = "up" /\ writer' = [s \in Shards |-> "up"]
      /\ policy' = "round_robin" /\ UNCHANGED <<rr, inbox, queue, log, call>>
      /\ UNCHANGED <<options, contents, file, offsets, stored, src, used>>
  BY DEF Boot, Start, sourceVars, historyVars
<1>2. EngineOK'
  <2>1. \A s \in Shards : inbox[s] = <<>>
    BY <1>1 DEF Basics, EngineOK
  <2> QED
    BY <1>1, <2>1 DEF Basics, EngineOK, Policies
<1> QED
  BY <1>1, <1>2, EngineKeeps

-----------------------------------------------------------------------------
(* The first state.                                                         *)
LEMMA InitBasics ==
  ASSUME Init
  PROVE  Basics
<1>1. Len(Paths) \in Nat /\ DOMAIN Paths = 1..Len(Paths) /\ Paths \in Seq(PathSet)
  BY Given
<1>2. Min(Inodes) \in Nat
  <2>1. Inodes \subseteq Nat /\ Inodes # {}
    BY Given
  <2>2. \E x \in Inodes : \A y \in Inodes : x <= y
    BY <2>1, Least
  <2>3. Min(Inodes) \in Inodes
    BY <2>2 DEF Min
  <2> QED
    BY <2>1, <2>3
<1>3. ASSUME NEW i \in 1..Len(Paths) PROVE Min(Inodes) + i - 1 \in Nat
  BY <1>1, <1>2
<1>4. contents \in Seq(Generation) /\ Len(contents) = Len(Paths) /\ DOMAIN contents = 1..Len(Paths)
  <2>1. contents = [i \in 1..Len(Paths) |-> [inode |-> Min(Inodes) + i - 1, cells |-> <<>>]]
    BY <1>1 DEF Init
  <2>2. \A i \in 1..Len(Paths) : [inode |-> Min(Inodes) + i - 1, cells |-> <<>>] \in Generation
    BY <1>3 DEF Generation
  <2>3. contents \in [1..Len(Paths) -> Generation]
    BY <2>1, <2>2
  <2> QED
    BY <1>1, <2>3
<1>5. ASSUME NEW p \in PathSet
      PROVE  file[p] \in [inode : Nat, gen : Nat] /\ file[p].gen \in DOMAIN contents
  <2>1. PICK i : i = CHOOSE j \in DOMAIN Paths : Paths[j] = p
    OBVIOUS
  <2>2. \E j \in DOMAIN Paths : Paths[j] = p
    BY <1>1, ToSetIs DEF PathSet
  <2>3. i \in 1..Len(Paths)
    BY <1>1, <2>1, <2>2
  <2>4. file[p] = [inode |-> Min(Inodes) + i - 1, gen |-> i]
    BY <2>1 DEF Init
  <2> QED
    BY <1>3, <1>4, <2>3, <2>4
<1>6. FilesOK
  <2>1. file = [p \in PathSet |-> file[p]]
    BY DEF Init
  <2> QED
    BY <1>4, <1>5, <2>1 DEF FilesOK
<1>7. LoopOK
  <2>1. OptionsOK
    BY Given DEF Init, OptionsOK
  <2>2. IsOffset(Nowhere) /\ Nowhere \in Place
    BY <1>6, NowhereIs DEF IsOffset
  <2>3. Idle \in Turn /\ Idle.pc = "idle" /\ Idle.next = Nowhere
    <3>1. <<>> \in Seq(PathSet) /\ <<>> \in Seq(Seq(Cell))
      OBVIOUS
    <3> QED
      BY <2>2, <3>1 DEF Idle, Turn
  <2> QED
    BY <2>1, <2>2, <2>3 DEF Init, LoopOK
<1>8. EngineOK
  <2>1. NoCall \in Awaiting /\ NoCall.pc = "idle" /\ NoCall.left = {}
    BY DEF NoCall, Awaiting
  <2>2. 0 \in Shards /\ "local" \in Policies /\ Source \in Callers
    BY Given DEF Shards, Policies
  <2>3. <<>> \in Seq(Msg) /\ <<>> \in Seq(Letter) /\ Len(<<>>) = 0
    OBVIOUS
  <2>4. /\ queue = [s \in Shards |-> <<>>] /\ inbox = [s \in Shards |-> <<>>]
        /\ log = [s \in Shards |-> <<>>] /\ call = [c \in Callers |-> NoCall]
        /\ policy = "local" /\ rr = 0 /\ started = "down" /\ src = Idle
    BY DEF Init, EngineInit
  <2>5. \A s \in Shards : Len(inbox[s]) <= 1 /\ inbox[s] = <<>>
    BY ONLY <2>3, <2>4
  <2>6. /\ queue \in [Shards -> Seq(Msg)] /\ log \in [Shards -> Seq(Msg)]
        /\ inbox \in [Shards -> Seq(Letter)] /\ call \in [Callers -> Awaiting]
        /\ call[Source] = NoCall
    BY ONLY <2>1, <2>2, <2>3, <2>4
  <2> QED
    BY ONLY <2>1, <2>2, <2>4, <2>5, <2>6 DEF EngineOK
<1> QED
  BY <1>6, <1>7, <1>8 DEF Basics

(* A step that changes nothing.                                             *)
LEMMA StillBasics ==
  ASSUME Basics, UNCHANGED vars
  PROVE  Basics'
<1>1. UNCHANGED <<engineVars, options, contents, file, offsets, stored, src, used>>
  BY DEF vars, sourceVars, historyVars
<1>2. EngineOK'
  BY <1>1 DEF Basics, EngineOK, engineVars, config
<1> QED
  BY <1>1, <1>2, EngineKeeps

(* The steps, those of the other programs as one.                           *)
LEMMA NextIs ==
  ASSUME [Next]_vars
  PROVE  \/ WorldStep
         \/ Poll \/ Stat \/ FileSize \/ Read \/ AppendLines \/ Appended
         \/ (\E fails \in BOOLEAN : Store(fails))
         \/ EngineStep \/ Crash \/ Boot \/ UNCHANGED vars
<1>1. CASE Next
  <2>1. \/ WorldStep \/ SourceStep \/ Store(TRUE) \/ EngineStep \/ Crash \/ Boot
    BY <1>1, Zenon DEF Next, WorldStep
  <2> QED
    BY <2>1 DEF SourceStep
<1> QED
  BY <1>1

(* Every step keeps the first layer.                                        *)
LEMMA BasicsStep ==
  ASSUME Basics, [Next]_vars
  PROVE  Basics'
<1>1. CASE WorldStep
  <2>1. FilesOK /\ used \in [cells : Nat, changes : Nat, mishaps : Nat, pressure : Nat]
    BY LoopFacts
  <2>2. used.cells \in Nat
    BY <2>1
  <2> QED
    BY <1>1, <2>1, <2>2, WorldGrows, WorldUsed, GrownBasics
<1> QED
  BY <1>1, NextIs, PollBasics, StatBasics, SizeBasics, ReadBasics, AppendBasics, AppendedBasics,
     StoreBasics, EngineBasics, CrashBasics, BootBasics, StillBasics

(* The type invariant of the proofs.                                        *)
THEOREM AlwaysBasics == Spec => []Basics
<1>1. Init => Basics
  BY InitBasics
<1>2. Basics /\ [Next]_vars => Basics'
  BY BasicsStep
<1> QED
  BY <1>1, <1>2, PTL DEF Spec

-----------------------------------------------------------------------------
(* The contents of the files grow.                                          *)
Longer(c, d) ==
  /\ c \in Seq(Generation) /\ d \in Seq(Generation) /\ Len(c) <= Len(d)
  /\ \A g \in 1..Len(c) :
       /\ d[g].inode = c[g].inode /\ Len(c[g].cells) <= Len(d[g].cells)
       /\ \A i \in 1..Len(c[g].cells) : d[g].cells[i] = c[g].cells[i]

(* The types that come with it, for the arithmetic on lengths.              *)
LEMMA LongerFacts ==
  ASSUME NEW c, NEW d, Longer(c, d)
  PROVE  /\ Len(c) \in Nat /\ Len(d) \in Nat /\ DOMAIN c = 1..Len(c) /\ DOMAIN d = 1..Len(d)
         /\ \A g \in 1..Len(c) : c[g].cells \in Seq(Cell) /\ d[g].cells \in Seq(Cell)
              /\ Len(c[g].cells) \in Nat /\ Len(d[g].cells) \in Nat
<1>1. Len(c) \in Nat /\ Len(d) \in Nat /\ DOMAIN c = 1..Len(c) /\ DOMAIN d = 1..Len(d)
      /\ Len(c) <= Len(d)
  BY DEF Longer
<1>2. ASSUME NEW g \in 1..Len(c) PROVE c[g] \in Generation /\ d[g] \in Generation
  BY <1>1 DEF Longer
<1>3. ASSUME NEW g \in 1..Len(c) PROVE c[g].cells \in Seq(Cell) /\ d[g].cells \in Seq(Cell)
  BY <1>2 DEF Generation
<1>4. ASSUME NEW g \in 1..Len(c) PROVE Len(c[g].cells) \in Nat /\ Len(d[g].cells) \in Nat
  BY <1>3
<1> QED
  BY <1>1, <1>3, <1>4

(* The files only grow, over every step.                                    *)
LEMMA ContentsLonger ==
  ASSUME FilesOK, Grown \/ UNCHANGED contents
  PROVE  Longer(contents, contents')
<1>1. contents \in Seq(Generation) /\ Len(contents) \in Nat
  BY DEF FilesOK
<1>2. ASSUME NEW g \in 1..Len(contents) PROVE Len(contents[g].cells) \in Nat
  BY <1>1 DEF Generation
<1> QED
  BY <1>1, <1>2 DEF Longer, Grown

(* What is covered stays covered.                                           *)
LEMMA CoveredKeeps ==
  ASSUME NEW c, NEW d, Longer(c, d), NEW S, NEW T, NEW g \in {Mixed} \cup 0..Len(c),
         NEW n \in Nat, CoveredIn(c, S, g, n), S \subseteq T
  PROVE  CoveredIn(d, T, g, n)
<1> SUFFICES ASSUME g \in DOMAIN d PROVE CoveredIn(d, T, g, n)
  BY DEF CoveredIn
<1>1. g \in 1..Len(c) /\ g \in DOMAIN c
  BY LongerFacts DEF Mixed
<1>2. PICK x, y : x = c[g].cells /\ y = d[g].cells
  OBVIOUS
<1>3. /\ Len(x) \in Nat /\ Len(y) \in Nat /\ Len(x) <= Len(y)
      /\ \A i \in 1..Len(x) : y[i] = x[i]
  BY <1>1, <1>2, LongerFacts DEF Longer
<1>4. n <= Len(x) /\ (n = 0 \/ x[n] = NL) /\ \A i \in 1..n : x[i] = NL \/ x[i] \in S
  BY <1>1, <1>2 DEF CoveredIn
<1>5. n <= Len(y) /\ (n = 0 \/ y[n] = NL) /\ \A i \in 1..n : y[i] = NL \/ y[i] \in T
  BY <1>3, <1>4
<1> QED
  BY <1>2, <1>5 DEF CoveredIn

(* Lines stay where they are.                                               *)
LEMMA AheadKeeps ==
  ASSUME NEW x \in Seq(Cell), NEW y \in Seq(Cell), Len(x) <= Len(y),
         \A i \in 1..Len(x) : y[i] = x[i], NEW lines, NEW first, Ahead(lines, x, first)
  PROVE  Ahead(lines, y, first)
<1>1. PICK F : LinesIn(lines, x, first, F) /\ Size(lines) = F[Len(lines)]
  BY DEF Ahead
<1>2. first \in Nat /\ Len(x) \in Nat /\ Len(y) \in Nat
  BY DEF Ahead
<1>3. /\ Len(lines) \in Nat /\ F[0] = 0
      /\ \A n \in 0..Len(lines) : F[n] \in Nat
      /\ \A n \in 1..Len(lines) :
           /\ Len(lines[n]) \in Nat
           /\ F[n] = F[n - 1] + Len(lines[n]) + 1
           /\ first + F[n] <= Len(x) /\ x[first + F[n]] = NL
           /\ \A j \in 1..Len(lines[n]) :
                lines[n][j] = x[first + F[n - 1] + j] /\ lines[n][j] # NL
  BY <1>1, <1>2, LinesInFacts
<1>4. ASSUME NEW n \in 1..Len(lines)
      PROVE  /\ first + F[n] <= Len(y) /\ y[first + F[n]] = NL
             /\ \A j \in 1..Len(lines[n]) :
                  lines[n][j] = y[first + F[n - 1] + j] /\ lines[n][j] # NL
  <2>1. PICK a, z, l : a = F[n - 1] /\ z = F[n] /\ l = Len(lines[n])
    OBVIOUS
  <2>2. n - 1 \in 0..Len(lines) /\ n \in 0..Len(lines)
    BY <1>3
  <2>3. a \in Nat /\ z \in Nat /\ l \in Nat /\ z = a + l + 1 /\ first + z <= Len(x)
    BY <1>3, <2>1, <2>2
  <2>4. first + z \in 1..Len(x) /\ first + z <= Len(y)
        /\ \A j \in 1..l : first + a + j \in 1..Len(x)
    BY ONLY <1>2, <2>3, Len(x) <= Len(y)
  <2> QED
    BY <1>3, <2>1, <2>4
<1>5. LinesIn(lines, y, first, F)
  BY <1>1, <1>4 DEF LinesIn
<1> QED
  BY <1>1, <1>2, <1>5 DEF Ahead

-----------------------------------------------------------------------------
(* Every character behind first is in one of the lines.                     *)
LEMMA CellInLine ==
  ASSUME NEW cells \in Seq(Cell), NEW first \in Nat, NEW lines, NEW F,
         LinesIn(lines, cells, first, F), NEW i \in Nat, first < i, i <= first + F[Len(lines)],
         cells[i] # NL
  PROVE  \E n \in 1..Len(lines) : cells[i] \in Chars(lines[n])
<1>1. /\ Len(lines) \in Nat /\ F[0] = 0
      /\ \A n \in 0..Len(lines) : F[n] \in Nat
      /\ \A n \in 1..Len(lines) :
           /\ lines[n] \in Seq(Cell) /\ Len(lines[n]) \in Nat
           /\ F[n] = F[n - 1] + Len(lines[n]) + 1
           /\ first + F[n] <= Len(cells) /\ cells[first + F[n]] = NL
           /\ \A j \in 1..Len(lines[n]) :
                lines[n][j] = cells[first + F[n - 1] + j] /\ lines[n][j] # NL
  BY LinesInFacts
<1> DEFINE T == {n \in 0..Len(lines) : i <= first + F[n]}
<1>2. T \subseteq Nat /\ T # {}
  BY <1>1
<1>3. PICK n \in T : \A m \in T : n <= m
  BY <1>2, Least
<1>4. n \in 1..Len(lines) /\ n - 1 \in 0..Len(lines) /\ i <= first + F[n]
  <2>1. n # 0
    BY <1>1, <1>3
  <2> QED
    BY <1>1, <1>3, <2>1
<1>5. ~(i <= first + F[n - 1])
  <2>1. n - 1 \notin T
    BY <1>3, <1>4
  <2> QED
    BY <1>4, <2>1
<1>6. PICK a, z, l : a = F[n - 1] /\ z = F[n] /\ l = Len(lines[n])
  OBVIOUS
<1>7. a \in Nat /\ z \in Nat /\ l \in Nat /\ z = a + l + 1 /\ i <= first + z /\ ~(i <= first + a)
      /\ cells[first + z] = NL
  BY <1>1, <1>4, <1>5, <1>6
<1>8. i # first + z
  BY <1>7
<1>9. i - (first + a) \in 1..l /\ first + a + (i - (first + a)) = i
  BY <1>7, <1>8
<1>10. lines[n][i - (first + a)] = cells[i]
  BY <1>1, <1>4, <1>6, <1>9
<1>11. lines[n] \in Seq(Cell)
  BY <1>1, <1>4
<1>12. \E k \in 1..Len(lines[n]) : lines[n][k] = cells[i]
  BY <1>6, <1>9, <1>10
<1>13. cells[i] \in Chars(lines[n])
  BY <1>11, <1>12, CharsAre
<1> QED
  BY <1>4, <1>13

(* And every character of a line in one of the records.                     *)
LEMMA LineInRecord ==
  ASSUME OptionsOK, NEW cells \in Seq(Cell), NEW first \in Nat, NEW lines, NEW F,
         LinesIn(lines, cells, first, F), NEW n \in 1..Len(lines), NEW c \in Chars(lines[n])
  PROVE  \E k \in 1..Len(ApplyMultiline(lines)) : c \in Chars(ApplyMultiline(lines)[k])
<1>1. PICK records : records = ApplyMultiline(lines)
  OBVIOUS
<1>2. PICK B : /\ Parted(records, B, Len(lines), lines, cells, first, F)
               /\ \A j \in 1..Len(lines) : j > B[Len(records)] => Chars(lines[j]) = {}
  BY <1>1, RecordsParted
<1>3. /\ Len(records) \in Nat /\ Len(lines) \in Nat /\ B \in [0..Len(records) -> 0..Len(lines)]
         /\ B[0] = 0
      /\ \A k \in 1..Len(records) : IsRecord(records[k], B[k - 1], B[k], lines, cells, first, F)
  <2>1. Len(lines) \in Nat
    BY LinesInFacts
  <2>2. records \in Seq(Seq(Cell))
    BY <1>2 DEF Parted
  <2>3. Len(records) \in Nat
    BY <2>2
  <2> QED
    BY ONLY <1>2, <2>1, <2>3 DEF Parted
<1> DEFINE T == {k \in 0..Len(records) : n <= B[k]}
<1>4. T \subseteq Nat /\ T # {}
  <2>1. ~(n > B[Len(records)])
    BY <1>2
  <2>2. Len(records) \in 0..Len(records) /\ B[Len(records)] \in 0..Len(lines)
    <3>1. PICK m : m = Len(records)
      OBVIOUS
    <3>2. m \in Nat /\ B \in [0..m -> 0..Len(lines)]
      BY ONLY <1>3, <3>1
    <3>3. m \in 0..m
      BY ONLY <3>2
    <3>4. B[m] \in 0..Len(lines)
      BY ONLY <3>2, <3>3
    <3> QED
      BY ONLY <3>1, <3>3, <3>4
  <2>3. n <= B[Len(records)]
    BY <1>3, <2>1, <2>2
  <2> QED
    BY <2>2, <2>3
<1>5. PICK k \in T : \A m \in T : k <= m
  BY <1>4, Least
<1>6. k \in 1..Len(records) /\ k - 1 \in 0..Len(records)
  <2>1. k # 0
    BY <1>3, <1>5
  <2> QED
    BY <1>3, <1>5, <2>1
<1>7. k - 1 \notin T
  BY <1>5, <1>6
<1>8. B[k] \in 0..Len(lines) /\ B[k - 1] \in 0..Len(lines) /\ n <= B[k] /\ ~(n <= B[k - 1])
  BY <1>3, <1>5, <1>6, <1>7
<1>9. n \in (B[k - 1] + 1)..B[k]
  BY <1>3, <1>8
<1>10. c \in Chars(records[k])
  BY <1>3, <1>6, <1>9 DEF IsRecord
<1> QED
  BY <1>1, <1>6, <1>10

-----------------------------------------------------------------------------
(* The characters of messages, of the queues and of the letters.            *)
LEMMA CharsOfAre ==
  ASSUME NEW msgs \in Seq(Msg), NEW c
  PROVE  c \in CharsOf(msgs) <=> \E i \in 1..Len(msgs) : c \in Chars(msgs[i].cells)
BY DEF CharsOf

(* The same of the queues.                                                  *)
LEMMA QueuedAre ==
  ASSUME NEW c
  PROVE  c \in Queued <=> \E s \in Shards : c \in CharsOf(queue[s])
BY DEF Queued

(* The same of the letters.                                                 *)
LEMMA PostedAre ==
  ASSUME NEW c
  PROVE  c \in Posted <=> \E s \in Shards : \E i \in DOMAIN inbox[s] : c
           \in CharsOf(inbox[s][i].msgs)
BY DEF Posted

(* Nothing is on the way when no call waits.                                *)
LEMMA NonePosted ==
  ASSUME EngineOK, call[Source].pc # "waiting"
  PROVE  Posted = {}
<1>1. \A s \in Shards : inbox[s] = <<>>
  BY DEF EngineOK
<1>2. \A s \in Shards : DOMAIN inbox[s] = {}
  BY <1>1
<1> QED
  BY <1>2 DEF Posted

(* What a batch holds is in a queue or on the way.                          *)
LEMMA SendsReach ==
  ASSUME EngineOK, NEW msgs, NEW shards, Sends(msgs, shards), NEW m \in 1..Len(msgs),
         NEW c \in Chars(msgs[m].cells)
  PROVE  c \in Queued' \/ c \in Posted'
<1>1. msgs \in Seq(Msg) /\ shards \in [1..Len(msgs) -> Shards]
  BY DEF Sends
<1>2. PICK s : s = shards[m]
  OBVIOUS
<1>3. s \in Shards
  BY <1>1, <1>2
<1>4. PICK mine, part : mine = Mine(msgs, shards, s) /\ part = PartFor(msgs, shards, s)
  OBVIOUS
<1>5. /\ part \in Seq(Msg) /\ \A i \in mine : \E k \in 1..Len(part) : Nth(mine, k) = i
      /\ \A k \in 1..Len(part) : Nth(mine, k) \in mine /\ part[k] = msgs[Nth(mine, k)]
  <2>1. PICK M : M = Msg
    OBVIOUS
  <2>2. msgs \in Seq(M)
    BY ONLY <1>1, <2>1
  <2>3. LET mine1 == Mine(msgs, shards, s)
            part1 == PartFor(msgs, shards, s)
        IN  /\ part1 \in Seq(M) /\ Len(part1) = Cardinality(mine1)
            /\ mine1 \in SUBSET (1..Len(msgs))
            /\ \A k \in 1..Len(part1) : Nth(mine1, k) \in mine1 /\ part1[k] = msgs[Nth(mine1, k)]
            /\ \A i \in mine1 : \E k \in 1..Len(part1) : Nth(mine1, k) = i
    BY ONLY <1>1, <2>2, PartIs
  <2> QED
    BY ONLY <1>4, <2>1, <2>3
<1>6. PICK k \in 1..Len(part) : Nth(mine, k) = m
  BY <1>2, <1>4, <1>5 DEF Mine
<1>7. part[k] = msgs[m] /\ part # <<>>
  <2>1. part[k] = msgs[m]
    BY <1>5, <1>6
  <2>2. Len(part) # 0 /\ Len(<<>>) = 0
    BY <1>5, <1>6
  <2> QED
    BY ONLY <2>1, <2>2
<1>8. c \in CharsOf(part)
  BY <1>5, <1>6, <1>7, CharsOfAre
<1>9. /\ queue'[s] = IF s = Home[Source] THEN queue[s] \o part ELSE queue[s]
      /\ inbox'[s] = IF s # Home[Source] /\ part # <<>>
                     THEN <<[caller |-> Source, msgs |-> part]>> ELSE <<>>
  BY <1>3, <1>4 DEF Sends
<1>10. CASE s = Home[Source]
  <2>1. PICK q : q = queue[s]
    OBVIOUS
  <2>2. q \in Seq(Msg)
    BY <1>3, <2>1 DEF EngineOK
  <2>3. /\ q \o part \in Seq(Msg) /\ Len(q) + k \in 1..Len(q \o part)
           /\ (q \o part)[Len(q) + k] = part[k]
    BY ONLY <1>5, <1>6, <2>2
  <2>4. c \in CharsOf(q \o part)
    BY <1>7, <2>3, CharsOfAre
  <2>5. c \in CharsOf(queue[s])'
    BY <1>9, <1>10, <2>1, <2>4 DEF CharsOf
  <2> QED
    BY <1>3, <2>5 DEF Queued
<1>11. CASE s # Home[Source]
  <2>1. inbox'[s] = <<[caller |-> Source, msgs |-> part]>>
    BY <1>7, <1>9, <1>11
  <2>2. 1 \in DOMAIN inbox'[s] /\ inbox'[s][1].msgs = part
    BY <2>1
  <2> QED
    BY <1>3, <1>8, <2>2 DEF Posted
<1> QED
  BY <1>10, <1>11

(* A letter that is run moves its characters to the queue.                  *)
LEMMA DeliverReach ==
  ASSUME EngineOK, NEW s \in Shards, Delivers(s), NEW c \in Posted
  PROVE  c \in Queued' \/ c \in Posted'
<1>1. PICK t \in Shards : \E i \in DOMAIN inbox[t] : c \in CharsOf(inbox[t][i].msgs)
  BY PostedAre
<1>2. PICK i \in DOMAIN inbox[t] : c \in CharsOf(inbox[t][i].msgs)
  BY <1>1
<1>3. CASE t # s
  <2>1. inbox'[t] = inbox[t]
    BY <1>3 DEF Delivers, EngineOK
  <2>2. i \in DOMAIN inbox'[t] /\ c \in CharsOf(inbox'[t][i].msgs)
    BY <1>2, <2>1
  <2> QED
    BY <2>2 DEF Posted
<1>4. CASE t = s
  <2>1. inbox[s] \in Seq(Letter) /\ Len(inbox[s]) = 1
    BY DEF EngineOK, Delivers
  <2>2. i = 1
    BY <1>2, <1>4, <2>1
  <2>3. PICK q, part : q = queue[s] /\ part = inbox[s][1].msgs
    OBVIOUS
  <2>4. q \in Seq(Msg) /\ part \in Seq(Msg) /\ c \in CharsOf(part)
    BY <1>2, <1>4, <2>2, <2>3 DEF EngineOK, Delivers, Letter
  <2>5. PICK k \in 1..Len(part) : c \in Chars(part[k].cells)
    BY <2>4, CharsOfAre
  <2>6. /\ q \o part \in Seq(Msg) /\ Len(q) + k \in 1..Len(q \o part)
           /\ (q \o part)[Len(q) + k] = part[k]
    BY ONLY <2>4, <2>5
  <2>7. c \in CharsOf(q \o part)
    BY <2>5, <2>6, CharsOfAre
  <2>8. queue'[s] = q \o part
    BY <2>3 DEF Delivers, EngineOK
  <2>9. c \in CharsOf(queue[s])'
    BY <2>7, <2>8 DEF CharsOf
  <2> QED
    BY <2>9 DEF Queued
<1> QED
  BY <1>3, <1>4

-----------------------------------------------------------------------------
(* Whatever is in the records of the turn is refused or handed over.        *)
LEMMA AppendReach ==
  ASSUME Basics, AppendLines, src'.pc \in {"store", "wait"}, NEW k \in 1..Len(Records0),
         NEW c \in Chars(Records0[k])
  PROVE  c \in Reached' \/ (src'.pc = "wait" /\ c \in Posted')
<1>1. /\ Records0 \in Seq(Seq(Cell)) /\ Fit \in SUBSET (1..Len(Records0))
      /\ Accepted \in Seq(Seq(Cell)) /\ taken' = taken \cup Queued' /\ src \in Turn
  BY AppendIs, TurnFacts DEF Basics
<1>2. PICK records : records = Records0
  OBVIOUS
<1>3. records \in Seq(Seq(Cell)) /\ Len(records) # 0 /\ DOMAIN records = 1..Len(records)
  BY <1>1, <1>2
<1>4. records # <<>>
  <2>1. Len(<<>>) = 0
    OBVIOUS
  <2> QED
    BY ONLY <1>3, <2>1
<1>5. src' # Idle
  BY DEF Idle
<1>6. refused' = refused \cup Over
  BY <1>2, <1>4, <1>5, AppendIs
<1>7. CASE k \notin Fit
  <2>1. c \in Over
    BY <1>2, <1>3, <1>7 DEF Over
  <2> QED
    BY <1>6, <2>1 DEF Reached
<1>8. CASE k \in Fit
  <2>1. PICK a : a = Accepted
    OBVIOUS
  <2>2. PICK m \in 1..Len(a) : Nth(Fit, m) = k /\ a[m] = Records0[k]
    <3>1. PICK r, f, C : r = Records0 /\ f = Fit /\ C = Seq(Cell)
      OBVIOUS
    <3>2. r \in Seq(C) /\ f \in SUBSET (1..Len(r))
      BY ONLY <1>1, <3>1
    <3>3. /\ Chosen(r, f) \in Seq(C) /\ Len(Chosen(r, f)) = Cardinality(f)
          /\ \A j \in 1..Len(Chosen(r, f)) : Nth(f, j) \in f /\ Chosen(r, f)[j] = r[Nth(f, j)]
          /\ \A i \in f : \E j \in 1..Len(Chosen(r, f)) : Nth(f, j) = i
      BY ONLY <3>2, ChosenIs
    <3>4. PICK j \in 1..Len(Chosen(r, f)) : Nth(f, j) = k
      BY ONLY <1>8, <3>1, <3>3
    <3>5. Chosen(r, f)[j] = r[k]
      BY ONLY <3>3, <3>4
    <3> QED
      BY ONLY <2>1, <3>1, <3>4, <3>5 DEF Accepted
  <2>3. a # <<>>
    <3>1. Len(<<>>) = 0 /\ Len(a) # 0
      BY <1>1, <2>1, <2>2
    <3> QED
      BY ONLY <3>1
  <2>4. src' = [src EXCEPT !.pc = "wait"] /\ \E shards : Sends(Batch, shards)
    BY <1>2, <1>4, <1>5, <2>1, <2>3, AppendIs
  <2>5. PICK shards : Sends(Batch, shards)
    BY <2>4
  <2>6. Len(Batch) = Len(a) /\ Batch[m].cells = a[m]
    <3>1. First \in Int /\ src.next.gen \in Int /\ a \in Seq(Seq(Cell))
      BY <1>1, <2>1, AppendIs DEF Turn, Place
    <3> QED
      BY <2>1, <2>2, <3>1, MessagesType DEF Batch
  <2>7. c \in Queued' \/ c \in Posted'
    BY <2>2, <2>5, <2>6, SendsReach DEF Basics
  <2>8. src'.pc = "wait"
    BY <1>1, <2>4 DEF Turn
  <2> QED
    BY <1>1, <2>7, <2>8 DEF Reached
<1> QED
  BY <1>7, <1>8

-----------------------------------------------------------------------------
(* No step forgets what was taken or refused, and contents only grow.       *)
LEMMA StepGrows ==
  ASSUME Basics, [Next]_vars
  PROVE  Reached \subseteq Reached' /\ Longer(contents, contents')
<1>1. CASE WorldStep
  <2>1. FilesOK /\ used.cells \in Nat
    BY LoopFacts
  <2>2. Grown
    BY <1>1, <2>1, WorldGrows
  <2> QED
    BY <2>1, <2>2, ContentsLonger DEF Grown, Reached
<1>2. CASE ~WorldStep
  <2>1. UNCHANGED contents
    BY <1>2, NextIs DEF Poll, Stat, FileSize, Read, AppendLines, Appended, Store, EngineStep, Crash,
      Boot, Rest, vars, sourceVars
  <2>2. taken \subseteq taken' /\ refused \subseteq refused'
    <3>1. CASE AppendLines
      BY <3>1, AppendIs
    <3>2. CASE ~AppendLines
      BY <1>2, <3>2, NextIs DEF Poll, Stat, FileSize, Read, Appended, Store, EngineStep, Crash,
        Boot, Rest, vars, historyVars
    <3> QED
      BY <3>1, <3>2
  <2> QED
    BY <2>1, <2>2, ContentsLonger, LoopFacts DEF Reached
<1> QED
  BY <1>1, <1>2

(* An offset that covers goes on to do so.                                  *)
LEMMA PlaceKeeps ==
  ASSUME Longer(contents, contents'), Reached \subseteq Reached', NEW o, IsOffset(o),
         Covered(Reached, o.gen, o.offset)
  PROVE  CoveredIn(contents', Reached', o.gen, o.offset)
<1>1. o.gen \in {Mixed} \cup 0..Len(contents) /\ o.offset \in Nat
  BY DEF IsOffset, Place
<1>2. CoveredIn(contents, Reached, o.gen, o.offset)
  BY DEF Covered
<1> QED
  BY <1>1, <1>2, CoveredKeeps

(* So does every offset, in memory and on disk.                             *)
LEMMA PlacesKeep ==
  ASSUME Basics, Covers, [Next]_vars
  PROVE  /\ \A p \in PathSet :
              /\ CoveredIn(contents', Reached', offsets[p].gen, offsets[p].offset)
              /\ CoveredIn(contents', Reached', stored[p].gen, stored[p].offset)
         /\ CoveredIn(contents', Reached', 0, 0) /\ Nowhere.gen = 0 /\ Nowhere.offset = 0
<1>1. ASSUME NEW p \in PathSet
      PROVE  /\ CoveredIn(contents', Reached', offsets[p].gen, offsets[p].offset)
             /\ CoveredIn(contents', Reached', stored[p].gen, stored[p].offset)
  BY StepGrows, PlaceKeeps, LoopFacts DEF Covers
<1>2. 0 \notin DOMAIN contents'
  BY StepGrows, LongerFacts
<1> QED
  BY <1>1, <1>2 DEF CoveredIn, Nowhere

(* A step that leaves the loop between two paths.                           *)
LEMMA AwayCovers ==
  ASSUME Basics, Covers, [Next]_vars, src'.pc \in {"idle", "stat", "size"},
         \A p \in PathSet : offsets'[p] \in {offsets[p], stored[p], Nowhere}, UNCHANGED stored
  PROVE  Covers'
<1>1. TurnCovers'
  BY DEF TurnCovers
<1>2. ASSUME NEW p \in PathSet
      PROVE  /\ CoveredIn(contents', Reached', offsets'[p].gen, offsets'[p].offset)
             /\ CoveredIn(contents', Reached', stored'[p].gen, stored'[p].offset)
  BY PlacesKeep
<1> QED
  BY <1>1, <1>2 DEF Covers, Covered

(* Where the loop is after a step that leaves the path.                     *)
LEMMA AwayPc ==
  ASSUME Basics
  PROVE  (src' = Idle \/ src' = Onward) => src'.pc \in {"idle", "stat", "size"}
BY TurnFacts DEF Basics

(* A turn that found no complete line.                                      *)
LEMMA KeepCovers ==
  ASSUME Basics, Covers, [Next]_vars, src.pc # "idle", NEW start, NEW gen, KeepOffset(start, gen),
         UNCHANGED <<stored>>, CoveredIn(contents', Reached', gen, start)
  PROVE  Covers'
<1>1. src'.pc \in {"idle", "stat", "size"}
  BY AwayPc DEF KeepOffset
<1>2. TurnCovers'
  BY <1>1 DEF TurnCovers
<1>3. PICK o : o = [inode |-> src.inode, offset |-> start, gen |-> gen]
  OBVIOUS
<1>4. offsets' = [offsets EXCEPT ![Path] = o] /\ o.gen = gen /\ o.offset = start
  BY <1>3 DEF KeepOffset
<1>5. ASSUME NEW p \in PathSet
      PROVE  /\ CoveredIn(contents', Reached', offsets'[p].gen, offsets'[p].offset)
             /\ CoveredIn(contents', Reached', stored'[p].gen, stored'[p].offset)
  <2>1. offsets'[p] = o \/ offsets'[p] = offsets[p]
    BY <1>4, LoopFacts
  <2> QED
    BY <1>4, <2>1, PlacesKeep
<1> QED
  BY <1>2, <1>5 DEF Covers, Covered

-----------------------------------------------------------------------------
(* The loop's steps keep the second layer: a poll starts a turn,            *)
LEMMA PollCovers ==
  ASSUME Basics, Covers, [Next]_vars, Poll
  PROVE  Covers'
<1>1. offsets' = offsets /\ stored' = stored
  BY DEF Poll
<1>2. src'.pc \in {"idle", "stat", "size"}
  BY TurnFacts DEF Basics, Poll, Turn
<1> QED
  BY <1>1, <1>2, AwayCovers

(* a stat forgets the offset of a file that is gone,                        *)
LEMMA StatCovers ==
  ASSUME Basics, Covers, [Next]_vars, Stat
  PROVE  Covers'
<1>1. /\ stored' = stored
         /\ (src' = Idle \/ src' = [src EXCEPT !.pc = "size", !.inode = file[Path].inode])
      /\ offsets' = offsets \/ offsets' = [offsets EXCEPT ![Path] = stored[Path]]
  BY DEF Stat, Failed
<1>2. src'.pc \in {"idle", "stat", "size"}
  BY <1>1, AwayPc, TurnFacts DEF Basics, Turn
<1>3. \A p \in PathSet : offsets'[p] \in {offsets[p], stored[p], Nowhere}
  BY <1>1, LoopFacts
<1> QED
  BY <1>1, <1>2, <1>3, AwayCovers

(* a read starts at the offset or at zero,                                  *)
LEMMA SizeCovers ==
  ASSUME Basics, Covers, [Next]_vars, FileSize
  PROVE  Covers'
<1> DEFINE size == Len(CellsAt(Path))
           start == IF Resumes(offsets[Path], size) THEN offsets[Path].offset ELSE 0
<1>1. src.pc = "size" /\ Path \in PathSet /\ src \in Turn
  BY TurnFacts DEF FileSize, Basics
<1>2. /\ IF file[Path] = Absent THEN src' = Idle /\ UNCHANGED offsets
         ELSE IF start >= size
         THEN KeepOffset(start, IF start = 0 THEN 0 ELSE offsets[Path].gen)
         ELSE /\ src' = [src EXCEPT !.pc = "read", !.start = start, !.size = size]
              /\ UNCHANGED offsets
      /\ UNCHANGED stored
  BY DEF FileSize, Failed
<1>3. start = 0 \/ start = offsets[Path].offset
  OBVIOUS
<1> HIDE DEF start, size
<1>4. CASE file[Path] = Absent
  BY <1>2, <1>4, AwayPc, AwayCovers
<1>5. CASE file[Path] # Absent /\ start >= size
  <2>1. CASE start = 0
    BY <1>1, <1>2, <1>5, <2>1, PlacesKeep, KeepCovers
  <2>2. CASE start # 0
    BY <1>1, <1>2, <1>3, <1>5, <2>2, PlacesKeep, KeepCovers
  <2> QED
    BY <2>1, <2>2
<1>6. CASE file[Path] # Absent /\ ~(start >= size)
  <2>1. src' = [src EXCEPT !.pc = "read", !.start = start, !.size = size] /\ offsets' = offsets
    BY <1>2, <1>6
  <2>2. src'.pc = "read" /\ src'.start = start /\ src'.todo = src.todo
    BY <1>1, <2>1 DEF Turn
  <2>3. TurnCovers'
    BY <1>3, <2>1, <2>2 DEF TurnCovers, Path
  <2> QED
    BY <1>2, <2>1, <2>3, PlacesKeep DEF Covers, Covered
<1> QED
  BY <1>4, <1>5, <1>6

(* what was read lies ahead of what is covered,                             *)
LEMMA ReadCovers ==
  ASSUME Basics, Covers, [Next]_vars, Read
  PROVE  Covers'
<1>1. src.pc = "read" /\ Path \in PathSet /\ src \in Turn /\ src.start \in Nat /\ src.next \in Place
  BY TurnFacts DEF Read, Basics
<1>2. UNCHANGED <<Rest, stored>>
  BY DEF Read
<1>3. src.start = 0 \/ src.start = offsets[Path].offset
  BY <1>1 DEF Covers, TurnCovers
<1>4. CASE file[Path] = Absent
  <2>1. src' = Idle /\ offsets' = offsets
    BY <1>4 DEF Read, Failed
  <2> QED
    BY <1>2, <2>1, AwayPc, AwayCovers
<1>5. CASE file[Path] # Absent
  <2>1. PICK lines, F, gen :
           /\ gen = IF src.start = 0 \/ offsets[Path].gen = file[Path].gen
                    THEN file[Path].gen ELSE Mixed
           /\ LinesIn(lines, CellsAt(Path), src.start, F) /\ Size(lines) = F[Len(lines)]
           /\ Size(lines) \in Nat /\ lines \in Seq(Seq(Cell))
           /\ IF lines = <<>> THEN KeepOffset(src.start, gen)
              ELSE /\ src' = [src EXCEPT !.pc = "append", !.lines = lines,
                                         !.next = [inode |-> src.inode,
                                                   offset |-> src.start + Size(lines), gen |-> gen]]
                   /\ UNCHANGED offsets
    BY <1>5, ReadIs, LoopFacts
  <2>2. CoveredIn(contents', Reached', gen, src.start)
    <3>1. contents' \in Seq(Generation) /\ contents' = contents
      BY <1>2, LoopFacts DEF FilesOK, Rest
    <3>2. CASE src.start = 0
      <4>1. ASSUME NEW g \in DOMAIN contents' PROVE 0 <= Len(contents'[g].cells)
        <5>1. contents'[g] \in Generation
          BY <3>1
        <5>2. contents'[g].cells \in Seq(Cell)
          BY <5>1 DEF Generation
        <5> QED
          BY <5>2
      <4> QED
        BY <3>2, <4>1 DEF CoveredIn
    <3>3. CASE src.start # 0 /\ offsets[Path].gen = file[Path].gen
      <4>1. gen = offsets[Path].gen /\ src.start = offsets[Path].offset
        BY <1>3, <2>1, <3>3
      <4> QED
        BY <1>1, <4>1, PlacesKeep
    <3>4. CASE src.start # 0 /\ offsets[Path].gen # file[Path].gen
      <4>1. gen = Mixed
        BY <2>1, <3>4
      <4>2. gen \notin DOMAIN contents'
        BY <3>1, <4>1 DEF Mixed
      <4> QED
        BY <4>2 DEF CoveredIn
    <3> QED
      BY <3>2, <3>3, <3>4
  <2>3. CASE lines = <<>>
    BY <1>1, <1>2, <2>1, <2>2, <2>3, KeepCovers
  <2>4. CASE lines # <<>>
    <3> DEFINE o == [inode |-> src.inode, offset |-> src.start + Size(lines), gen |-> gen]
    <3>1. src' = [src EXCEPT !.pc = "append", !.lines = lines, !.next = o] /\ offsets' = offsets
      BY <2>1, <2>4
    <3>2. o.offset = src.start + Size(lines) /\ o.gen = gen
      OBVIOUS
    <3> HIDE DEF o
    <3>3. src'.pc = "append" /\ src'.next = o /\ src'.lines = lines
      BY <1>1, <3>1 DEF Turn
    <3>4. First' = src.start
      <4>1. (src.start + Size(lines)) - Size(lines) = src.start
        BY <1>1, <2>1
      <4> QED
        BY <3>2, <3>3, <4>1 DEF First
    <3>5. gen \in DOMAIN contents' => Ahead(lines, contents'[gen].cells, src.start)
      <4>1. contents' = contents /\ (gen = file[Path].gen \/ gen = Mixed)
        BY <1>2, <2>1 DEF Rest
      <4>2. Mixed \notin DOMAIN contents'
        BY <1>2, LoopFacts DEF FilesOK, Rest, Mixed
      <4> QED
        BY <1>1, <2>1, <4>1, <4>2 DEF Ahead, CellsAt
    <3>6. TurnCovers'
      BY <2>2, <3>2, <3>3, <3>4, <3>5 DEF TurnCovers, Covered
    <3> QED
      BY <1>2, <3>1, <3>6, PlacesKeep DEF Covers, Covered
  <2> QED
    BY <2>3, <2>4
<1> QED
  BY <1>4, <1>5

-----------------------------------------------------------------------------
(* After the append the whole of the turn is covered.                       *)
LEMMA TurnReached ==
  ASSUME Basics, Covers, [Next]_vars, AppendLines, src'.pc \in {"store", "wait"},
         NEW S, Reached' \subseteq S, src'.pc = "wait" => Posted' \subseteq S
  PROVE  CoveredIn(contents, S, src.next.gen, src.next.offset)
<1> DEFINE g == src.next.gen
           cells == contents[g].cells
           N == Len(src.lines)
<1>1. SUFFICES ASSUME g \in DOMAIN contents
               PROVE  /\ src.next.offset <= Len(cells)
                      /\ src.next.offset = 0 \/ cells[src.next.offset] = NL
                      /\ \A i \in 1..src.next.offset : cells[i] = NL \/ cells[i] \in S
  BY DEF CoveredIn
<1>2. src.pc = "append" /\ src.lines \in Seq(Seq(Cell)) /\ src.next \in Place /\ OptionsOK
  BY AppendIs, TurnFacts DEF Basics, LoopOK
<1>3. cells \in Seq(Cell) /\ Len(cells) \in Nat
  <2>1. contents[g] \in Generation
    BY <1>1, LoopFacts DEF FilesOK
  <2>2. cells \in Seq(Cell)
    BY <2>1 DEF Generation
  <2> QED
    BY <2>2
<1>4. Ahead(src.lines, cells, First) /\ Covered(Reached, g, First)
  BY <1>1, <1>2 DEF Covers, TurnCovers
<1>5. PICK F : LinesIn(src.lines, cells, First, F) /\ Size(src.lines) = F[N]
  BY <1>4 DEF Ahead
<1>6. First \in Nat /\ N \in Nat /\ F[N] \in Nat /\ F[0] = 0 /\ src.next.offset \in Nat
      /\ (N # 0 => First + F[N] <= Len(cells) /\ cells[First + F[N]] = NL)
  <2>1. First \in Nat
    BY <1>4 DEF Ahead
  <2>2. N \in Nat /\ F[0] = 0
        /\ (\A n \in 0..N : F[n] \in Nat)
        /\ \A n \in 1..N : First + F[n] <= Len(cells) /\ cells[First + F[n]] = NL
    BY <1>3, <1>5, <2>1, LinesInFacts
  <2>3. N \in 0..N /\ (N # 0 => N \in 1..N)
    BY <2>2
  <2>4. src.next.offset \in Nat
    BY <1>2 DEF Place
  <2> QED
    BY <2>1, <2>2, <2>3, <2>4
<1>7. src.next.offset = First + F[N]
  <2>1. Size(src.lines) \in Nat /\ First = src.next.offset - Size(src.lines)
    BY <1>5, <1>6 DEF First
  <2>2. PICK a, b, c : a = First /\ b = src.next.offset /\ c = Size(src.lines)
    OBVIOUS
  <2>3. a \in Nat /\ b \in Nat /\ c \in Nat /\ a = b - c
    BY <1>6, <2>1, <2>2
  <2>4. b = a + c
    BY ONLY <2>3
  <2> QED
    BY <1>5, <2>2, <2>4
<1>8. First <= Len(cells) /\ (First = 0 \/ cells[First] = NL)
      /\ \A i \in 1..First : cells[i] = NL \/ cells[i] \in Reached
  BY <1>1, <1>4 DEF Covered, CoveredIn
<1>9. Reached \subseteq S
  BY StepGrows
<1>10. ASSUME NEW i \in 1..src.next.offset, cells[i] # NL PROVE cells[i] \in S
  <2>1. CASE i <= First
    <3>1. i \in 1..First
      BY <1>6, <2>1
    <3> QED
      BY <1>8, <1>9, <1>10, <3>1
  <2>2. CASE ~(i <= First)
    <3>1. i \in Nat /\ First < i /\ i <= First + F[N]
      BY <1>6, <1>7, <2>2
    <3>2. PICK n \in 1..N : cells[i] \in Chars(src.lines[n])
      BY <1>3, <1>5, <1>6, <1>10, <3>1, CellInLine
    <3>3. PICK k \in 1..Len(Records0) : cells[i] \in Chars(Records0[k])
      BY <1>2, <1>3, <1>5, <1>6, <3>2, LineInRecord DEF Records0
    <3> HIDE DEF cells
    <3>4. cells[i] \in Reached' \/ (src'.pc = "wait" /\ cells[i] \in Posted')
      BY <3>3, AppendReach
    <3> QED
      BY <3>4
  <2> QED
    BY <2>1, <2>2
<1>11. src.next.offset <= Len(cells) /\ (src.next.offset = 0 \/ cells[src.next.offset] = NL)
  BY <1>6, <1>7, <1>8
<1> QED
  BY <1>10, <1>11

(* what is read is on the way, accepted or dropped,                         *)
LEMMA AppendCovers ==
  ASSUME Basics, Covers, [Next]_vars, AppendLines
  PROVE  Covers'
<1>1. /\ src' = Idle \/ src' = [src EXCEPT !.pc = "store"] \/ src' = [src EXCEPT !.pc = "wait"]
      /\ UNCHANGED <<contents, offsets, stored>> /\ src \in Turn
  BY AppendIs, TurnFacts DEF Basics
<1>2. CASE src' = Idle
  BY <1>1, <1>2, AwayPc, AwayCovers
<1>3. CASE src' # Idle
  <2>1. src'.pc \in {"store", "wait"} /\ src'.next = src.next
    BY <1>1, <1>3 DEF Turn
  <2>2. CoveredIn(contents, Reached' \cup Posted', src.next.gen, src.next.offset)
    BY <2>1, TurnReached
  <2>3. src'.pc = "store" => CoveredIn(contents, Reached', src.next.gen, src.next.offset)
    BY <2>1, TurnReached
  <2>4. TurnCovers'
    BY <1>1, <2>1, <2>2, <2>3 DEF TurnCovers, Covered
  <2> QED
    BY <1>1, <2>4, PlacesKeep DEF Covers, Covered
<1> QED
  BY <1>2, <1>3

(* nothing is on the way once the call returned well,                       *)
LEMMA AppendedCovers ==
  ASSUME Basics, Covers, [Next]_vars, Appended
  PROVE  Covers'
<1>1. /\ src.pc = "wait" /\ src \in Turn /\ UNCHANGED <<Rest, offsets, stored>>
      /\ call[Source].pc # "waiting"
      /\ src' = Idle \/ src' = [src EXCEPT !.pc = "store"]
  BY TurnFacts DEF Appended, Failed, Basics
<1>2. CASE src' = Idle
  BY <1>1, <1>2, AwayPc, AwayCovers
<1>3. CASE src' = [src EXCEPT !.pc = "store"]
  <2>1. src'.pc = "store" /\ src'.next = src.next
    BY <1>1, <1>3 DEF Turn
  <2>2. Posted = {}
    BY <1>1, NonePosted DEF Basics
  <2>3. Covered(Reached, src.next.gen, src.next.offset)
    <3>1. Covered(Reached \cup Posted, src.next.gen, src.next.offset)
      BY <1>1 DEF Covers, TurnCovers
    <3>2. Reached \cup Posted = Reached
      BY <2>2
    <3> QED
      BY <3>1, <3>2
  <2>4. TurnCovers'
    BY <1>1, <2>1, <2>3 DEF TurnCovers, Covered, Rest, Reached
  <2> QED
    BY <1>1, <2>4, PlacesKeep DEF Covers, Covered
<1> QED
  BY <1>1, <1>2, <1>3

(* so the offset that is stored covers no more than that.                   *)
LEMMA StoreCovers ==
  ASSUME Basics, Covers, [Next]_vars, NEW fails \in BOOLEAN, Store(fails)
  PROVE  Covers'
<1>1. /\ src.pc = "store" /\ Path \in PathSet /\ UNCHANGED Rest /\ src.next \in Place
      /\ src' = Idle \/ src' = Onward
      /\ offsets' = offsets \/ offsets' = [offsets EXCEPT ![Path] = src.next]
      /\ stored' = stored \/ stored' = [stored EXCEPT ![Path] = src.next]
  BY TurnFacts DEF Store, Failed, Basics
<1>2. TurnCovers'
  <2>1. src'.pc \in {"idle", "stat", "size"}
    BY <1>1, AwayPc
  <2> QED
    BY <2>1 DEF TurnCovers
<1>3. CoveredIn(contents', Reached', src.next.gen, src.next.offset)
  BY <1>1 DEF Covers, TurnCovers, Covered, Reached, Rest
<1>4. ASSUME NEW p \in PathSet
      PROVE  /\ CoveredIn(contents', Reached', offsets'[p].gen, offsets'[p].offset)
             /\ CoveredIn(contents', Reached', stored'[p].gen, stored'[p].offset)
  <2>1. offsets'[p] \in {offsets[p], src.next} /\ stored'[p] \in {stored[p], src.next}
    BY <1>1, LoopFacts
  <2> QED
    BY <1>3, <2>1, PlacesKeep
<1> QED
  BY <1>2, <1>4 DEF Covers, Covered

(* What a step of the others, of the shards or of none does to the turn.    *)
LEMMA ElseCovers ==
  ASSUME Basics, Covers, [Next]_vars, UNCHANGED <<src, offsets, stored>>,
         Reached \cup Posted \subseteq Reached' \cup Posted'
  PROVE  Covers'
<1>1. Longer(contents, contents') /\ Reached \subseteq Reached'
  BY StepGrows
<1>2. src.next.gen \in {Mixed} \cup 0..Len(contents) /\ src.next.offset \in Nat
  BY TurnFacts DEF Basics, IsOffset, Place
<1>3. src.pc = "append" =>
        /\ CoveredIn(contents', Reached', src.next.gen, First)
        /\ src.next.gen \in DOMAIN contents'
             => Ahead(src.lines, contents'[src.next.gen].cells, First)
  <2>1. SUFFICES ASSUME src.pc = "append", src.next.gen \in DOMAIN contents'
                 PROVE  /\ CoveredIn(contents', Reached', src.next.gen, First)
                        /\ Ahead(src.lines, contents'[src.next.gen].cells, First)
    BY DEF CoveredIn
  <2>2. src.next.gen \in 1..Len(contents) /\ src.next.gen \in DOMAIN contents
    BY <1>1, <1>2, <2>1, LongerFacts DEF Mixed
  <2>3. Ahead(src.lines, contents[src.next.gen].cells, First)
        /\ Covered(Reached, src.next.gen, First)
    BY <2>1, <2>2 DEF Covers, TurnCovers
  <2>4. First \in Nat
    BY <2>3 DEF Ahead
  <2>5. CoveredIn(contents', Reached', src.next.gen, First)
    BY <1>1, <1>2, <2>3, <2>4, CoveredKeeps DEF Covered
  <2>6. Ahead(src.lines, contents'[src.next.gen].cells, First)
    <3>1. PICK x, y : x = contents[src.next.gen].cells /\ y = contents'[src.next.gen].cells
      OBVIOUS
    <3>2. x \in Seq(Cell) /\ y \in Seq(Cell) /\ Len(x) <= Len(y) /\ \A i \in 1..Len(x) : y[i] = x[i]
      BY <1>1, <2>2, <3>1, LongerFacts DEF Longer
    <3> QED
      BY <2>3, <3>1, <3>2, AheadKeeps
  <2> QED
    BY <2>5, <2>6
<1>4. src.pc = "wait" => CoveredIn(contents', Reached' \cup Posted', src.next.gen, src.next.offset)
  BY <1>1, <1>2, CoveredKeeps DEF Covers, TurnCovers, Covered
<1>5. src.pc = "store" => CoveredIn(contents', Reached', src.next.gen, src.next.offset)
  BY <1>1, <1>2, CoveredKeeps DEF Covers, TurnCovers, Covered
<1>6. src.pc = "read" => src.start = 0 \/ src.start = offsets[Path].offset
  BY DEF Covers, TurnCovers
<1>7. TurnCovers'
  <2>1. src' = src /\ offsets' = offsets /\ First' = First /\ Path' = Path
    BY DEF First, Path
  <2> QED
    BY <1>3, <1>4, <1>5, <1>6, <2>1 DEF TurnCovers, Covered
<1> QED
  BY <1>7, PlacesKeep DEF Covers, Covered

(* A letter that is delivered is accepted, and a flush loses none.          *)
LEMMA EngineCovers ==
  ASSUME Basics, Covers, [Next]_vars, EngineStep
  PROVE  Covers'
<1>1. UNCHANGED <<src, offsets, stored>> /\ taken' = taken \cup Queued' /\ refused' = refused
  BY DEF EngineStep, sourceVars
<1>2. ASSUME NEW c \in Posted PROVE c \in Reached' \cup Posted'
  <2>1. CASE \E s \in Shards : Deliver(s)
    BY <1>1, <1>2, <2>1, DeliverIs, DeliverReach DEF Basics, Reached
  <2>2. CASE ~\E s \in Shards : Deliver(s)
    <3>1. inbox' = inbox
      BY <2>2, AnswerIs, FlushIs DEF EngineStep, Basics, Answers, Flushes
    <3> QED
      BY <1>2, <3>1 DEF Posted
  <2> QED
    BY <2>1, <2>2
<1>3. Reached \subseteq Reached'
  BY StepGrows
<1> QED
  BY <1>1, <1>2, <1>3, ElseCovers

(* After a crash nothing of the turn is left.                               *)
LEMMA CrashCovers ==
  ASSUME Basics, Covers, [Next]_vars, Crash
  PROVE  Covers'
<1>1. src' = Idle /\ stored' = stored /\ offsets' = [p \in PathSet |-> Nowhere]
  BY DEF Crash
<1>2. \A p \in PathSet : offsets'[p] \in {offsets[p], stored[p], Nowhere}
  BY <1>1
<1> QED
  BY <1>1, <1>2, AwayPc, AwayCovers

(* Every step keeps the second layer.                                       *)
LEMMA CoversStep ==
  ASSUME Basics, Covers, [Next]_vars
  PROVE  Covers'
<1>1. CASE WorldStep
  <2>1. FilesOK /\ used.cells \in Nat
    BY LoopFacts
  <2>2. Grown
    BY <1>1, <2>1, WorldGrows
  <2>3. UNCHANGED <<src, offsets, stored>> /\ Posted' = Posted
    BY <2>2 DEF Grown, engineVars, Posted
  <2> QED
    BY <2>3, StepGrows, ElseCovers
<1>2. CASE Boot \/ UNCHANGED vars
  <2>1. UNCHANGED <<src, offsets, stored>> /\ inbox' = inbox
    BY <1>2 DEF Boot, Start, vars, sourceVars, engineVars
  <2>2. Posted' = Posted
    BY <2>1 DEF Posted
  <2> QED
    BY <2>1, <2>2, StepGrows, ElseCovers
<1> QED
  BY <1>1, <1>2, NextIs, PollCovers, StatCovers, SizeCovers, ReadCovers, AppendCovers,
     AppendedCovers, StoreCovers, EngineCovers, CrashCovers

(* At first all offsets are zero.                                           *)
LEMMA InitCovers ==
  ASSUME Init
  PROVE  Covers
<1>1. src = Idle /\ \A p \in PathSet : offsets[p] = Nowhere /\ stored[p] = Nowhere
  BY DEF Init
<1>2. Nowhere.gen \notin DOMAIN contents
  BY InitBasics DEF Nowhere, Basics, FilesOK
<1> QED
  BY <1>1, <1>2 DEF Covers, TurnCovers, Covered, CoveredIn, Idle

(* An offset file never runs ahead of the engine, over pauses, limits,      *)
(* failed appends and stores, rotations, truncations and crashes            *)
(* (agent.cc:404-405).                                                      *)
THEOREM StoredCoversHolds == Spec => []StoredCovers
<1>1. Init => Basics /\ Covers
  BY InitBasics, InitCovers
<1>2. Basics /\ Covers /\ [Next]_vars => (Basics /\ Covers)'
  BY BasicsStep, CoversStep
<1>3. Basics /\ Covers => StoredCovers
  <2>1. ASSUME Basics, Covers, NEW p \in PathSet, file[p] # Absent, stored[p].gen = file[p].gen,
               NEW i \in 1..stored[p].offset, CellsAt(p)[i] # NL
        PROVE  CellsAt(p)[i] \in taken \cup refused
    <3>1. Covered(Reached, stored[p].gen, stored[p].offset) /\ stored[p].gen \in DOMAIN contents
      BY <2>1, LoopFacts DEF Covers, FilesOK
    <3>2. CellsAt(p) = contents[stored[p].gen].cells
      BY <2>1 DEF CellsAt
    <3> QED
      BY <2>1, <3>1, <3>2 DEF Covered, CoveredIn, Reached
  <2> QED
    BY <2>1 DEF StoredCovers
<1> QED
  BY <1>1, <1>2, <1>3, PTL DEF Spec

-----------------------------------------------------------------------------
(* What a shard was sent, and how the steps of the engine change it.        *)
LEMMA SentType ==
  ASSUME EngineOK, NEW s \in Shards
  PROVE  /\ log[s] \in Seq(Msg) /\ queue[s] \in Seq(Msg) /\ Sent(s) \in Seq(Msg)
         /\ (inbox[s] # <<>> => Len(inbox[s]) = 1 /\ inbox[s][1].msgs \in Seq(Msg))
         /\ inbox[s] = <<>> => Sent(s) = log[s] \o queue[s]
<1>1. log[s] \in Seq(Msg) /\ queue[s] \in Seq(Msg) /\ inbox[s] \in Seq(Letter) /\ Len(inbox[s]) <= 1
  BY DEF EngineOK
<1>2. inbox[s] # <<>> => Len(inbox[s]) = 1 /\ inbox[s][1].msgs \in Seq(Msg)
  <2>1. PICK q : q = inbox[s]
    OBVIOUS
  <2>2. q \in Seq(Letter) /\ Len(q) <= 1
    BY <1>1, <2>1
  <2>3. q # <<>> => Len(q) = 1 /\ q[1] \in Letter
    <3>1. ASSUME q # <<>> PROVE Len(q) = 1
      <4>1. Len(q) \in Nat /\ Len(q) # 0
        BY ONLY <2>2, <3>1, EmptySeq
      <4>2. PICK n : n = Len(q)
        OBVIOUS
      <4>3. n \in Nat /\ n # 0 /\ n <= 1
        BY ONLY <2>2, <4>1, <4>2
      <4>4. n = 1
        BY ONLY <4>3
      <4> QED
        BY ONLY <4>2, <4>4
    <3>2. Len(q) = 1 => q[1] \in Letter
      BY ONLY <2>2
    <3> QED
      BY ONLY <3>1, <3>2
  <2>4. q # <<>> => Len(q) = 1 /\ q[1].msgs \in Seq(Msg)
    BY ONLY <2>3 DEF Letter
  <2> QED
    BY <2>1, <2>4
<1>3. PICK a, b : a = log[s] \o queue[s] /\ b = IF inbox[s] = <<>> THEN <<>> ELSE inbox[s][1].msgs
  OBVIOUS
<1>4. a \in Seq(Msg) /\ b \in Seq(Msg)
  <2>1. <<>> \in Seq(Msg)
    OBVIOUS
  <2> QED
    BY <1>1, <1>2, <1>3, <2>1
<1>5. Sent(s) = a \o b
  BY <1>3 DEF Sent
<1>6. a \o b \in Seq(Msg) /\ a \o <<>> = a
  BY <1>4, ConcatEmptySeq
<1> QED
  BY <1>1, <1>2, <1>3, <1>5, <1>6

(* Concatenations that change places.                                       *)
LEMMA Concats ==
  ASSUME NEW l \in Seq(Msg), NEW q \in Seq(Msg), NEW m \in Seq(Msg)
  PROVE  /\ (l \o (q \o m)) \o <<>> = (l \o q) \o m
         /\ ((l \o q) \o <<>>) \o m = (l \o q) \o m
         /\ (l \o q) \o <<>> = l \o q
<1>1. l \o q \in Seq(Msg) /\ q \o m \in Seq(Msg) /\ l \o (q \o m) \in Seq(Msg)
  BY ConcatProperties
<1>2. (l \o q) \o m = l \o (q \o m)
  BY ConcatAssociative
<1>3. (l \o q) \o <<>> = l \o q /\ (l \o (q \o m)) \o <<>> = l \o (q \o m)
  BY <1>1, ConcatEmptySeq
<1> QED
  BY <1>2, <1>3

(* A letter, an answer or a flush only moves it.                            *)
LEMMA MoveSent ==
  ASSUME EngineOK, NEW s \in Shards, Delivers(s) \/ Answers(s) \/ Flushes(s), NEW t \in Shards
  PROVE  Sent(t)' = Sent(t)
<1>1. CASE Answers(s)
  BY <1>1 DEF Answers, Sent
<1>2. CASE t # s /\ ~Answers(s)
  <2>1. log'[t] = log[t] /\ queue'[t] = queue[t] /\ inbox'[t] = inbox[t]
    BY <1>2 DEF EngineOK, Delivers, Flushes
  <2> QED
    BY <2>1 DEF Sent
<1>3. CASE t = s /\ Delivers(s)
  <2>1. PICK l, q, m : l = log[s] /\ q = queue[s] /\ m = inbox[s][1].msgs
    OBVIOUS
  <2>2. Len(inbox[s]) = 1 /\ inbox[s][1] \in Letter
    BY <1>3 DEF Delivers
  <2>3. inbox[s] # <<>>
    <3>1. Len(<<>>) = 0
      OBVIOUS
    <3> QED
      BY ONLY <2>2, <3>1
  <2>4. l \in Seq(Msg) /\ q \in Seq(Msg) /\ m \in Seq(Msg)
    BY <2>1, <2>3, SentType
  <2>5. log'[s] = l /\ queue'[s] = q \o m /\ inbox'[s] = <<>>
    BY <1>3, <2>1 DEF Delivers, EngineOK
  <2>6. Sent(s) = (l \o q) \o m
    BY <2>1, <2>3 DEF Sent
  <2>7. Sent(s)' = (l \o (q \o m)) \o <<>>
    BY <2>5 DEF Sent
  <2> QED
    BY <1>3, <2>4, <2>6, <2>7, Concats
<1>4. CASE t = s /\ Flushes(s)
  <2>1. PICK l, q, m : l = log[s] /\ q = queue[s]
             /\ m = IF inbox[s] = <<>> THEN <<>> ELSE inbox[s][1].msgs
    OBVIOUS
  <2>2. l \in Seq(Msg) /\ q \in Seq(Msg) /\ m \in Seq(Msg)
    <3>1. <<>> \in Seq(Msg)
      OBVIOUS
    <3> QED
      BY <2>1, <3>1, SentType
  <2>3. log'[s] = l \o q /\ queue'[s] = <<>> /\ inbox'[s] = inbox[s]
    BY <1>4, <2>1 DEF Flushes, EngineOK
  <2>4. Sent(s) = (l \o q) \o m /\ Sent(s)' = ((l \o q) \o <<>>) \o m
    BY <2>1, <2>3 DEF Sent
  <2> QED
    BY <1>4, <2>2, <2>4, Concats
<1> QED
  BY <1>1, <1>2, <1>3, <1>4

(* A batch adds a part to each shard.                                       *)
LEMMA SendsSent ==
  ASSUME EngineOK, NEW msgs, NEW shards, Sends(msgs, shards), NEW s \in Shards
  PROVE  PartFor(msgs, shards, s) \in Seq(Msg) /\ Sent(s)' = Sent(s) \o PartFor(msgs, shards, s)
<1>1. PICK l, q, part : l = log[s] /\ q = queue[s] /\ part = PartFor(msgs, shards, s)
  OBVIOUS
<1>2. /\ part \in Seq(Msg) /\ inbox[s] = <<>> /\ log'[s] = l
      /\ queue'[s] = IF s = Home[Source] THEN q \o part ELSE q
      /\ inbox'[s] = IF s # Home[Source] /\ part # <<>>
                     THEN <<[caller |-> Source, msgs |-> part]>> ELSE <<>>
  BY <1>1 DEF Sends
<1>3. l \in Seq(Msg) /\ q \in Seq(Msg)
  BY <1>1, SentType
<1>4. Sent(s) = l \o q
  BY <1>1, <1>2, SentType
<1>5. CASE s = Home[Source]
  <2>1. Sent(s)' = (l \o (q \o part)) \o <<>>
    BY <1>2, <1>5 DEF Sent
  <2>2. (l \o (q \o part)) \o <<>> = (l \o q) \o part
    BY ONLY <1>2, <1>3, Concats
  <2> QED
    BY ONLY <1>1, <1>2, <1>4, <2>1, <2>2
<1>6. CASE s # Home[Source] /\ part # <<>>
  <2>1. inbox'[s] = <<[caller |-> Source, msgs |-> part]>>
    BY <1>2, <1>6
  <2>2. inbox'[s] # <<>> /\ inbox'[s][1].msgs = part
    BY <2>1
  <2>3. Sent(s)' = (l \o q) \o part
    BY <1>2, <1>6, <2>2 DEF Sent
  <2> QED
    BY <1>1, <1>2, <1>4, <2>3
<1>7. CASE s # Home[Source] /\ part = <<>>
  <2>1. Sent(s)' = (l \o q) \o part
    BY <1>2, <1>7 DEF Sent
  <2> QED
    BY <1>1, <1>2, <1>4, <2>1
<1> QED
  BY <1>5, <1>6, <1>7

(* The process dies: what is on disk stays.                                 *)
LEMMA CrashSent ==
  ASSUME EngineOK, Crash, NEW s \in Shards
  PROVE  Sent(s)' = log[s]
<1>1. log'[s] = log[s] /\ queue'[s] = <<>> /\ inbox'[s] = <<>> /\ log[s] \in Seq(Msg)
  BY DEF Crash, EngineCrash, EngineOK
<1>2. Sent(s)' = (log[s] \o <<>>) \o <<>>
  BY <1>1 DEF Sent
<1>3. log[s] \o <<>> = log[s]
  BY <1>1, ConcatEmptySeq
<1> QED
  BY <1>2, <1>3

-----------------------------------------------------------------------------
(* A step leaves what a shard was sent, adds a part of the batch or cuts it *)
(* to what is on disk.                                                      *)
LEMMA SentStep ==
  ASSUME Basics, [Next]_vars, ~AppendLines, ~Crash, NEW s \in Shards
  PROVE  Sent(s)' = Sent(s)
<1>1. CASE EngineStep
  BY <1>1, DeliverIs, AnswerIs, FlushIs, MoveSent DEF EngineStep, Basics
<1>2. CASE WorldStep
  <2>1. FilesOK /\ used.cells \in Nat
    BY LoopFacts
  <2>2. UNCHANGED engineVars
    BY <1>2, <2>1, WorldGrows DEF Grown
  <2> QED
    BY <2>2 DEF engineVars, Sent
<1>3. CASE ~EngineStep /\ ~WorldStep
  <2>1. UNCHANGED <<log, queue, inbox>>
    BY <1>3, NextIs DEF Poll, Stat, FileSize, Read, Appended, Store, Boot, Start, Rest, vars,
      engineVars
  <2> QED
    BY <2>1 DEF Sent
<1> QED
  BY <1>1, <1>2, <1>3

(* A batch: a message that is new on a shard is one of the batch.           *)
LEMMA SendsNew ==
  ASSUME EngineOK, NEW msgs, NEW shards, Sends(msgs, shards), NEW s \in Shards,
         NEW k \in 1..Len(Sent(s)')
  PROVE  \/ k \in 1..Len(Sent(s)) /\ Sent(s)'[k] = Sent(s)[k]
         \/ k > Len(Sent(s)) /\ \E m \in 1..Len(msgs) :
              Sent(s)'[k] = msgs[m] /\ shards[m] = s
                /\ m = Nth(Mine(msgs, shards, s), k - Len(Sent(s)))
<1>1. PICK a, part, new, mine : a = Sent(s) /\ part = PartFor(msgs, shards, s) /\ new = Sent(s)'
                          /\ mine = Mine(msgs, shards, s)
  OBVIOUS
<1>2. a \in Seq(Msg) /\ part \in Seq(Msg) /\ new = a \o part
  BY <1>1, SentType, SendsSent
<1>3. Len(a) \in Nat /\ Len(part) \in Nat /\ k \in 1..(Len(a) + Len(part))
  BY <1>1, <1>2
<1>4. new[k] = IF k <= Len(a) THEN a[k] ELSE part[k - Len(a)]
  BY <1>2, <1>3, ConcatProperties
<1>5. CASE k <= Len(a)
  BY <1>1, <1>3, <1>4, <1>5
<1>6. CASE ~(k <= Len(a))
  <2>1. msgs \in Seq(Msg) /\ shards \in [1..Len(msgs) -> Shards]
    BY DEF Sends
  <2>2. k - Len(a) \in 1..Len(part) /\ k > Len(a)
    BY <1>3, <1>6
  <2>3. \A j \in 1..Len(part) : Nth(mine, j) \in mine /\ part[j] = msgs[Nth(mine, j)]
    <3>1. PICK M : M = Msg
      OBVIOUS
    <3>2. msgs \in Seq(M) /\ shards \in [1..Len(msgs) -> Shards]
      BY ONLY <2>1, <3>1
    <3>3. LET mine1 == Mine(msgs, shards, s)
              part1 == PartFor(msgs, shards, s)
          IN  /\ part1 \in Seq(M) /\ Len(part1) = Cardinality(mine1)
              /\ mine1 \in SUBSET (1..Len(msgs))
              /\ \A j \in 1..Len(part1) : Nth(mine1, j) \in mine1 /\ part1[j] = msgs[Nth(mine1, j)]
              /\ \A i \in mine1 : \E j \in 1..Len(part1) : Nth(mine1, j) = i
      BY ONLY <3>2, PartIs
    <3> QED
      BY ONLY <1>1, <3>3
  <2>4. Nth(mine, k - Len(a)) \in mine /\ part[k - Len(a)] = msgs[Nth(mine, k - Len(a))]
    BY <2>2, <2>3
  <2>5. Nth(mine, k - Len(a)) \in 1..Len(msgs) /\ shards[Nth(mine, k - Len(a))] = s
    BY <1>1, <2>4 DEF Mine
  <2> QED
    BY <1>1, <1>4, <1>6, <2>2, <2>4, <2>5
<1> QED
  BY <1>5, <1>6

-----------------------------------------------------------------------------
(* A record that lies in the file goes on to do so.                         *)
LEMMA ValidKeeps ==
  ASSUME NEW c, NEW d, Longer(c, d), NEW r, NEW t, r \subseteq t, NEW multiline, NEW m \in Msg,
         Valid(c, r, multiline, m)
  PROVE  Valid(d, t, multiline, m)
<1>1. m.gen \in {Mixed} \cup 1..Len(c) /\ Len(c) \in Nat /\ Len(d) \in Nat /\ DOMAIN d = 1..Len(d)
      /\ Len(c) <= Len(d) /\ m.cells \in Seq(Cell) /\ Len(m.cells) \in Nat
  BY LongerFacts DEF Valid, Longer, Msg
<1>2. m.gen \in {Mixed} \cup DOMAIN d
  BY <1>1
<1>3. ASSUME m.gen # Mixed, t = {}, multiline => ~Blank(d[m.gen].cells)
      PROVE  Lies(d[m.gen].cells, m)
  <2>1. m.gen \in 1..Len(c)
    BY <1>1, <1>3
  <2>2. PICK x, y : x = c[m.gen].cells /\ y = d[m.gen].cells
    OBVIOUS
  <2>3. /\ x \in Seq(Cell) /\ y \in Seq(Cell) /\ Len(x) \in Nat /\ Len(y) \in Nat
        /\ Len(x) <= Len(y) /\ \A i \in 1..Len(x) : y[i] = x[i]
    BY <2>1, <2>2, LongerFacts DEF Longer
  <2>4. Blank(x) => Blank(y)
    <3>1. ASSUME NEW i \in DOMAIN x, x[i] = NL, i = 1 \/ x[i - 1] = NL
          PROVE  i \in DOMAIN y /\ y[i] = NL /\ (i = 1 \/ y[i - 1] = NL)
      <4>1. i \in 1..Len(x) /\ i \in 1..Len(y) /\ (i = 1 \/ i - 1 \in 1..Len(x))
        BY <2>3, <3>1
      <4> QED
        BY <2>3, <3>1, <4>1
    <3> QED
      BY <3>1 DEF Blank
  <2>5. Lies(x, m)
    <3>1. r = {}
      BY <1>3
    <3> QED
      BY <1>3, <2>2, <2>4, <3>1 DEF Valid
  <2>6. PICK at, l : at = m.at /\ l = Len(m.cells)
    OBVIOUS
  <2>7. /\ at \in Nat /\ l \in Nat /\ at + l < Len(x) /\ x[at + l + 1] = NL
        /\ at > 0 => x[at] = NL
        /\ \A i \in 1..l : x[at + i] = m.cells[i]
    BY <1>1, <2>5, <2>6 DEF Lies, LiesAt
  <2>8. /\ at + l + 1 \in 1..Len(x) /\ (at > 0 => at \in 1..Len(x)) /\ at + l < Len(y)
        /\ \A i \in 1..l : at + i \in 1..Len(x)
    <3>1. at \in Nat /\ l \in Nat /\ at + l < Len(x) /\ Len(x) \in Nat /\ Len(y) \in Nat
          /\ Len(x) <= Len(y)
      BY <2>3, <2>7
    <3> QED
      BY ONLY <3>1
  <2>9. /\ at \in Nat /\ at + l < Len(y) /\ y[at + l + 1] = NL
        /\ at > 0 => y[at] = NL
        /\ \A i \in 1..l : y[at + i] = m.cells[i]
    BY <2>3, <2>7, <2>8
  <2> QED
    BY <2>2, <2>6, <2>9 DEF Lies, LiesAt
<1> QED
  BY <1>2, <1>3 DEF Valid

-----------------------------------------------------------------------------
(* A record that is not empty has a character, unless empty lines were      *)
(* dropped.                                                                 *)
LEMMA RecordHasChars ==
  ASSUME NEW cells \in Seq(Cell), NEW first \in Nat, NEW lines, NEW F,
         LinesIn(lines, cells, first, F), NoneDropped(lines), NEW records, NEW B,
         records = ApplyMultiline(lines),
         Parted(records, B, Len(lines), lines, cells, first, F),
         NEW k \in 1..Len(records), Len(records[k]) # 0
  PROVE  Chars(records[k]) # {}
<1>1. /\ Len(lines) \in Nat
      /\ \A n \in 1..Len(lines) :
           /\ lines[n] \in Seq(Cell) /\ Len(lines[n]) \in Nat
           /\ \A j \in 1..Len(lines[n]) : lines[n][j] # NL
  BY LinesInFacts
<1>2. ASSUME NEW n \in 1..Len(lines), Len(lines[n]) # 0 PROVE Chars(lines[n]) # {}
  <2>1. PICK q : q = lines[n]
    OBVIOUS
  <2>2. q \in Seq(Cell) /\ Len(q) \in Nat /\ Len(q) # 0 /\ \A j \in 1..Len(q) : q[j] # NL
    BY <1>1, <1>2, <2>1
  <2>3. 1 \in 1..Len(q) /\ q[1] # NL
    BY ONLY <2>2
  <2>4. q[1] \in Chars(q)
    BY ONLY <2>2, <2>3, CharsAre
  <2> QED
    BY <2>1, <2>4
<1>3. CASE ~options.multiline
  <2>1. records = lines
    BY <1>3 DEF ApplyMultiline
  <2> QED
    BY <1>2, <2>1
<1>4. CASE options.multiline
  <2>1. /\ B \in [0..Len(records) -> 0..Len(lines)] /\ records \in Seq(Seq(Cell))
        /\ IsRecord(records[k], B[k - 1], B[k], lines, cells, first, F)
    BY DEF Parted
  <2>2. k - 1 \in 0..Len(records) /\ k \in 0..Len(records)
    <3>1. Len(records) \in Nat
      BY <2>1
    <3> QED
      BY <3>1
  <2>3. PICK a, b : a = B[k - 1] /\ b = B[k]
    OBVIOUS
  <2>4. a \in 0..Len(lines) /\ b \in 0..Len(lines) /\ a < b
    BY <2>1, <2>2, <2>3 DEF IsRecord
  <2>5. a + 1 \in 1..Len(lines) /\ a + 1 \in (a + 1)..b
    BY ONLY <1>1, <2>4
  <2>6. Len(lines[a + 1]) # 0
    <3>1. lines[a + 1] # <<>> /\ lines[a + 1] \in Seq(Cell)
      BY <1>1, <1>4, <2>5 DEF NoneDropped
    <3> QED
      BY ONLY <3>1, EmptySeq
  <2>7. PICK c : c \in Chars(lines[a + 1])
    BY <1>2, <2>5, <2>6
  <2>8. c \in Chars(records[k])
    BY <2>1, <2>3, <2>5, <2>7 DEF IsRecord
  <2> QED
    BY <2>8
<1> QED
  BY <1>3, <1>4

(* The size of the first k records.                                         *)
LEMMA SizeUpTo ==
  ASSUME NEW C, NEW records \in Seq(Seq(C)), NEW R, Sums(R, records), NEW k \in 0..Len(records)
  PROVE  Size(SubSeq(records, 1, k)) = R[k]
<1>1. PICK part : part = SubSeq(records, 1, k)
  OBVIOUS
<1>2. Len(records) \in Nat /\ k \in Nat
  OBVIOUS
<1>3. part \in Seq(Seq(C)) /\ Len(part) = k /\ \A i \in 1..k : part[i] = records[i]
  <2>1. \A i \in 1..k : records[i] \in Seq(C)
    BY <1>2
  <2>2. 1 \in Int /\ k \in Int
    BY <1>2
  <2>3. /\ SubSeq(records, 1, k) \in Seq(Seq(C))
        /\ Len(SubSeq(records, 1, k)) = IF 1 <= k THEN k - 1 + 1 ELSE 0
        /\ \A i \in 1..(k - 1 + 1) : SubSeq(records, 1, k)[i] = records[1 + i - 1]
    BY ONLY <2>1, <2>2, SubSeqProperties
  <2>4. k - 1 + 1 = k /\ (\A i \in 1..k : 1 + i - 1 = i) /\ (~(1 <= k) => k = 0)
    BY <1>2
  <2> QED
    BY <1>1, <2>3, <2>4
<1>4. PICK F : Sums(F, part) /\ Size(part) = F[Len(part)]
  BY <1>3, SizeSums
<1>5. /\ F[0] = 0 /\ R[0] = 0
      /\ \A n \in 1..k : F[n] = F[n - 1] + Len(records[n]) + 1
      /\ \A n \in 1..k : R[n] = R[n - 1] + Len(records[n]) + 1
  <2>1. F[0] = 0 /\ \A n \in 1..Len(part) : F[n] = F[n - 1] + Len(part[n]) + 1
    BY <1>4 DEF Sums
  <2>2. R[0] = 0 /\ \A n \in 1..Len(records) : R[n] = R[n - 1] + Len(records[n]) + 1
    BY DEF Sums
  <2>3. \A n \in 1..k : n \in 1..Len(records) /\ n \in 1..Len(part)
    BY <1>2, <1>3
  <2> QED
    BY <1>3, <2>1, <2>2, <2>3
<1> DEFINE S == {n \in Nat : n <= k => F[n] = R[n]}
<1>6. Nat \subseteq S
  <2>1. 0 \in S
    BY <1>5
  <2>2. ASSUME NEW n \in Nat, n \in S PROVE n + 1 \in S
    <3>1. CASE n + 1 <= k
      <4>1. n <= k /\ n + 1 \in 1..k /\ (n + 1) - 1 = n
        BY <1>2, <3>1
      <4>2. F[n + 1] = F[n] + Len(records[n + 1]) + 1 /\ R[n + 1] = R[n] + Len(records[n + 1]) + 1
        BY <1>5, <4>1
      <4> QED
        BY <2>2, <4>1, <4>2
    <3>2. CASE ~(n + 1 <= k)
      BY <3>2
    <3> QED
      BY <3>1, <3>2
  <2> HIDE DEF S
  <2> QED
    BY <2>1, <2>2, Inductive
<1>7. F[k] = R[k]
  BY <1>2, <1>6
<1> QED
  BY <1>1, <1>3, <1>4, <1>7

(* Unless one with a character is refused, all records are within limits:   *)
(* the first to go over the bytes in the buffer is not empty.               *)
LEMMA AllFit ==
  ASSUME OptionsOK, NEW records \in Seq(Seq(Cell)),
         \A k \in 1..Len(records) :
           ~WithinLimits(records, k) => Len(records[k]) = 0
  PROVE  \A k \in 1..Len(records) : WithinLimits(records, k)
<1>1. PICK R : Sums(R, records)
  BY SizeSums
<1>2. /\ Len(records) \in Nat /\ R[0] = 0
      /\ \A n \in 0..Len(records) : R[n] \in Nat
      /\ \A n \in 1..Len(records) : R[n] = R[n - 1] + Len(records[n]) + 1
      /\ \A n \in 1..Len(records) : Len(records[n]) \in Nat
  <2>1. \A n \in 1..Len(records) : records[n] \in Seq(Cell)
    OBVIOUS
  <2>2. \A n \in 1..Len(records) : Len(records[n]) \in Nat
    BY <2>1
  <2>3. R \in [0..Len(records) -> Nat] /\ R[0] = 0
        /\ \A n \in 1..Len(records) : R[n] = R[n - 1] + Len(records[n]) + 1
    BY <1>1 DEF Sums
  <2>4. Len(records) \in Nat
    OBVIOUS
  <2>5. \A n \in 0..Len(records) : R[n] \in Nat
    BY ONLY <2>3
  <2> QED
    BY ONLY <2>2, <2>3, <2>4, <2>5
<1>3. options.max_message \in Nat /\ options.max_buffer \in Nat
  BY DEF OptionsOK
<1>4. PICK most, room : most = options.max_message /\ room = options.max_buffer
  OBVIOUS
<1>5. ASSUME NEW k \in 1..Len(records)
      PROVE  WithinLimits(records, k) <=>
               /\ most > 0 => Len(records[k]) <= most
               /\ room > 0 => R[k] - k <= room
  <2>1. Size(SubSeq(records, 1, k)) = R[k]
    <3>1. k \in 0..Len(records)
      BY <1>2
    <3> QED
      BY <1>1, <3>1, SizeUpTo
  <2> QED
    BY <1>4, <2>1 DEF WithinLimits
<1>6. SUFFICES ASSUME NEW k0 \in 1..Len(records), ~WithinLimits(records, k0) PROVE FALSE
  OBVIOUS
<1>7. Len(records[k0]) = 0
  BY <1>6
<1>8. room > 0 /\ R[k0] - k0 > room
  <2>1. R[k0] \in Nat /\ k0 \in Nat
    BY <1>2
  <2>2. ~(room > 0 => R[k0] - k0 <= room)
    BY <1>3, <1>4, <1>5, <1>6, <1>7
  <2> QED
    BY <1>3, <1>4, <2>1, <2>2
<1> DEFINE T == {n \in 1..Len(records) : R[n] - n > room}
<1>9. T \subseteq Nat /\ T # {}
  BY <1>8
<1>10. PICK k \in T : \A n \in T : k <= n
  BY <1>9, Least
<1>11. Len(records[k]) # 0
  <2>1. PICK x, y, l : x = R[k - 1] /\ y = R[k] /\ l = Len(records[k])
    OBVIOUS
  <2>2. k - 1 \in 0..Len(records) /\ k \in 0..Len(records)
    BY <1>2
  <2>3. x \in Nat /\ y \in Nat /\ l \in Nat /\ y = x + l + 1 /\ y - k > room /\ k \in Nat \ {0}
    BY <1>2, <2>1, <2>2
  <2>4. ~(x - (k - 1) > room)
    <3>1. CASE k = 1
      <4>1. x = 0
        BY <1>2, <2>1, <3>1
      <4> QED
        BY <1>8, <1>3, <1>4, <3>1, <4>1
    <3>2. CASE k # 1
      <4>1. k - 1 \in 1..Len(records) /\ ~(k <= k - 1)
        BY <1>2, <3>2
      <4>2. k - 1 \notin T
        BY <1>10, <4>1
      <4> QED
        BY <2>1, <4>1, <4>2
    <3> QED
      BY <3>1, <3>2
  <2>5. l # 0
    <3>1. room \in Nat
      BY <1>3, <1>4
    <3> QED
      BY ONLY <2>3, <2>4, <3>1
  <2> QED
    BY <2>1, <2>5
<1>12. ~WithinLimits(records, k)
  <2>1. R[k] \in Nat /\ k \in Nat /\ R[k] - k > room /\ room \in Nat
    BY <1>2, <1>3, <1>4
  <2>2. ~(R[k] - k <= room)
    BY ONLY <2>1
  <2> QED
    BY <1>5, <1>8, <2>2
<1> QED
  BY <1>11, <1>12

(* All elements of a sequence, chosen.                                      *)
LEMMA ChosenAll ==
  ASSUME NEW C, NEW q \in Seq(C), NEW set, set = 1..Len(q)
  PROVE  Chosen(q, set) = q
<1>1. PICK n : n = Len(q)
  OBVIOUS
<1>2. n \in Nat /\ set = 1..n /\ set \in SUBSET (1..n)
  BY <1>1
<1>3. ASSUME NEW i \in Nat PROVE Cardinality(1..i) = i
  <2>1. Cardinality(1..i) = IF 1 > i THEN 0 ELSE i - 1 + 1
    BY FS_Interval
  <2> QED
    BY <2>1
<1>4. Cardinality(set) = n
  BY <1>2, <1>3
<1>5. ASSUME NEW k \in 1..n PROVE Nth(set, k) = k
  <2>1. k \in 1..Cardinality(set)
    BY <1>4
  <2>2. Nth(set, k) \in set /\ Cardinality({j \in set : j <= Nth(set, k)}) = k
    BY ONLY <1>2, <2>1, NthIsMember
  <2>3. PICK i : i = Nth(set, k)
    OBVIOUS
  <2>4. i \in 1..n /\ {j \in set : j <= i} = 1..i
    BY <1>2, <2>2, <2>3
  <2>5. Cardinality(1..i) = k
    BY <2>2, <2>3, <2>4
  <2>6. Cardinality(1..i) = i
    BY <1>2, <1>3, <2>4
  <2> QED
    BY <2>3, <2>5, <2>6
<1>6. Chosen(q, set) = [k \in 1..n |-> q[Nth(set, k)]]
  BY <1>4 DEF Chosen
<1>7. Chosen(q, set) = [k \in 1..n |-> q[k]]
  BY <1>5, <1>6
<1>8. q = [k \in 1..n |-> q[k]]
  BY <1>1
<1> QED
  BY <1>7, <1>8

-----------------------------------------------------------------------------
(* Lines of a file without empty lines are not dropped.                     *)
LEMMA NoBlankDropped ==
  ASSUME NEW cells \in Seq(Cell), NEW first \in Nat, NEW lines, NEW F,
         LinesIn(lines, cells, first, F), first = 0 \/ cells[first] = NL,
         options.multiline => ~Blank(cells)
  PROVE  NoneDropped(lines)
<1>1. /\ Len(lines) \in Nat /\ F[0] = 0
      /\ \A n \in 0..Len(lines) : F[n] \in Nat
      /\ \A n \in 1..Len(lines) :
           /\ lines[n] \in Seq(Cell) /\ F[n] = F[n - 1] + Len(lines[n]) + 1
           /\ first + F[n] <= Len(cells) /\ cells[first + F[n]] = NL
  BY LinesInFacts
<1>2. SUFFICES ASSUME options.multiline, NEW j \in 1..Len(lines), lines[j] = <<>> PROVE FALSE
  BY DEF NoneDropped
<1>3. Len(lines[j]) = 0
  <2>1. Len(<<>>) = 0
    OBVIOUS
  <2> QED
    BY <1>2, <2>1
<1>4. PICK x, z : x = F[j - 1] /\ z = F[j]
  OBVIOUS
<1>5. j - 1 \in 0..Len(lines) /\ j \in 0..Len(lines) /\ (j - 1 = 0 \/ j - 1 \in 1..Len(lines))
  BY <1>1
<1>6. x \in Nat /\ z = x + 1 /\ first + z <= Len(cells) /\ cells[first + z] = NL
  BY <1>1, <1>3, <1>4, <1>5
<1>7. Len(cells) \in Nat /\ DOMAIN cells = 1..Len(cells)
  OBVIOUS
<1>8. first + z \in 1..Len(cells) /\ (first + z) - 1 = first + x
  BY ONLY first \in Nat, <1>6, <1>7
<1>9. first + z = 1 \/ cells[first + x] = NL
  <2>1. CASE j - 1 = 0
    <3>1. x = 0 /\ first + x = first
      BY <1>1, <1>4, <2>1
    <3>2. CASE first = 0
      BY <1>6, <3>1, <3>2
    <3>3. CASE cells[first] = NL
      BY <3>1, <3>3
    <3> QED
      BY <3>2, <3>3
  <2>2. CASE j - 1 \in 1..Len(lines)
    BY <1>1, <1>4, <2>2
  <2> QED
    BY <1>5, <2>1, <2>2
<1>10. PICK i : i = first + z
  OBVIOUS
<1>11. i \in DOMAIN cells /\ cells[i] = NL /\ (i = 1 \/ cells[i - 1] = NL)
  BY <1>6, <1>7, <1>8, <1>9, <1>10
<1>12. Blank(cells)
  BY <1>11 DEF Blank
<1> QED
  BY <1>2, <1>12

(* A record is whole lines of the file, where its offset says.              *)
LEMMA RecordsLie ==
  ASSUME OptionsOK, NEW cells \in Seq(Cell), NEW first \in Nat, NEW lines, NEW F,
         LinesIn(lines, cells, first, F), first = 0 \/ cells[first] = NL, NoneDropped(lines),
         NEW records, records = ApplyMultiline(lines), NEW k \in 1..Len(records), NEW at,
         at = first + Size(SubSeq(records, 1, k - 1))
  PROVE  LiesAt(cells, at, records[k])
<1>1. PICK B : Parted(records, B, Len(lines), lines, cells, first, F)
  BY RecordsParted
<1>2. /\ Len(lines) \in Nat /\ F[0] = 0
      /\ \A n \in 0..Len(lines) : F[n] \in Nat
      /\ \A n \in 1..Len(lines) : first + F[n] <= Len(cells) /\ cells[first + F[n]] = NL
  BY LinesInFacts
<1>3. /\ records \in Seq(Seq(Cell)) /\ B \in [0..Len(records) -> 0..Len(lines)] /\ B[0] = 0
      /\ \A n \in 1..Len(records) :
           /\ B[n - 1] < B[n] /\ Len(records[n]) = F[B[n]] - F[B[n - 1]] - 1
           /\ \A i \in 1..Len(records[n]) : records[n][i] = cells[first + F[B[n - 1]] + i]
  BY <1>1 DEF Parted, IsRecord
<1>4. Len(records) \in Nat /\ \A n \in 0..Len(records) : B[n] \in 0..Len(lines)
  <2>1. Len(records) \in Nat
    BY <1>3
  <2>2. \A n \in 0..Len(records) : B[n] \in 0..Len(lines)
    BY ONLY <1>3
  <2> QED
    BY <2>1, <2>2
<1>5. PICK R : Sums(R, records)
  BY <1>3, SizeSums
<1> DEFINE S == {n \in Nat : n <= Len(records) => R[n] = F[B[n]]}
<1>6. Nat \subseteq S
  <2>1. 0 \in S
    BY <1>2, <1>3, <1>5 DEF Sums
  <2>2. ASSUME NEW n \in Nat, n \in S PROVE n + 1 \in S
    <3>1. CASE n + 1 <= Len(records)
      <4>1. n <= Len(records) /\ n + 1 \in 1..Len(records) /\ (n + 1) - 1 = n
            /\ n \in 0..Len(records)
            /\ n + 1 \in 0..Len(records)
        BY <1>4, <3>1
      <4>2. PICK x, y, l : x = F[B[n]] /\ y = F[B[n + 1]] /\ l = Len(records[n + 1])
        OBVIOUS
      <4>3. x \in Nat /\ y \in Nat
        BY <1>2, <1>4, <4>1, <4>2
      <4>4. l = (y - x) - 1
        BY <1>3, <4>1, <4>2
      <4>5. R[n + 1] = R[n] + l + 1 /\ R[n] = x
        <5>1. \A i \in 1..Len(records) : R[i] = R[i - 1] + Len(records[i]) + 1
          BY <1>5 DEF Sums
        <5> QED
          BY <2>2, <4>1, <4>2, <5>1
      <4>6. x + l + 1 = y
        BY ONLY <4>3, <4>4
      <4>7. R[n + 1] = F[B[n + 1]]
        BY <4>2, <4>5, <4>6
      <4> QED
        BY <4>7
    <3>2. CASE ~(n + 1 <= Len(records))
      BY <3>2
    <3> QED
      BY <3>1, <3>2
  <2> HIDE DEF S
  <2> QED
    BY <2>1, <2>2, Inductive
<1>7. k \in 0..Len(records) /\ k - 1 \in 0..Len(records)
  BY <1>4
<1>8. Size(SubSeq(records, 1, k - 1)) = F[B[k - 1]]
  <2>1. Size(SubSeq(records, 1, k - 1)) = R[k - 1]
    BY <1>3, <1>5, <1>7, SizeUpTo
  <2>2. k - 1 \in Nat /\ k - 1 <= Len(records)
    BY <1>4, <1>7
  <2>3. R[k - 1] = F[B[k - 1]]
    BY <1>6, <2>2
  <2> QED
    BY <2>1, <2>3
<1>9. PICK a, b, x, y, l : a = B[k - 1] /\ b = B[k] /\ x = F[a] /\ y = F[b] /\ l = Len(records[k])
  OBVIOUS
<1>10. /\ a \in 0..Len(lines) /\ b \in 0..Len(lines) /\ a < b
       /\ x \in Nat /\ y \in Nat /\ l = (y - x) - 1
       /\ \A i \in 1..l : records[k][i] = cells[first + x + i]
       /\ at = first + x
  BY <1>2, <1>3, <1>4, <1>7, <1>8, <1>9
<1>11. l \in Nat
  <2>1. records[k] \in Seq(Cell)
    BY <1>3
  <2> QED
    BY <1>9, <2>1
<1>12. b \in 1..Len(lines) /\ (a = 0 \/ a \in 1..Len(lines))
  BY ONLY <1>2, <1>10
<1>13. first + y <= Len(cells) /\ cells[first + y] = NL
  BY <1>2, <1>9, <1>12
<1>14. at \in Nat /\ at + l + 1 = first + y /\ Len(cells) \in Nat
  <2>1. Len(cells) \in Nat /\ first \in Nat
    OBVIOUS
  <2> QED
    BY ONLY <1>10, <1>11, <2>1
<1>15. at + l < Len(cells)
  BY ONLY <1>11, <1>13, <1>14
<1>16. at > 0 => cells[at] = NL
  <2>1. CASE a = 0
    <3>1. x = 0 /\ at = first
      BY <1>2, <1>9, <1>10, <2>1
    <3> QED
      BY <3>1
  <2>2. CASE a \in 1..Len(lines)
    BY <1>2, <1>9, <1>10, <2>2
  <2> QED
    BY <1>12, <2>1, <2>2
<1> QED
  BY <1>9, <1>10, <1>13, <1>14, <1>15, <1>16 DEF LiesAt

-----------------------------------------------------------------------------
(* The messages of a batch lie in the file, unless something was refused.   *)
LEMMA BatchValid ==
  ASSUME Basics, Covers, Turned, AppendLines, refused' = refused \cup Over, NEW m \in 1..Len(Batch)
  PROVE  Valid(contents, refused', options.multiline, Batch[m])
<1>1. /\ src.pc = "append" /\ src \in Turn /\ Records0 \in Seq(Seq(Cell))
      /\ Fit \in SUBSET (1..Len(Records0)) /\ Accepted \in Seq(Seq(Cell)) /\ First \in Int
      /\ OptionsOK /\ src.lines \in Seq(Seq(Cell)) /\ src.next.gen \in Int
  BY AppendIs, TurnFacts DEF Basics, LoopOK, Place
<1>2. PICK g, lines, records : g = src.next.gen /\ lines = src.lines /\ records = Records0
  OBVIOUS
<1>3. /\ Len(Batch) = Len(Accepted)
      /\ Batch[m].cells = Accepted[m] /\ Batch[m].gen = g
      /\ Batch[m].at = First + Size(SubSeq(Accepted, 1, m - 1))
  <2>1. PICK a, f : a = Accepted /\ f = First
    OBVIOUS
  <2>2. a \in Seq(Seq(Cell)) /\ f \in Int /\ g \in Int
    BY <1>1, <1>2, <2>1
  <2>3. /\ Messages(a, f, g) \in Seq(Msg)
        /\ Len(Messages(a, f, g)) = Len(a)
        /\ \A k \in 1..Len(a) :
              /\ Messages(a, f, g)[k].cells = a[k]
              /\ Messages(a, f, g)[k].gen = g
              /\ Messages(a, f, g)[k].at = f + Size(SubSeq(a, 1, k - 1))
    BY ONLY <2>2, MessagesType
  <2>4. Batch = Messages(a, f, g)
    BY <1>2, <2>1 DEF Batch
  <2>5. m \in 1..Len(a)
    BY <2>3, <2>4
  <2> QED
    BY <2>1, <2>3, <2>4, <2>5
<1>4. g \in {Mixed} \cup DOMAIN contents
  BY <1>1, <1>2 DEF Turned
<1>5. ASSUME g # Mixed, refused' = {}, options.multiline => ~Blank(contents[g].cells)
      PROVE  Lies(contents[g].cells, Batch[m])
  <2>1. PICK cells : cells = contents[g].cells
    OBVIOUS
  <2>2. cells \in Seq(Cell) /\ g \in DOMAIN contents
    <3>1. contents[g] \in Generation /\ g \in DOMAIN contents
      BY <1>4, <1>5, LoopFacts DEF FilesOK
    <3> QED
      BY <2>1, <3>1 DEF Generation
  <2>3. Ahead(lines, cells, First) /\ Covered(Reached, g, First)
    BY <1>1, <1>2, <2>1, <2>2 DEF Covers, TurnCovers
  <2>4. First \in Nat /\ (First = 0 \/ cells[First] = NL)
    BY <2>1, <2>2, <2>3 DEF Ahead, Covered, CoveredIn
  <2>5. PICK F : LinesIn(lines, cells, First, F)
    BY <2>3 DEF Ahead
  <2>6. NoneDropped(lines)
    BY <1>5, <2>1, <2>2, <2>4, <2>5, NoBlankDropped
  <2>7. records = ApplyMultiline(lines)
    BY <1>2 DEF Records0
  <2>8. PICK B : Parted(records, B, Len(lines), lines, cells, First, F)
    BY <1>1, <2>2, <2>4, <2>5, <2>7, RecordsParted
  <2>9. \A k \in 1..Len(records) : ~WithinLimits(records, k) => Len(records[k]) = 0
    <3>1. ASSUME NEW k \in 1..Len(records), ~WithinLimits(records, k), Len(records[k]) # 0
          PROVE FALSE
      <4>1. Chars(records[k]) # {}
        BY <2>2, <2>4, <2>5, <2>6, <2>7, <2>8, <3>1, RecordHasChars
      <4>2. k \in DOMAIN Records0 \ Fit
        BY <1>1, <1>2, <3>1 DEF Fit
      <4>3. Over # {}
        BY <1>2, <4>1, <4>2 DEF Over
      <4> QED
        BY <1>5, <4>3
    <3> QED
      BY <3>1
  <2>10. \A k \in 1..Len(records) : WithinLimits(records, k)
    BY <1>1, <1>2, <2>9, AllFit
  <2>11. Fit = 1..Len(records)
    BY <1>1, <1>2, <2>10 DEF Fit
  <2>12. Accepted = records
    BY <1>1, <1>2, <2>11, ChosenAll DEF Accepted
  <2>13. PICK k : k = m
    OBVIOUS
  <2>14. k \in 1..Len(records)
    BY <1>3, <2>12, <2>13
  <2>15. PICK at : at = First + Size(SubSeq(records, 1, k - 1))
    OBVIOUS
  <2>16. LiesAt(cells, at, records[k])
    <3>1. PICK f : f = First
      OBVIOUS
    <3>2. f \in Nat /\ (f = 0 \/ cells[f] = NL) /\ LinesIn(lines, cells, f, F)
          /\ at = f + Size(SubSeq(records, 1, k - 1)) /\ OptionsOK /\ cells \in Seq(Cell)
      BY <1>1, <2>2, <2>4, <2>5, <2>15, <3>1
    <3> QED
      BY ONLY <2>6, <2>7, <2>14, <3>2, RecordsLie
  <2>17. Batch[m].cells = records[k] /\ Batch[m].at = at
    BY <1>3, <2>12, <2>13, <2>15
  <2> QED
    BY <2>1, <2>16, <2>17 DEF Lies
<1> QED
  BY <1>3, <1>4, <1>5 DEF Valid

-----------------------------------------------------------------------------
(* The options never change, nothing refused is forgotten.                  *)
LEMMA StepKeeps ==
  ASSUME Basics, [Next]_vars
  PROVE  options' = options /\ refused \subseteq refused'
<1>1. CASE WorldStep
  <2>1. FilesOK /\ used.cells \in Nat
    BY LoopFacts
  <2> QED
    BY <1>1, <2>1, WorldGrows DEF Grown
<1>2. CASE AppendLines
  BY <1>2, AppendIs
<1>3. CASE ~WorldStep /\ ~AppendLines
  BY <1>3, NextIs DEF Poll, Stat, FileSize, Read, Appended, Store, EngineStep, Crash,
     Boot, Rest, vars, sourceVars, historyVars
<1> QED
  BY <1>1, <1>2, <1>3

(* A message a shard was sent stays valid.                                  *)
LEMMA MessageKeeps ==
  ASSUME Basics, Whole, [Next]_vars, NEW s \in Shards, NEW k \in 1..Len(Sent(s))
  PROVE  Valid(contents', refused', options'.multiline, Sent(s)[k])
<1>1. PICK m : m = Sent(s)[k]
  OBVIOUS
<1>2. m \in Msg
  <2>1. Sent(s) \in Seq(Msg)
    BY SentType DEF Basics
  <2> QED
    BY <1>1, <2>1
<1>3. Valid(contents, refused, options.multiline, m)
  BY <1>1 DEF Whole
<1> QED
  BY <1>1, <1>2, <1>3, StepKeeps, StepGrows, ValidKeeps

(* A batch adds records of whole lines at their offsets.                    *)
LEMMA AppendWhole ==
  ASSUME Basics, Covers, Turned, Whole, [Next]_vars, AppendLines
  PROVE  Whole'
<1>1. CASE UNCHANGED engineVars
  <2>1. \A s \in Shards : Sent(s)' = Sent(s)
    BY <1>1 DEF engineVars, Sent
  <2> QED
    BY <2>1, MessageKeeps DEF Whole
<1>2. CASE refused' = refused \cup Over /\ \E shards : Sends(Batch, shards)
  <2>1. PICK shards : Sends(Batch, shards)
    BY <1>2
  <2>2. ASSUME NEW s \in Shards, NEW k \in 1..Len(Sent(s)')
        PROVE  Valid(contents', refused', options'.multiline, Sent(s)'[k])
    <3>1. CASE k \in 1..Len(Sent(s)) /\ Sent(s)'[k] = Sent(s)[k]
      BY <3>1, MessageKeeps
    <3>2. CASE \E m \in 1..Len(Batch) : Sent(s)'[k] = Batch[m]
      <4>1. PICK m \in 1..Len(Batch) : Sent(s)'[k] = Batch[m]
        BY <3>2
      <4>2. Valid(contents, refused', options.multiline, Batch[m])
        BY <1>2, BatchValid
      <4>3. contents' = contents /\ options' = options
        BY AppendIs
      <4> QED
        BY <4>1, <4>2, <4>3
    <3> QED
      BY <2>1, <3>1, <3>2, SendsNew DEF Basics
  <2> QED
    BY <2>2 DEF Whole
<1> QED
  BY <1>1, <1>2, AppendIs

(* What a crash leaves was there before.                                    *)
LEMMA CrashWhole ==
  ASSUME Basics, Whole, [Next]_vars, Crash
  PROVE  Whole'
<1>1. ASSUME NEW s \in Shards, NEW k \in 1..Len(Sent(s)')
      PROVE  Valid(contents', refused', options'.multiline, Sent(s)'[k])
  <2>1. PICK l, q, m : l = log[s] /\ q = queue[s]
             /\ m = IF inbox[s] = <<>> THEN <<>> ELSE inbox[s][1].msgs
    OBVIOUS
  <2>2. l \in Seq(Msg) /\ q \in Seq(Msg) /\ m \in Seq(Msg)
    <3>1. <<>> \in Seq(Msg)
      OBVIOUS
    <3> QED
      BY <2>1, <3>1, SentType DEF Basics
  <2>3. Sent(s) = (l \o q) \o m /\ Sent(s)' = l
    BY <2>1, CrashSent DEF Sent, Basics
  <2>4. k \in 1..Len(l)
    BY <2>3
  <2>5. k \in 1..Len((l \o q) \o m) /\ ((l \o q) \o m)[k] = l[k]
    BY ONLY <2>2, <2>4
  <2> QED
    BY <2>3, <2>5, MessageKeeps
<1> QED
  BY <1>1 DEF Whole

(* No other step adds a record, so every step keeps Whole.                  *)
LEMMA WholeStep ==
  ASSUME Basics, Covers, Turned, Whole, [Next]_vars
  PROVE  Whole'
<1>1. CASE ~AppendLines /\ ~Crash
  <2>1. \A s \in Shards : Sent(s)' = Sent(s)
    BY <1>1, SentStep
  <2> QED
    BY <2>1, MessageKeeps DEF Whole
<1> QED
  BY <1>1, AppendWhole, CrashWhole

(* The loop reads only from generations there are.                          *)
LEMMA TurnedStep ==
  ASSUME Basics, Turned, [Next]_vars
  PROVE  Turned'
<1>1. Len(contents) \in Nat /\ Len(contents') \in Nat /\ Len(contents) <= Len(contents')
      /\ DOMAIN contents = 1..Len(contents) /\ DOMAIN contents' = 1..Len(contents')
  BY StepGrows, LongerFacts DEF Longer
<1>2. CASE src' = src
  <2>1. \A g : g \in DOMAIN contents => g \in DOMAIN contents'
    BY <1>1
  <2> QED
    BY <1>2, <2>1 DEF Turned
<1>3. CASE src'.pc \in {"idle", "stat", "size", "read"}
  BY <1>3 DEF Turned
<1>4. CASE src'.pc \notin {"idle", "stat", "size", "read"} /\ Read
  <2>1. file[Path] # Absent
    BY <1>4 DEF Read, Failed, Idle
  <2>2. PICK lines, F, gen :
           /\ gen = IF src.start = 0 \/ offsets[Path].gen = file[Path].gen
                    THEN file[Path].gen ELSE Mixed
           /\ LinesIn(lines, CellsAt(Path), src.start, F) /\ Size(lines) = F[Len(lines)]
           /\ Size(lines) \in Nat /\ lines \in Seq(Seq(Cell))
           /\ IF lines = <<>> THEN KeepOffset(src.start, gen)
              ELSE /\ src' = [src EXCEPT !.pc = "append", !.lines = lines,
                                         !.next = [inode |-> src.inode,
                                                   offset |-> src.start + Size(lines), gen |-> gen]]
                   /\ UNCHANGED offsets
    BY <1>4, <2>1, ReadIs, LoopFacts
  <2>3. src' # Onward
    BY <1>4, TurnFacts DEF Basics
  <2>4. lines # <<>>
    BY <2>2, <2>3 DEF KeepOffset
  <2>5. src.pc = "read" /\ Path \in PathSet /\ src \in Turn
    BY <1>4, TurnFacts DEF Read, Basics
  <2>6. src'.next.gen = gen
    <3>1. PICK o : o = [inode |-> src.inode, offset |-> src.start + Size(lines), gen |-> gen]
      OBVIOUS
    <3>2. src' = [src EXCEPT !.pc = "append", !.lines = lines, !.next = o]
      BY <2>2, <2>4, <3>1
    <3>3. src'.next = o
      BY ONLY <2>5, <3>2 DEF Turn
    <3> QED
      BY ONLY <3>1, <3>3
  <2>7. gen \in {Mixed} \cup DOMAIN contents
    BY <2>1, <2>2, <2>5, FileFacts, LoopFacts
  <2>8. contents' = contents
    BY <1>4 DEF Read, Rest
  <2> QED
    BY <2>6, <2>7, <2>8 DEF Turned
<1>5. CASE src'.pc \notin {"idle", "stat", "size", "read"} /\ src' # src /\ ~Read
  <2>1. src' # Onward /\ src' # Idle
    BY <1>5, TurnFacts DEF Basics
  <2>2. ~WorldStep
    <3>1. FilesOK /\ used.cells \in Nat
      BY LoopFacts
    <3> QED
      BY <1>5, <3>1, WorldGrows DEF Grown
  <2>3. src \in Turn
    BY TurnFacts DEF Basics
  <2>4. ~Poll /\ ~Stat /\ ~FileSize
    BY <1>5, <2>1, <2>3 DEF Poll, Stat, FileSize, KeepOffset, Failed, Turn, Idle
  <2>5. \/ AppendLines \/ Appended
    BY <1>5, <2>1, <2>2, <2>4, NextIs DEF Store, EngineStep, Crash, Boot, vars, sourceVars, Failed
  <2>6. src.pc \in {"append", "wait"} /\ src'.next = src.next /\ contents' = contents
    <3>1. CASE AppendLines
      BY <2>1, <2>3, <3>1, AppendIs DEF Turn
    <3>2. CASE Appended
      BY <2>1, <2>3, <3>2 DEF Turn, Appended, Failed, Rest
    <3> QED
      BY <2>5, <3>1, <3>2
  <2> QED
    BY <2>6 DEF Turned
<1> QED
  BY <1>2, <1>3, <1>4, <1>5

(* At first there is no record.                                             *)
LEMMA InitWhole ==
  ASSUME Init
  PROVE  Turned /\ Whole
<1>1. Turned
  BY DEF Init, Turned, Idle
<1>2. ASSUME NEW s \in Shards PROVE Len(Sent(s)) = 0
  <2>1. log[s] = <<>> /\ queue[s] = <<>> /\ inbox[s] = <<>>
    BY DEF Init, EngineInit
  <2>2. Sent(s) = (<<>> \o <<>>) \o <<>>
    BY <2>1 DEF Sent
  <2>3. <<>> \in Seq(Msg) /\ Len(<<>>) = 0
    OBVIOUS
  <2>4. (<<>> \o <<>>) \o <<>> = <<>>
    BY <2>3, ConcatEmptySeq
  <2> QED
    BY <2>2, <2>3, <2>4
<1>3. Whole
  BY <1>2 DEF Whole
<1> QED
  BY <1>1, <1>3

(* A valid message, as WholeLines says it.                                  *)
LEMMA ValidWhole ==
  ASSUME Basics, NEW m \in Msg, Valid(contents, refused, options.multiline, m),
         m.gen # Mixed, refused = {}, options.multiline => ~HasBlank(m.gen)
  PROVE  LET cells == contents[m.gen].cells
             end == m.at + Len(m.cells)
         IN  /\ end < Len(cells) /\ cells[end + 1] = NL
             /\ m.at > 0 => cells[m.at] = NL
             /\ SubSeq(cells, m.at + 1, end) = m.cells
<1>1. PICK cells, q, a, b : cells = contents[m.gen].cells /\ q = m.cells /\ a = m.at
           /\ b = a + Len(q)
  OBVIOUS
<1>2. LiesAt(cells, a, q)
  BY <1>1 DEF Valid, Lies, HasBlank, Blank
<1>3. q \in Seq(Cell) /\ Len(q) \in Nat /\ cells \in Seq(Cell) /\ Len(cells) \in Nat
  <2>1. contents[m.gen] \in Generation
    BY LoopFacts DEF Valid, FilesOK
  <2>2. cells \in Seq(Cell) /\ q \in Seq(Cell)
    BY <1>1, <2>1 DEF Generation, Msg
  <2> QED
    BY <2>2
<1>4. /\ a \in Nat /\ b \in Nat /\ b < Len(cells) /\ cells[b + 1] = NL
      /\ a > 0 => cells[a] = NL
      /\ \A i \in 1..Len(q) : cells[a + i] = q[i]
  BY <1>1, <1>2, <1>3 DEF LiesAt
<1>5. PICK sub : sub = SubSeq(cells, a + 1, b)
  OBVIOUS
<1>6. sub \in Seq(Cell) /\ Len(sub) = Len(q) /\ \A i \in 1..Len(sub) : sub[i] = cells[a + i]
  <2>1. \A i \in (a + 1)..b : cells[i] \in Cell
    <3>1. \A i \in 1..Len(cells) : cells[i] \in Cell
      BY <1>3
    <3> QED
      BY <1>3, <1>4, <3>1
  <2>2. a + 1 \in Int /\ b \in Int
    BY <1>4
  <2>3. /\ SubSeq(cells, a + 1, b) \in Seq(Cell)
        /\ Len(SubSeq(cells, a + 1, b)) = IF a + 1 <= b THEN b - (a + 1) + 1 ELSE 0
        /\ \A i \in 1..(b - (a + 1) + 1) : SubSeq(cells, a + 1, b)[i] = cells[(a + 1) + i - 1]
    BY ONLY <2>1, <2>2, SubSeqProperties
  <2>4. PICK l : l = Len(q)
    OBVIOUS
  <2>5. l \in Nat /\ a \in Nat /\ b = a + l
    BY <1>1, <1>3, <1>4, <2>4
  <2>6. b - (a + 1) + 1 = l /\ (~(a + 1 <= b) => l = 0) /\ \A i \in 1..l : (a + 1) + i - 1 = a + i
    BY ONLY <2>5
  <2>7. Len(sub) = l
    BY <1>5, <2>3, <2>6
  <2> QED
    BY <1>5, <2>3, <2>4, <2>6, <2>7
<1>7. \A i \in 1..Len(q) : sub[i] = q[i]
  BY <1>4, <1>6
<1>8. sub = q
  BY ONLY <1>3, <1>6, <1>7
<1> QED
  BY <1>1, <1>4, <1>5, <1>8

(* A record is whole lines of the file where its source_offset says, in     *)
(* every file, limit and multiline rule (README.md:120).                    *)
THEOREM WholeLinesHolds == Spec => []WholeLines
<1> DEFINE Inv == Basics /\ Covers /\ Turned /\ Whole
<1>1. Init => Inv
  BY InitBasics, InitCovers, InitWhole
<1>2. Inv /\ [Next]_vars => Inv'
  BY BasicsStep, CoversStep, TurnedStep, WholeStep
<1>3. Inv => WholeLines
  <2>1. ASSUME Inv, NEW m \in Everything
        PROVE m \in Msg /\ Valid(contents, refused, options.multiline, m)
    <3>1. PICK s \in Shards : m \in ToSet(log[s] \o queue[s])
      BY <2>1 DEF Everything
    <3>2. PICK a, b : a = log[s] \o queue[s]
               /\ b = IF inbox[s] = <<>> THEN <<>> ELSE inbox[s][1].msgs
      OBVIOUS
    <3>3. a \in Seq(Msg) /\ b \in Seq(Msg)
      <4>1. <<>> \in Seq(Msg)
        OBVIOUS
      <4>2. log[s] \in Seq(Msg) /\ queue[s] \in Seq(Msg)
        BY <2>1, SentType DEF Basics
      <4>3. a \in Seq(Msg)
        BY <3>2, <4>2, ConcatProperties
      <4> QED
        BY <2>1, <3>2, <4>1, <4>3, SentType DEF Basics
    <3>4. PICK k \in DOMAIN a : a[k] = m
      BY <3>1, <3>2, <3>3, ToSetIs
    <3>5. Sent(s) = a \o b
      BY <3>2 DEF Sent
    <3>6. k \in 1..Len(a \o b) /\ (a \o b)[k] = a[k] /\ a[k] \in Msg
      BY ONLY <3>3, <3>4
    <3> QED
      BY <2>1, <3>4, <3>5, <3>6 DEF Whole
  <2>2. ASSUME Inv, NEW m \in Everything,
               m.gen # Mixed, refused = {}, options.multiline => ~HasBlank(m.gen)
        PROVE  LET cells == contents[m.gen].cells
                   end == m.at + Len(m.cells)
               IN  /\ end < Len(cells) /\ cells[end + 1] = NL
                   /\ m.at > 0 => cells[m.at] = NL
                   /\ SubSeq(cells, m.at + 1, end) = m.cells
    BY <2>1, <2>2, ValidWhole
  <2> QED
    BY <2>2 DEF WholeLines
<1> QED
  BY <1>1, <1>2, <1>3, PTL DEF Spec

-----------------------------------------------------------------------------
(* The characters in the files differ from each other, and none was used    *)
(* that is yet to come.                                                     *)
Unique ==
  \A g, h \in DOMAIN contents :
    \A i \in 1..Len(contents[g].cells), j \in 1..Len(contents[h].cells) :
      contents[g].cells[i] = contents[h].cells[j] /\ contents[g].cells[i] # NL => g = h /\ i = j

(* Every character was counted when it was written.                         *)
Numbered ==
  \A g \in DOMAIN contents : \A i \in 1..Len(contents[g].cells) :
    \/ contents[g].cells[i] = NL
    \/ contents[g].cells[i] \in Nat /\ contents[g].cells[i] <= used.cells

(* A generation is at one path, under its inode.                            *)
OnePath ==
  /\ \A p, q \in PathSet : file[p] # Absent /\ file[q] # Absent
     /\ file[p].gen = file[q].gen => p = q
  /\ \A p \in PathSet :
       file[p] # Absent => file[p].inode # 0 /\ file[p].inode = contents[file[p].gen].inode

(* A shard was sent this character in its k-th message, or one was.         *)
Holds(s, k, c) == k \in 1..Len(Sent(s)) /\ c \in Chars(Sent(s)[k].cells)

(* Some shard was sent it.                                                  *)
Has(c) == \E s \in Shards : \E k \in 1..Len(Sent(s)) : Holds(s, k, c)

(* Up to where a path was sent: the offset to come while lines are under    *)
(* way.                                                                     *)
Frontier(p) == IF src.pc \in {"wait", "store"} /\ Path = p THEN src.next ELSE offsets[p]

(* Position i of generation g is behind it.                                 *)
Past(g, i) ==
  \A p \in PathSet :
    file[p] # Absent /\ file[p].gen = g => Frontier(p).gen = g /\ Frontier(p).offset >= i

(* Whatever was sent is behind.                                             *)
Behind ==
  \A c : Has(c) =>
    \E g \in DOMAIN contents : \E i \in 1..Len(contents[g].cells) :
      contents[g].cells[i] = c /\ Past(g, i)

(* No character was sent twice.                                             *)
Once ==
  \A s, t \in Shards : \A k \in 1..Len(Sent(s)), l \in 1..Len(Sent(t)) :
    \A c : Holds(s, k, c) /\ Holds(t, l, c) => s = t /\ k = l

(* The offset is one of the file there is.                                  *)
Same == file[Path] # Absent /\ offsets[Path].gen = file[Path].gen

(* The turn goes on from the offset: nothing it is about to send was sent,  *)
(* and what it sends takes the frontier along.                              *)
TurnOnce ==
  /\ src.pc \in {"size", "read"} => src.inode # 0 /\ (Same => src.inode = file[Path].inode)
  /\ src.pc = "read" /\ Same => src.start = offsets[Path].offset
  /\ src.pc = "append" =>
       /\ \A k \in 1..Len(src.lines) : \A c \in Chars(src.lines[k]) : ~Has(c)
       /\ \A p \in PathSet : file[p] # Absent /\ file[p].gen = src.next.gen => p = Path
  /\ src.pc \in {"append", "wait", "store"} =>
       /\ src.next.gen # Mixed /\ src.next.inode = contents[src.next.gen].inode
       /\ Same => src.next.gen = file[Path].gen /\ src.next.offset >= offsets[Path].offset

(* An offset on disk is known in memory, under the inode it counts.         *)
Known ==
  \A p \in PathSet :
    /\ stored[p] # Nowhere => offsets[p] # Nowhere
    /\ offsets[p].gen \in DOMAIN contents => offsets[p].inode = contents[offsets[p].gen].inode

(* What holds until something excuses a copy.                               *)
OnceOK == Behind /\ Once /\ TurnOnce /\ Known

(* The third layer: where each character lies, in the files and in the      *)
(* shards.                                                                  *)
OnceInv == Unique /\ Numbered /\ OnePath /\ (~excused => OnceOK)

(* The cells a step adds: c at one place, or none.                          *)
Adds(c) ==
  \E g, n : \A h \in DOMAIN contents' : \A i \in 1..Len(contents'[h].cells) :
    \/ /\ h \in DOMAIN contents /\ i \in 1..Len(contents[h].cells)
       /\ contents'[h].cells[i] = contents[h].cells[i]
    \/ h = g /\ i = n /\ contents'[h].cells[i] = c

(* A cell at the end of a generation.                                       *)
LEMMA CellAdds ==
  ASSUME FilesOK, NEW p \in PathSet, file[p] # Absent, NEW c \in Cell,
         contents' = [contents EXCEPT ![file[p].gen].cells = Append(@, c)]
  PROVE  Adds(c)
<1> DEFINE g == file[p].gen
           cells == contents[g].cells
<1>1. contents \in Seq(Generation) /\ g \in 1..Len(contents) /\ Len(contents) \in Nat
  BY DEF FilesOK
<1> HIDE DEF g
<1>2. cells \in Seq(Cell)
  <2>1. contents[g] \in Generation
    BY <1>1
  <2> QED
    BY <2>1 DEF Generation
<1> HIDE DEF cells
<1>3. /\ Len(Append(cells, c)) = Len(cells) + 1 /\ Len(cells) \in Nat
      /\ \A i \in 1..Len(cells) : Append(cells, c)[i] = cells[i]
      /\ Append(cells, c)[Len(cells) + 1] = c
  BY <1>2
<1>4. contents' = [contents EXCEPT ![g] = [contents[g] EXCEPT !.cells = Append(cells, c)]]
  BY <1>1 DEF g, cells
<1>5. [contents[g] EXCEPT !.cells = Append(cells, c)].cells = Append(cells, c)
  <2>1. contents[g] \in Generation
    BY <1>1
  <2> QED
    BY <2>1 DEF Generation
<1>6. /\ DOMAIN contents' = DOMAIN contents /\ contents'[g].cells = Append(cells, c)
      /\ \A h \in DOMAIN contents : h # g => contents'[h] = contents[h]
  <2>1. PICK new : new = [contents[g] EXCEPT !.cells = Append(cells, c)]
    OBVIOUS
  <2>2. contents' = [contents EXCEPT ![g] = new] /\ new.cells = Append(cells, c)
    BY <1>4, <1>5, <2>1
  <2>3. g \in DOMAIN contents
    BY <1>1
  <2> QED
    BY ONLY <2>2, <2>3
<1>8. PICK n : n = Len(cells) + 1
  OBVIOUS
<1>7. ASSUME NEW h \in DOMAIN contents', NEW i \in 1..Len(contents'[h].cells)
      PROVE  \/ /\ h \in DOMAIN contents /\ i \in 1..Len(contents[h].cells)
                /\ contents'[h].cells[i] = contents[h].cells[i]
             \/ h = g /\ i = n /\ contents'[h].cells[i] = c
  <2>1. CASE h # g
    BY <1>6, <1>7, <2>1
  <2>2. CASE h = g /\ i \in 1..Len(cells)
    <3>1. contents[h].cells = cells /\ contents'[h].cells = Append(cells, c)
      BY <1>6, <2>2 DEF cells
    <3> QED
      BY <1>3, <1>6, <2>2, <3>1
  <2>3. CASE h = g /\ i \notin 1..Len(cells)
    <3>1. i = Len(cells) + 1
      BY <1>3, <1>6, <1>7, <2>3
    <3> QED
      BY <1>3, <1>6, <1>8, <2>3, <3>1
  <2> QED
    BY <2>1, <2>2, <2>3
<1> QED
  BY ONLY <1>7 DEF Adds

(* A new generation is empty.                                               *)
LEMMA RenewAdds ==
  ASSUME FilesOK, NEW p \in PathSet, NEW inode, Renew(p, inode)
  PROVE  Adds(NL)
<1> DEFINE new == [inode |-> inode, cells |-> <<>>]
<1>1. contents \in Seq(Generation) /\ contents' = Append(contents, new) /\ Len(new.cells) = 0
  BY DEF FilesOK, Renew
<1> HIDE DEF new
<1>2. ASSUME NEW h \in DOMAIN contents', NEW i \in 1..Len(contents'[h].cells)
      PROVE  /\ h \in DOMAIN contents /\ i \in 1..Len(contents[h].cells)
             /\ contents'[h].cells[i] = contents[h].cells[i]
  <2>1. h \in 1..(Len(contents) + 1) /\ Len(contents) \in Nat
    BY <1>1
  <2>2. CASE h = Len(contents) + 1
    <3>1. contents'[h] = new
      BY <1>1, <2>2
    <3>2. i \in 1..0
      BY <1>1, <1>2, <3>1
    <3> QED
      BY <3>2
  <2>3. CASE h # Len(contents) + 1
    <3>1. h \in 1..Len(contents)
      BY <2>1, <2>3
    <3>2. contents'[h] = contents[h]
      BY <1>1, <3>1
    <3> QED
      BY <1>1, <1>2, <3>1, <3>2
  <2> QED
    BY <2>2, <2>3
<1> QED
  BY <1>2 DEF Adds

(* The other programs write newlines and characters that were not there.    *)
LEMMA WorldAdds ==
  ASSUME FilesOK, used \in [cells : Nat, changes : Nat, mishaps : Nat, pressure : Nat], WorldStep
  PROVE  /\ used.cells \in Nat /\ used'.cells \in Nat /\ used.cells <= used'.cells
         /\ \E c \in Cell : Adds(c) /\ (c = NL \/ (c = used.cells + 1 /\ used'.cells = c))
<1>1. /\ used.cells \in Nat
      /\ \A what \in {"cells", "changes", "pressure"} :
           Use(what) => /\ used'.cells = IF what = "cells" THEN used.cells + 1 ELSE used.cells
  BY DEF Use
<1>2. NL \in Cell /\ used.cells + 1 \in Cell
  BY <1>1 DEF Cell
<1>3. used'.cells \in Nat /\ used.cells <= used'.cells
  <2>1. used'.cells = used.cells \/ used'.cells = used.cells + 1
    BY <1>1 DEF WorldStep, WriteChar, EndLine, Rotate, Create, Truncate, Unlink, Change, Pressure
  <2> QED
    BY <1>1, <2>1
<1>4. ASSUME NEW p \in PathSet, WriteChar(p)
      PROVE Adds(used.cells + 1) /\ used'.cells = used.cells + 1
  BY <1>1, <1>2, <1>4, CellAdds DEF WriteChar
<1>5. ASSUME NEW p \in PathSet, EndLine(p) PROVE Adds(NL)
  BY <1>2, <1>5, CellAdds DEF EndLine
<1>6. ASSUME NEW p \in PathSet, NEW inode, Rotate(p, inode) \/ Create(p, inode) PROVE Adds(NL)
  BY <1>6, RenewAdds DEF Rotate, Create
<1>7. ASSUME NEW p \in PathSet, Truncate(p) PROVE Adds(NL)
  BY <1>7, RenewAdds DEF Truncate
<1>8. ASSUME UNCHANGED contents PROVE Adds(NL)
  BY <1>8 DEF Adds
<1> QED
  BY <1>1, <1>2, <1>3, <1>4, <1>5, <1>6, <1>7, <1>8 DEF WorldStep, Unlink, Pressure

(* Characters that were not there keep them all apart.                      *)
LEMMA AddsUnique ==
  ASSUME Unique, Numbered, used.cells \in Nat, used'.cells \in Nat, used.cells <= used'.cells,
         NEW c \in Cell, Adds(c), c = NL \/ (c = used.cells + 1 /\ used'.cells = c)
  PROVE  Unique' /\ Numbered'
<1>1. PICK G, n : \A h \in DOMAIN contents' : \A i \in 1..Len(contents'[h].cells) :
        \/ /\ h \in DOMAIN contents /\ i \in 1..Len(contents[h].cells)
           /\ contents'[h].cells[i] = contents[h].cells[i]
        \/ h = G /\ i = n /\ contents'[h].cells[i] = c
  BY DEF Adds
<1>2. ASSUME NEW h \in DOMAIN contents, NEW i
               \in 1..Len(contents[h].cells), contents[h].cells[i] # NL
      PROVE  contents[h].cells[i] # c
  BY <1>2 DEF Numbered
<1>3. Unique'
  <2>1. ASSUME NEW g \in DOMAIN contents', NEW h \in DOMAIN contents',
               NEW i \in 1..Len(contents'[g].cells), NEW j \in 1..Len(contents'[h].cells),
               contents'[g].cells[i] = contents'[h].cells[j], contents'[g].cells[i] # NL
        PROVE  g = h /\ i = j
    <3>1. CASE g = G /\ i = n /\ contents'[g].cells[i] = c
      BY <1>1, <1>2, <2>1, <3>1
    <3>2. CASE h = G /\ j = n /\ contents'[h].cells[j] = c
      BY <1>1, <1>2, <2>1, <3>2
    <3>3. CASE /\ g \in DOMAIN contents /\ i \in 1..Len(contents[g].cells)
               /\ contents'[g].cells[i] = contents[g].cells[i]
               /\ h \in DOMAIN contents /\ j \in 1..Len(contents[h].cells)
               /\ contents'[h].cells[j] = contents[h].cells[j]
      <4>1. contents[g].cells[i] = contents[h].cells[j] /\ contents[g].cells[i] # NL
        BY <2>1, <3>3
      <4>2. g \in DOMAIN contents /\ h \in DOMAIN contents /\ i \in 1..Len(contents[g].cells)
            /\ j \in 1..Len(contents[h].cells)
        BY <3>3
      <4> QED
        BY ONLY <4>1, <4>2, Unique DEF Unique
    <3> QED
      BY <1>1, <3>1, <3>2, <3>3
  <2> QED
    BY <2>1 DEF Unique
<1>4. Numbered'
  <2>1. ASSUME NEW h \in DOMAIN contents', NEW i
                 \in 1..Len(contents'[h].cells), contents'[h].cells[i] # NL
        PROVE  contents'[h].cells[i] \in Nat /\ contents'[h].cells[i] <= used'.cells
    BY <1>1, <2>1 DEF Numbered
  <2> QED
    BY <2>1 DEF Numbered
<1> QED
  BY <1>3, <1>4

(* A generation stays at one path.                                          *)
LEMMA WorldOnePath ==
  ASSUME FilesOK, used.cells \in Nat, OnePath, WorldStep
  PROVE  OnePath'
<1>1. Grown
  BY WorldGrows
<1>2. /\ contents \in Seq(Generation) /\ Len(contents) \in Nat
      /\ \A p \in PathSet : file[p] # Absent => file[p].gen \in 1..Len(contents)
  BY DEF FilesOK
<1>3. /\ \A g \in 1..Len(contents) : contents'[g].inode = contents[g].inode
      /\ \A p \in PathSet :
           \/ file'[p] = file[p] \/ file'[p] = Absent
           \/ /\ file'[p].gen = Len(contents) + 1
              /\ contents'[Len(contents) + 1].inode = file'[p].inode
              /\ \A q \in PathSet \ {p} : file'[q] = file[q]
  BY <1>1 DEF Grown
<1>4. ASSUME NEW p \in PathSet, NEW q \in PathSet, file'[p] # Absent, file'[q] # Absent,
             file'[p].gen = file'[q].gen
      PROVE  p = q
  <2>1. ASSUME NEW x \in PathSet, NEW y \in PathSet, x # y, file'[x].gen = Len(contents) + 1,
               \A z \in PathSet \ {x} : file'[z] = file[z], file'[y] # Absent,
               file'[y].gen = file'[x].gen
        PROVE  FALSE
    BY <1>2, <2>1
  <2> QED
    BY <1>3, <1>4, <2>1 DEF OnePath
<1>5. ASSUME NEW p \in PathSet PROVE file'[p] = file[p] \/ file'[p] = Absent \/ file'[p].inode # 0
  <2>1. ASSUME NEW q \in PathSet, NEW inode \in Nat \ {0}, Renew(q, inode)
        PROVE  file'[p] = file[p] \/ file'[p].inode # 0
    <3>1. file' = [file EXCEPT ![q] = [inode |-> inode, gen |-> Len(contents) + 1]]
          /\ file \in [PathSet -> [inode : Nat, gen : Nat]]
      BY <2>1 DEF Renew, FilesOK
    <3> QED
      BY <3>1
  <2>2. ASSUME NEW q \in PathSet, NEW inode \in Inodes, Rotate(q, inode) \/ Create(q, inode)
        PROVE  file'[p] = file[p] \/ file'[p].inode # 0
    <3>1. inode \in Nat \ {0} /\ Renew(q, inode)
      BY <2>2, Given DEF Rotate, Create
    <3> QED
      BY <2>1, <3>1
  <2>3. ASSUME NEW q \in PathSet, Truncate(q) PROVE file'[p] = file[p] \/ file'[p].inode # 0
    <3>1. file[q] # Absent /\ Renew(q, file[q].inode)
      BY <2>3 DEF Truncate, Change
    <3>2. file[q].inode \in Nat \ {0}
      BY <3>1 DEF OnePath, FilesOK
    <3> QED
      BY <2>1, <3>1, <3>2
  <2>4. ASSUME NEW q \in PathSet, Unlink(q) PROVE file'[p] = file[p] \/ file'[p] = Absent
    <3>1. file' = [file EXCEPT ![q] = Absent] /\ file \in [PathSet -> [inode : Nat, gen : Nat]]
      BY <2>4 DEF Unlink, FilesOK
    <3> QED
      BY <3>1
  <2> QED
    BY <2>2, <2>3, <2>4 DEF WorldStep, WriteChar, EndLine, Pressure
<1>6. ASSUME NEW p \in PathSet, file'[p] # Absent
      PROVE  file'[p].inode # 0 /\ file'[p].inode = contents'[file'[p].gen].inode
  BY <1>2, <1>3, <1>5, <1>6 DEF OnePath
<1> QED
  BY <1>4, <1>6 DEF OnePath

-----------------------------------------------------------------------------
(* Numbers that grow from each to the next.                                 *)
LEMMA Grows ==
  ASSUME NEW m \in Nat, NEW B, \A k \in 0..m : B[k] \in Nat, \A k \in 1..m : B[k - 1] < B[k]
  PROVE  \A k, n \in 0..m : k <= n => B[k] <= B[n]
<1> DEFINE S == {n \in Nat : n <= m => \A k \in 0..n : B[k] <= B[n]}
<1>1. 0 \in S
  BY DEF S
<1>2. ASSUME NEW n \in Nat, n \in S PROVE n + 1 \in S
  <2>1. ASSUME n + 1 <= m, NEW k \in 0..(n + 1) PROVE B[k] <= B[n + 1]
    <3>1. n \in 0..m /\ n + 1 \in 1..m /\ n + 1 \in 0..m /\ (n + 1) - 1 = n
      BY <2>1
    <3>2. B[n] < B[n + 1] /\ B[n] \in Nat /\ B[n + 1] \in Nat
      <4>1. PICK x : x = n + 1
        OBVIOUS
      <4>2. B[x - 1] < B[x] /\ x - 1 = n
        BY <3>1, <4>1
      <4> QED
        BY <3>1, <4>1, <4>2
    <3>3. CASE k \in 0..n
      <4>1. B[k] <= B[n] /\ B[k] \in Nat
        BY <1>2, <3>1, <3>3
      <4> QED
        BY <3>2, <4>1
    <3>4. CASE k = n + 1
      BY <3>2, <3>4
    <3> QED
      BY <3>3, <3>4
  <2> QED
    BY <2>1
<1> HIDE DEF S
<1>3. Nat \subseteq S
  BY <1>1, <1>2, Inductive
<1> QED
  BY <1>3 DEF S

(* This character is in these cells, between two places.                    *)
Between(c, cells, low, high) ==
  c # NL /\ \E i \in 1..Len(cells) : cells[i] = c /\ low < i /\ i < high

(* Where a character of a line is in the file.                              *)
LEMMA CharInFile ==
  ASSUME NEW cells \in Seq(Cell), NEW first \in Nat, NEW lines, NEW F,
         LinesIn(lines, cells, first, F), NEW n \in 1..Len(lines), NEW c \in Chars(lines[n])
  PROVE  Between(c, cells, first + F[n - 1], first + F[n])
<1>1. /\ Len(lines) \in Nat
      /\ lines[n] \in Seq(Cell) /\ Len(lines[n]) \in Nat
      /\ F[n] = F[n - 1] + Len(lines[n]) + 1 /\ first + F[n] <= Len(cells)
      /\ \A j \in 1..Len(lines[n]) : lines[n][j] = cells[first + F[n - 1] + j]
      /\ F[n - 1] \in Nat /\ F[n] \in Nat
  <2>1. /\ Len(lines) \in Nat
        /\ \A k \in 0..Len(lines) : F[k] \in Nat
        /\ \A k \in 1..Len(lines) :
             /\ lines[k] \in Seq(Cell) /\ Len(lines[k]) \in Nat
             /\ F[k] = F[k - 1] + Len(lines[k]) + 1 /\ first + F[k] <= Len(cells)
             /\ \A j \in 1..Len(lines[k]) : lines[k][j] = cells[first + F[k - 1] + j]
    BY LinesInFacts
  <2>2. n - 1 \in 0..Len(lines) /\ n \in 0..Len(lines)
    BY <2>1
  <2> QED
    BY <2>1, <2>2
<1>2. PICK q : q = lines[n]
  OBVIOUS
<1>3. c # NL /\ \E j \in 1..Len(q) : q[j] = c
  <2>1. q \in Seq(Cell) /\ c \in Chars(q)
    BY <1>1, <1>2
  <2> QED
    BY ONLY <2>1, CharsAre
<1>4. PICK j \in 1..Len(q) : q[j] = c
  BY <1>3
<1>5. PICK x, y, l : x = F[n - 1] /\ y = F[n] /\ l = Len(q)
  OBVIOUS
<1>6. x \in Nat /\ l \in Nat /\ y = x + l + 1 /\ first + y <= Len(cells) /\ j \in 1..l
      /\ cells[first + x + j] = c /\ Len(cells) \in Nat
  <2>1. cells[first + x + j] = c
    <3>1. \A h \in 1..Len(q) : q[h] = cells[first + x + h]
      BY <1>1, <1>2, <1>5
    <3> QED
      BY ONLY <1>4, <3>1
  <2>2. x \in Nat /\ l \in Nat /\ y = x + l + 1 /\ first + y <= Len(cells) /\ j \in 1..l
    BY <1>1, <1>2, <1>4, <1>5
  <2>3. Len(cells) \in Nat
    OBVIOUS
  <2> QED
    BY ONLY <2>1, <2>2, <2>3
<1>7. PICK i : i = first + x + j
  OBVIOUS
<1>8. i \in 1..Len(cells) /\ first + x < i /\ i < first + y
  BY ONLY <1>6, <1>7, first \in Nat
<1> QED
  BY <1>3, <1>5, <1>6, <1>7, <1>8 DEF Between

(* Each character of a record is one of a line.                             *)
LEMMA RecordOfLines ==
  ASSUME OptionsOK, NEW cells \in Seq(Cell), NEW first \in Nat, NEW lines, NEW F,
         LinesIn(lines, cells, first, F),
         NEW k \in 1..Len(ApplyMultiline(lines)), NEW c \in Chars(ApplyMultiline(lines)[k])
  PROVE  \E j \in 1..Len(lines) : c \in Chars(lines[j])
<1>1. PICK records : records = ApplyMultiline(lines)
  OBVIOUS
<1>2. PICK B : Parted(records, B, Len(lines), lines, cells, first, F)
  BY <1>1, RecordsParted
<1>3. /\ B \in [0..Len(records) -> 0..Len(lines)] /\ Len(records) \in Nat /\ k \in 1..Len(records)
      /\ IsRecord(records[k], B[k - 1], B[k], lines, cells, first, F)
  BY <1>1, <1>2 DEF Parted
<1>4. PICK a, b : a = B[k - 1] /\ b = B[k]
  OBVIOUS
<1>5. a \in 0..Len(lines) /\ b \in 0..Len(lines)
  <2>1. k - 1 \in 0..Len(records) /\ k \in 0..Len(records)
    BY <1>3
  <2> QED
    BY <1>3, <1>4, <2>1
<1>6. PICK j \in (a + 1)..b : c \in Chars(lines[j])
  BY <1>1, <1>3, <1>4 DEF IsRecord
<1>7. j \in 1..Len(lines)
  <2>1. Len(lines) \in Nat
    BY LinesInFacts
  <2> QED
    BY <1>5, <1>6, <2>1
<1> QED
  BY <1>6, <1>7

(* These cells have no character twice.                                     *)
Apart(cells) ==
  \A i, j \in 1..Len(cells) : cells[i] = cells[j] /\ cells[i] # NL => i = j

(* The records of such cells have no character in common.                   *)
LEMMA RecordsApart ==
  ASSUME OptionsOK, NEW cells \in Seq(Cell), Apart(cells), NEW first \in Nat, NEW lines, NEW F,
         LinesIn(lines, cells, first, F), NEW records, records = ApplyMultiline(lines),
         NEW k \in 1..Len(records), NEW l \in 1..Len(records),
         NEW c, c \in Chars(records[k]), c \in Chars(records[l])
  PROVE  k = l
<1>1. PICK B : Parted(records, B, Len(lines), lines, cells, first, F)
  BY RecordsParted
<1>2. /\ B \in [0..Len(records) -> 0..Len(lines)] /\ Len(records) \in Nat /\ Len(lines) \in Nat
      /\ \A i \in 1..Len(records) : IsRecord(records[i], B[i - 1], B[i], lines, cells, first, F)
  BY <1>1, LinesInFacts DEF Parted
<1>3. /\ \A i \in 0..Len(records) : B[i] \in 0..Len(lines)
      /\ \A i \in 0..Len(records) : B[i] \in Nat
      /\ \A i \in 1..Len(records) : B[i - 1] < B[i]
  <2>1. \A i \in 0..Len(records) : B[i] \in 0..Len(lines)
    BY <1>2
  <2>2. \A i \in 1..Len(records) : B[i - 1] < B[i]
    BY <1>2 DEF IsRecord
  <2> QED
    BY <2>1, <2>2
<1>4. \A i, n \in 0..Len(records) : i <= n => B[i] <= B[n]
  <2>1. PICK m : m = Len(records)
    OBVIOUS
  <2>2. m \in Nat /\ (\A i \in 0..m : B[i] \in Nat) /\ \A i \in 1..m : B[i - 1] < B[i]
    BY <1>2, <1>3, <2>1
  <2>3. \A i, n \in 0..m : i <= n => B[i] <= B[n]
    BY ONLY <2>2, Grows
  <2> QED
    BY <2>1, <2>3
<1>5. \A i, n \in 0..Len(lines) : i <= n => F[i] <= F[n]
  <2>1. PICK m : m = Len(lines)
    OBVIOUS
  <2>2. m \in Nat /\ (\A i \in 0..m : F[i] \in Nat) /\ \A i \in 1..m : F[i - 1] < F[i]
    <3>1. /\ \A n \in 0..m : F[n] \in Nat
          /\ \A n \in 1..m : Len(lines[n]) \in Nat /\ F[n] = F[n - 1] + Len(lines[n]) + 1
      BY <2>1, LinesInFacts
    <3>2. ASSUME NEW i \in 1..m PROVE F[i - 1] < F[i]
      <4>1. i - 1 \in 0..m /\ m \in Nat
        BY <1>2, <2>1
      <4>2. PICK u, v, w : u = F[i - 1] /\ v = F[i] /\ w = Len(lines[i])
        OBVIOUS
      <4>3. u \in Nat /\ w \in Nat /\ v = u + w + 1
        BY ONLY <3>1, <4>1, <4>2, i \in 1..m
      <4>4. u < v
        BY ONLY <4>3
      <4> QED
        BY <4>2, <4>4
    <3> QED
      BY <1>2, <2>1, <3>1, <3>2
  <2>3. \A i, n \in 0..m : i <= n => F[i] <= F[n]
    BY ONLY <2>2, Grows
  <2> QED
    BY <2>1, <2>3
<1>6. ASSUME NEW i \in 1..Len(records), c \in Chars(records[i])
      PROVE  \E x \in 1..Len(lines) :
               /\ B[i - 1] < x /\ x <= B[i]
               /\ \E at \in 1..Len(cells) : cells[at] = c /\ c # NL /\ first + F[x - 1] < at
                                            /\ at < first + F[x]
  <2>1. PICK a, b : a = B[i - 1] /\ b = B[i]
    OBVIOUS
  <2>2. a \in 0..Len(lines) /\ b \in 0..Len(lines)
    <3>1. i - 1 \in 0..Len(records) /\ i \in 0..Len(records)
      BY <1>2
    <3> QED
      BY <1>3, <2>1, <3>1
  <2>3. PICK x \in (a + 1)..b : c \in Chars(lines[x])
    BY <1>2, <1>6, <2>1 DEF IsRecord
  <2>4. x \in 1..Len(lines) /\ a < x /\ x <= b
    <3>1. x \in (a + 1)..b /\ Len(lines) \in Nat
      BY <1>2, <2>3
    <3> QED
      BY ONLY <2>2, <3>1
  <2>5. Between(c, cells, first + F[x - 1], first + F[x])
    <3>1. c \in Chars(lines[x]) /\ x \in 1..Len(lines)
      BY <2>3, <2>4
    <3> QED
      BY ONLY <3>1, cells \in Seq(Cell), first \in Nat, LinesIn(lines, cells, first, F), CharInFile
  <2>6. B[i - 1] < x /\ x <= B[i]
    BY ONLY <2>1, <2>4
  <2>7. \E at \in 1..Len(cells) : cells[at] = c /\ c # NL /\ first + F[x - 1] < at
        /\ at < first + F[x]
    BY ONLY <2>5 DEF Between
  <2>8. x \in 1..Len(lines)
    BY ONLY <2>4
  <2> QED
    BY ONLY <2>6, <2>7, <2>8
<1>7. PICK x \in 1..Len(lines), y \in 1..Len(lines), i \in 1..Len(cells), j \in 1..Len(cells) :
        /\ B[k - 1] < x /\ x <= B[k] /\ B[l - 1] < y /\ y <= B[l]
        /\ cells[i] = c /\ c # NL /\ first + F[x - 1] < i /\ i < first + F[x]
        /\ cells[j] = c /\ first + F[y - 1] < j /\ j < first + F[y]
  BY <1>6
<1>8. i = j
  BY <1>7 DEF Apart
<1>9. ASSUME NEW p \in 1..Len(lines), NEW q \in 1..Len(lines), p < q PROVE F[p] <= F[q - 1]
  BY <1>2, <1>5, <1>9
<1>10. \A n \in 0..Len(lines) : F[n] \in Nat
  BY LinesInFacts
<1>11. x = y
  <2>1. /\ F[x] \in Nat /\ F[y] \in Nat /\ F[x - 1] \in Nat /\ F[y - 1] \in Nat
        /\ i \in Nat /\ first + F[x - 1] < i /\ i < first + F[x]
        /\ first + F[y - 1] < i /\ i < first + F[y]
    <3>1. x \in 0..Len(lines) /\ y \in 0..Len(lines) /\ x - 1 \in 0..Len(lines)
          /\ y - 1 \in 0..Len(lines)
      BY <1>2
    <3>2. F[x] \in Nat /\ F[y] \in Nat /\ F[x - 1] \in Nat /\ F[y - 1] \in Nat
      BY ONLY <1>10, <3>1
    <3>3. i \in Nat
      OBVIOUS
    <3> QED
      <4>1. first + F[x - 1] < i /\ i < first + F[x]
        BY ONLY <1>7
      <4>2. first + F[y - 1] < i /\ i < first + F[y]
        <5>1. first + F[y - 1] < j /\ j < first + F[y]
          BY ONLY <1>7
        <5> QED
          BY ONLY <1>8, <5>1
      <4> QED
        BY ONLY <3>2, <3>3, <4>1, <4>2
  <2>2. ~(x < y)
    <3>1. ~(F[x] <= F[y - 1])
      BY ONLY <2>1, first \in Nat
    <3> QED
      BY <1>9, <3>1
  <2>3. ~(y < x)
    <3>1. ~(F[y] <= F[x - 1])
      <4>1. PICK u, v : u = F[y] /\ v = F[x - 1]
        OBVIOUS
      <4>2. u \in Nat /\ v \in Nat /\ i \in Nat /\ first + v < i /\ i < first + u
        BY ONLY <2>1, <4>1
      <4>3. ~(u <= v)
        BY ONLY <4>2, first \in Nat
      <4> QED
        BY ONLY <4>1, <4>3
    <3> QED
      BY <1>9, <3>1
  <2> QED
    BY <1>2, <2>2, <2>3
<1>12. ASSUME NEW p \in 1..Len(records), NEW q \in 1..Len(records), p < q PROVE B[p] <= B[q - 1]
  BY <1>2, <1>4, <1>12
<1>13. /\ B[k] \in Nat /\ B[l] \in Nat /\ B[k - 1] \in Nat /\ B[l - 1] \in Nat
  <2>1. k \in 0..Len(records) /\ l \in 0..Len(records) /\ k - 1 \in 0..Len(records)
        /\ l - 1 \in 0..Len(records)
    BY ONLY <1>2, k \in 1..Len(records), l \in 1..Len(records)
  <2> QED
    BY ONLY <1>3, <2>1
<1>14. ~(k < l) /\ ~(l < k)
  <2>1. ~(B[k] <= B[l - 1]) /\ ~(B[l] <= B[k - 1])
    <3>1. PICK p, q, u, v : p = B[k] /\ q = B[l] /\ u = B[k - 1] /\ v = B[l - 1]
      OBVIOUS
    <3>2. p \in Nat /\ q \in Nat /\ u \in Nat /\ v \in Nat /\ u < x /\ x <= p /\ v < x /\ x <= q
      BY ONLY <1>7, <1>11, <1>13, <3>1
    <3>3. x \in Nat
      BY <1>2
    <3>4. ~(p <= v) /\ ~(q <= u)
      BY ONLY <3>2, <3>3
    <3> QED
      BY ONLY <3>1, <3>4
  <2> QED
    BY <1>12, <2>1
<1> QED
  BY <1>2, <1>14

-----------------------------------------------------------------------------
(* Different places of a set are different.                                 *)
LEMMA NthApart ==
  ASSUME NEW m \in Nat, NEW S \in SUBSET (1..m), NEW k \in 1..Cardinality(S),
         NEW l \in 1..Cardinality(S), Nth(S, k) = Nth(S, l)
  PROVE  k = l
<1>1. Nth(S, k) \in Nat /\ Nth(S, l) \in Nat /\ Cardinality(S) \in Nat
  <2>1. Nth(S, k) \in S /\ Nth(S, l) \in S
    BY ONLY m \in Nat, S \in SUBSET (1..m), k \in 1..Cardinality(S), l
      \in 1..Cardinality(S), NthIsMember
  <2>2. Cardinality(S) \in Nat
    BY ONLY m \in Nat, S \in SUBSET (1..m), PartFinite
  <2>3. S \subseteq Nat
    OBVIOUS
  <2> QED
    BY ONLY <2>1, <2>2, <2>3
<1>2. ~(k < l) /\ ~(l < k)
  <2>1. ASSUME NEW a \in 1..Cardinality(S), NEW b \in 1..Cardinality(S), a < b
        PROVE  Nth(S, a) < Nth(S, b)
    BY ONLY m \in Nat, S \in SUBSET (1..m), <2>1, NthOrder
  <2>2. ~(Nth(S, k) < Nth(S, l)) /\ ~(Nth(S, l) < Nth(S, k))
    BY <1>1
  <2> QED
    BY <2>1, <2>2
<1> QED
  BY <1>1, <1>2

(* The messages of a batch: a character of one is in the lines of the turn  *)
(* and in the file, below the offset to come.                               *)
LEMMA BatchBehind ==
  ASSUME Basics, Covers, Turned, AppendLines, src.next.gen # Mixed,
         NEW m \in 1..Len(Batch), NEW c \in Chars(Batch[m].cells)
  PROVE  /\ src.next.gen \in DOMAIN contents
         /\ \E j \in 1..Len(src.lines) : c \in Chars(src.lines[j])
         /\ \E i \in 1..Len(contents[src.next.gen].cells) :
              contents[src.next.gen].cells[i] = c /\ i <= src.next.offset
<1>1. /\ src.pc = "append" /\ src \in Turn /\ Records0 \in Seq(Seq(Cell))
      /\ Fit \in SUBSET (1..Len(Records0)) /\ Accepted \in Seq(Seq(Cell)) /\ First \in Int
      /\ OptionsOK /\ src.lines \in Seq(Seq(Cell)) /\ src.next.gen \in Int
      /\ src.next.offset \in Nat
  BY AppendIs, TurnFacts DEF Basics, LoopOK, Place
<1>2. PICK g, lines, records : g = src.next.gen /\ lines = src.lines /\ records = Records0
  OBVIOUS
<1>3. PICK cells : cells = contents[g].cells
  OBVIOUS
<1>4. cells \in Seq(Cell) /\ g \in DOMAIN contents
  <2>1. contents[g] \in Generation /\ g \in DOMAIN contents
    BY <1>1, <1>2, LoopFacts DEF FilesOK, Turned
  <2> QED
    BY <1>3, <2>1 DEF Generation
<1>5. Ahead(lines, cells, First)
  BY <1>1, <1>2, <1>3, <1>4 DEF Covers, TurnCovers
<1>6. First \in Nat
  BY <1>5 DEF Ahead
<1>7. PICK F : LinesIn(lines, cells, First, F) /\ Size(lines) = F[Len(lines)]
  BY <1>5 DEF Ahead
<1>8. \E k \in 1..Len(records) : c \in Chars(records[k])
  <2>1. PICK a, f, n : a = Accepted /\ f = First /\ n = g
    OBVIOUS
  <2>2. a \in Seq(Seq(Cell)) /\ f \in Int /\ n \in Int
    BY <1>1, <1>2, <2>1
  <2>3. /\ Messages(a, f, n) \in Seq(Msg) /\ Len(Messages(a, f, n)) = Len(a)
        /\ \A k \in 1..Len(a) : Messages(a, f, n)[k].cells = a[k]
    BY ONLY <2>2, MessagesType
  <2>4. Batch = Messages(a, f, n)
    BY <1>2, <2>1 DEF Batch
  <2>5. m \in 1..Len(a) /\ c \in Chars(a[m])
    BY <2>3, <2>4
  <2>6. a = Chosen(records, Fit)
    BY <1>2, <2>1 DEF Accepted
  <2>7. PICK fit : fit = Fit
    OBVIOUS
  <2>8. records \in Seq(Seq(Cell)) /\ fit \in SUBSET (1..Len(records))
    BY <1>1, <1>2, <2>7
  <2>9. /\ Len(Chosen(records, fit)) = Cardinality(fit)
        /\ \A k \in 1..Len(Chosen(records, fit)) :
             Nth(fit, k) \in fit /\ Chosen(records, fit)[k] = records[Nth(fit, k)]
    <3>1. PICK C : C = Seq(Cell)
      OBVIOUS
    <3>2. records \in Seq(C)
      BY <2>8, <3>1
    <3> QED
      BY ONLY <2>8, <3>2, ChosenIs
  <2>10. Nth(fit, m) \in fit /\ a[m] = records[Nth(fit, m)]
    BY <2>5, <2>6, <2>7, <2>9
  <2> QED
    BY <2>5, <2>8, <2>10
<1>9. PICK j \in 1..Len(lines) : c \in Chars(lines[j])
  <2>1. records = ApplyMultiline(lines)
    BY <1>2 DEF Records0
  <2>2. PICK k \in 1..Len(ApplyMultiline(lines)) : c \in Chars(ApplyMultiline(lines)[k])
    BY <1>8, <2>1
  <2> QED
    BY <1>1, <1>4, <1>6, <1>7, <2>2, RecordOfLines
<1>10. \E i \in 1..Len(cells) : cells[i] = c /\ i <= src.next.offset
  <2>1. PICK first, o : first = First /\ o = src.next.offset
    OBVIOUS
  <2>2. first \in Nat /\ LinesIn(lines, cells, first, F)
    BY <1>6, <1>7, <2>1
  <2>3. Between(c, cells, first + F[j - 1], first + F[j])
    BY ONLY <1>4, <1>9, <2>2, CharInFile
  <2>4. F[j] <= F[Len(lines)] /\ F[j] \in Nat /\ F[Len(lines)] \in Nat
    <3>1. lines \in Seq(Seq(Cell)) /\ Sums(F, lines)
      BY <2>2 DEF LinesIn
    <3>2. PICK C : C = Cell
      OBVIOUS
    <3>3. lines \in Seq(Seq(C))
      BY <3>1, <3>2
    <3>4. /\ \A k \in 0..Len(lines) : F[k] \in Nat
          /\ \A k, n \in 0..Len(lines) : k < n => F[k] < F[n]
      BY ONLY <3>1, <3>3, SumsGrow
    <3>5. PICK n : n = Len(lines)
      OBVIOUS
    <3>6. n \in Nat /\ j \in 0..n /\ n \in 0..n
      BY <3>1, <3>5
    <3>7. F[j] \in Nat /\ F[n] \in Nat
      BY <3>4, <3>5, <3>6
    <3>8. j < n => F[j] < F[n]
      BY <3>4, <3>5, <3>6
    <3>9. j < n \/ j = n
      BY <3>6
    <3>10. F[j] <= F[n]
      <4>1. CASE j = n
        BY <3>7, <4>1
      <4>2. CASE j < n
        <5>1. PICK u, v : u = F[j] /\ v = F[n]
          OBVIOUS
        <5>2. u \in Nat /\ v \in Nat /\ u < v
          BY <3>7, <3>8, <4>2, <5>1
        <5>3. u <= v
          BY ONLY <5>2
        <5> QED
          BY <5>1, <5>3
      <4> QED
        BY <3>9, <4>1, <4>2
    <3> QED
      BY <3>5, <3>7, <3>10
  <2>5. first + F[Len(lines)] = o
    <3>1. PICK v : v = F[Len(lines)]
      OBVIOUS
    <3>2. first = o - v /\ o \in Nat /\ v \in Nat
      BY <1>1, <1>2, <1>7, <2>1, <2>4, <3>1 DEF First
    <3>3. first + v = o
      BY ONLY <3>2
    <3> QED
      BY <3>1, <3>3
  <2>6. PICK i \in 1..Len(cells) : cells[i] = c /\ i < first + F[j]
    BY <2>3 DEF Between
  <2>7. i <= o
    <3>1. PICK u, v : u = F[j] /\ v = F[Len(lines)]
      OBVIOUS
    <3>2. u \in Nat /\ v \in Nat /\ u <= v /\ i < first + u /\ first + v = o /\ i \in Nat
      BY <2>4, <2>5, <2>6, <3>1
    <3> QED
      BY ONLY <2>2, <3>2
  <2> QED
    BY <2>1, <2>6, <2>7
<1> QED
  BY <1>2, <1>3, <1>4, <1>9, <1>10

(* Two messages of a batch have no character in common.                     *)
LEMMA BatchApart ==
  ASSUME Basics, Covers, Turned, AppendLines, src.next.gen # Mixed, Unique,
         NEW m \in 1..Len(Batch), NEW n \in 1..Len(Batch),
         NEW c, c \in Chars(Batch[m].cells), c \in Chars(Batch[n].cells)
  PROVE  m = n
<1>1. /\ src.pc = "append" /\ src \in Turn /\ Records0 \in Seq(Seq(Cell))
      /\ Fit \in SUBSET (1..Len(Records0)) /\ Accepted \in Seq(Seq(Cell)) /\ First \in Int
      /\ OptionsOK /\ src.lines \in Seq(Seq(Cell)) /\ src.next.gen \in Int
  BY AppendIs, TurnFacts DEF Basics, LoopOK, Place
<1>2. PICK g, lines, records, fit : g = src.next.gen /\ lines = src.lines /\ records = Records0
           /\ fit = Fit
  OBVIOUS
<1>3. PICK cells : cells = contents[g].cells
  OBVIOUS
<1>4. cells \in Seq(Cell) /\ g \in DOMAIN contents
  <2>1. contents[g] \in Generation /\ g \in DOMAIN contents
    BY <1>1, <1>2, LoopFacts DEF FilesOK, Turned
  <2> QED
    BY <1>3, <2>1 DEF Generation
<1>5. Ahead(lines, cells, First)
  BY <1>1, <1>2, <1>3, <1>4 DEF Covers, TurnCovers
<1>6. PICK F : LinesIn(lines, cells, First, F)
  BY <1>5 DEF Ahead
<1>7. Apart(cells)
  <2>1. ASSUME NEW i \in 1..Len(cells), NEW j \in 1..Len(cells), cells[i] = cells[j], cells[i] # NL
        PROVE  i = j
    BY <1>3, <1>4, <2>1 DEF Unique
  <2> QED
    BY <2>1 DEF Apart
<1>8. PICK a : a = Chosen(records, fit)
  OBVIOUS
<1>9. m \in 1..Len(a) /\ n \in 1..Len(a) /\ c \in Chars(a[m]) /\ c \in Chars(a[n])
  <2>1. a = Accepted
    BY <1>2, <1>8 DEF Accepted
  <2>2. PICK f : f = First
    OBVIOUS
  <2>3. a \in Seq(Seq(Cell)) /\ f \in Int /\ g \in Int
    BY <1>1, <1>2, <2>1, <2>2
  <2>4. /\ Messages(a, f, g) \in Seq(Msg) /\ Len(Messages(a, f, g)) = Len(a)
        /\ \A k \in 1..Len(a) : Messages(a, f, g)[k].cells = a[k]
    BY ONLY <2>3, MessagesType
  <2>5. Batch = Messages(a, f, g)
    BY <1>2, <2>1, <2>2 DEF Batch
  <2>6. m \in 1..Len(a) /\ n \in 1..Len(a)
    BY ONLY <2>4, <2>5, m \in 1..Len(Batch), n \in 1..Len(Batch)
  <2>7. Batch[m].cells = a[m] /\ Batch[n].cells = a[n]
    BY ONLY <2>4, <2>5, <2>6
  <2> QED
    BY ONLY <2>6, <2>7, c \in Chars(Batch[m].cells), c \in Chars(Batch[n].cells)
<1>10. records \in Seq(Seq(Cell)) /\ fit \in SUBSET (1..Len(records)) /\ Len(records) \in Nat
  BY <1>1, <1>2
<1>11. /\ Len(a) = Cardinality(fit)
       /\ \A k \in 1..Len(a) : Nth(fit, k) \in fit /\ a[k] = records[Nth(fit, k)]
  <2>1. PICK C : C = Seq(Cell)
    OBVIOUS
  <2>2. records \in Seq(C) /\ fit \in SUBSET (1..Len(records))
    BY <1>10, <2>1
  <2>3. /\ Len(Chosen(records, fit)) = Cardinality(fit)
        /\ \A k \in 1..Len(Chosen(records, fit)) :
             Nth(fit, k) \in fit /\ Chosen(records, fit)[k] = records[Nth(fit, k)]
    BY ONLY <2>2, ChosenIs
  <2> QED
    BY <1>8, <2>3
<1>12. PICK x, y : x = Nth(fit, m) /\ y = Nth(fit, n)
  OBVIOUS
<1>13. x \in 1..Len(records) /\ y \in 1..Len(records) /\ c \in Chars(records[x])
       /\ c \in Chars(records[y])
  BY <1>9, <1>10, <1>11, <1>12
<1>14. x = y
  <2>1. PICK first : first = First
    OBVIOUS
  <2>2. first \in Nat /\ LinesIn(lines, cells, first, F) /\ records = ApplyMultiline(lines)
    BY <1>2, <1>5, <1>6, <2>1 DEF Ahead, Records0
  <2> QED
    BY ONLY <1>1, <1>4, <1>7, <1>13, <2>2, RecordsApart
<1>15. m \in 1..Cardinality(fit) /\ n \in 1..Cardinality(fit) /\ Nth(fit, m) = Nth(fit, n)
  BY <1>9, <1>11, <1>12, <1>14
<1> QED
  BY ONLY <1>10, <1>15, NthApart

(* The m-th message is the k-th of what the shard was sent.                 *)
Placed(msgs, shards, s, k, m) ==
  /\ k > Len(Sent(s)) /\ m \in 1..Len(msgs) /\ shards[m] = s
  /\ m = Nth(Mine(msgs, shards, s), k - Len(Sent(s)))

(* Where a message of a batch goes is one place.                            *)
LEMMA SendsPlace ==
  ASSUME EngineOK, NEW msgs, NEW shards, Sends(msgs, shards), NEW s \in Shards, NEW t \in Shards,
         NEW k \in 1..Len(Sent(s)'), NEW l \in 1..Len(Sent(t)'),
         NEW m, Placed(msgs, shards, s, k, m), Placed(msgs, shards, t, l, m)
  PROVE  s = t /\ k = l
<1>0. /\ k > Len(Sent(s)) /\ l > Len(Sent(t)) /\ shards[m] = s /\ shards[m] = t
      /\ m = Nth(Mine(msgs, shards, s), k - Len(Sent(s)))
      /\ m = Nth(Mine(msgs, shards, t), l - Len(Sent(t)))
  BY DEF Placed
<1>1. s = t
  BY <1>0
<1>2. PICK a, part, new, mine : a = Sent(s) /\ part = PartFor(msgs, shards, s) /\ new = Sent(s)'
                          /\ mine = Mine(msgs, shards, s)
  OBVIOUS
<1>3. a \in Seq(Msg) /\ part \in Seq(Msg) /\ new = a \o part
  BY <1>2, SentType, SendsSent
<1>4. msgs \in Seq(Msg) /\ shards \in [1..Len(msgs) -> Shards] /\ Len(msgs) \in Nat
  BY DEF Sends
<1>5. Len(part) = Cardinality(mine) /\ mine \in SUBSET (1..Len(msgs))
  <2>1. PICK M : M = Msg
    OBVIOUS
  <2>2. msgs \in Seq(M) /\ shards \in [1..Len(msgs) -> Shards]
    BY ONLY <1>4, <2>1
  <2>3. LET mine1 == Mine(msgs, shards, s)
            part1 == PartFor(msgs, shards, s)
        IN  /\ part1 \in Seq(M) /\ Len(part1) = Cardinality(mine1)
            /\ mine1 \in SUBSET (1..Len(msgs))
            /\ \A j \in 1..Len(part1) : Nth(mine1, j) \in mine1 /\ part1[j] = msgs[Nth(mine1, j)]
            /\ \A i \in mine1 : \E j \in 1..Len(part1) : Nth(mine1, j) = i
    BY ONLY <2>2, PartIs
  <2> QED
    BY ONLY <1>2, <2>3
<1>6. PICK p, x, y : p = Len(a) /\ x = k - p /\ y = l - p
  OBVIOUS
<1>7. p \in Nat /\ x \in 1..Cardinality(mine) /\ y \in 1..Cardinality(mine) /\ k \in Nat
      /\ l \in Nat
  <2>1. Len(new) = Len(a) + Len(part) /\ Len(a) \in Nat /\ Len(part) \in Nat
    BY ONLY <1>3, ConcatProperties
  <2>2. k \in 1..Len(new) /\ l \in 1..Len(new) /\ k > p /\ l > p
    BY <1>0, <1>1, <1>2, <1>6
  <2>3. PICK q, w : q = Len(part) /\ w = Len(new)
    OBVIOUS
  <2>4. p \in Nat /\ q \in Nat /\ w = p + q /\ k \in 1..w /\ l \in 1..w /\ k > p /\ l > p
    BY ONLY <1>6, <2>1, <2>2, <2>3
  <2>5. x \in 1..q /\ y \in 1..q /\ k \in Nat /\ l \in Nat
    BY ONLY <1>6, <2>4
  <2> QED
    BY <1>5, <2>3, <2>4, <2>5
<1>8. Nth(mine, x) = Nth(mine, y)
  BY <1>0, <1>1, <1>2, <1>6
<1>9. x = y
  BY ONLY <1>4, <1>5, <1>7, <1>8, NthApart
<1>10. k = l
  BY ONLY <1>6, <1>7, <1>9
<1> QED
  BY <1>1, <1>10

-----------------------------------------------------------------------------
(* What a step leaves of the files there were, and of how far they were     *)
(* sent.                                                                    *)
FilesStay ==
  \A p \in PathSet : file'[p] # Absent /\ file'[p].gen \in DOMAIN contents => file'[p] = file[p]

(* A frontier that was past a place of the path's file stays past it.       *)
FrontierStays ==
  \A p \in PathSet : \A g \in DOMAIN contents : \A i \in 1..Len(contents[g].cells) :
    file[p] # Absent /\ file[p].gen = g /\ Frontier(p).gen = g /\ Frontier(p).offset >= i
      => Frontier(p)'.gen = g /\ Frontier(p)'.offset >= i

(* What lies behind stays behind.                                           *)
LEMMA PastKeeps ==
  ASSUME FilesStay, FrontierStays, NEW g \in DOMAIN contents, NEW i \in 1..Len(contents[g].cells),
         Past(g, i)
  PROVE  Past(g, i)'
<1>1. ASSUME NEW p \in PathSet, file'[p] # Absent, file'[p].gen = g
      PROVE  Frontier(p)'.gen = g /\ Frontier(p)'.offset >= i
  <2>1. file[p] # Absent /\ file[p].gen = g
    BY <1>1 DEF FilesStay
  <2>2. Frontier(p).gen = g /\ Frontier(p).offset >= i
    BY <2>1 DEF Past
  <2> QED
    BY <2>1, <2>2 DEF FrontierStays
<1> QED
  BY <1>1 DEF Past

(* So what was sent stays behind, over a step that sends nothing.           *)
LEMMA BehindKeeps ==
  ASSUME Behind, Longer(contents, contents'), FilesStay, FrontierStays,
         NEW c, \E g \in DOMAIN contents : \E i \in 1..Len(contents[g].cells) :
                  contents[g].cells[i] = c /\ Past(g, i)
  PROVE  \E g \in DOMAIN contents' : \E i \in 1..Len(contents'[g].cells) :
           contents'[g].cells[i] = c /\ Past(g, i)'
<1>0. PICK g \in DOMAIN contents :
        \E i \in 1..Len(contents[g].cells) : contents[g].cells[i] = c /\ Past(g, i)
  OBVIOUS
<1>1. PICK i \in 1..Len(contents[g].cells) : contents[g].cells[i] = c /\ Past(g, i)
  BY <1>0
<1>2. /\ g \in 1..Len(contents) /\ g \in DOMAIN contents'
      /\ Len(contents[g].cells) \in Nat /\ Len(contents'[g].cells) \in Nat
      /\ Len(contents[g].cells) <= Len(contents'[g].cells)
      /\ \A j \in 1..Len(contents[g].cells) : contents'[g].cells[j] = contents[g].cells[j]
  <2>1. /\ Len(contents) \in Nat /\ Len(contents') \in Nat
        /\ DOMAIN contents = 1..Len(contents) /\ DOMAIN contents' = 1..Len(contents')
        /\ \A h \in 1..Len(contents) : Len(contents[h].cells) \in Nat
           /\ Len(contents'[h].cells) \in Nat
    BY ONLY Longer(contents, contents'), LongerFacts
  <2>2. /\ Len(contents) <= Len(contents')
        /\ \A h \in 1..Len(contents) :
             /\ Len(contents[h].cells) <= Len(contents'[h].cells)
             /\ \A j \in 1..Len(contents[h].cells) : contents'[h].cells[j] = contents[h].cells[j]
    BY DEF Longer
  <2>3. g \in 1..Len(contents) /\ g \in DOMAIN contents'
    BY <2>1, <2>2
  <2> QED
    BY <2>1, <2>2, <2>3
<1>3. i \in 1..Len(contents'[g].cells) /\ contents'[g].cells[i] = c
  BY <1>1, <1>2
<1>4. Past(g, i)'
  BY <1>1, PastKeeps
<1> QED
  BY <1>2, <1>3, <1>4

(* Nothing is sent.                                                         *)
LEMMA NoneSent ==
  ASSUME Once, Behind, Longer(contents, contents'), FilesStay, FrontierStays,
         \A s \in Shards : Sent(s)' = Sent(s)
  PROVE  Once' /\ Behind' /\ \A c : Has(c)' => Has(c)
<1>1. \A s \in Shards : \A k, c : Holds(s, k, c)' <=> Holds(s, k, c)
  BY DEF Holds
<1>2. \A c : Has(c)' => Has(c)
  BY <1>1 DEF Has
<1>3. Once'
  <2>1. ASSUME NEW s \in Shards, NEW t \in Shards, NEW k \in 1..Len(Sent(s)'), NEW l
                 \in 1..Len(Sent(t)'),
               NEW c, Holds(s, k, c)', Holds(t, l, c)'
        PROVE  s = t /\ k = l
    <3>1. Holds(s, k, c) /\ Holds(t, l, c)
      BY <1>1, <2>1
    <3>2. k \in 1..Len(Sent(s)) /\ l \in 1..Len(Sent(t))
      BY <3>1 DEF Holds
    <3> QED
      BY <3>1, <3>2 DEF Once
  <2> QED
    BY <2>1 DEF Once
<1>4. Behind'
  <2>1. ASSUME NEW c, Has(c)'
        PROVE  \E g \in DOMAIN contents' : \E i \in 1..Len(contents'[g].cells) :
                 contents'[g].cells[i] = c /\ Past(g, i)'
    <3>1. \E g \in DOMAIN contents : \E i \in 1..Len(contents[g].cells) :
            contents[g].cells[i] = c /\ Past(g, i)
      BY <1>2, <2>1 DEF Behind
    <3> QED
      BY <3>1, BehindKeeps
  <2> QED
    BY <2>1 DEF Behind
<1> QED
  BY <1>2, <1>3, <1>4

(* The loop and its offsets stay, others move.                              *)
LEMMA StillOnce ==
  ASSUME Basics, Basics', Turned, OnceOK, Longer(contents, contents'), FilesStay,
         UNCHANGED <<src, offsets, stored>>, \A s \in Shards : Sent(s)' = Sent(s)
  PROVE  OnceOK'
<1>1. FrontierStays
  <2>1. \A p \in PathSet : Frontier(p)' = Frontier(p)
    BY DEF Frontier, Path
  <2> QED
    BY <2>1 DEF FrontierStays
<1>2. Once' /\ Behind' /\ \A c : Has(c)' => Has(c)
  BY <1>1, NoneSent DEF OnceOK
<1>3. /\ Len(contents) \in Nat /\ DOMAIN contents = 1..Len(contents)
      /\ \A g \in DOMAIN contents : contents'[g].inode = contents[g].inode
      /\ \A p \in PathSet : offsets[p].gen \in {Mixed} \cup 0..Len(contents)
      /\ \A p \in PathSet : file'[p] # Absent => file'[p].gen \in 1..Len(contents')
      /\ Len(contents') \in Nat /\ DOMAIN contents' = 1..Len(contents')
  BY LongerFacts DEF Longer, Basics, LoopOK, IsOffset, FilesOK
<1>4. \A p \in PathSet : file'[p] # Absent /\ offsets[p].gen = file'[p].gen => file'[p] = file[p]
  BY <1>3 DEF FilesStay, Mixed
<1>5. Known'
  <2>1. ASSUME NEW p \in PathSet, offsets[p].gen \in DOMAIN contents'
        PROVE  offsets[p].gen \in DOMAIN contents
    BY <1>3, <2>1 DEF Mixed
  <2> QED
    BY <1>3, <2>1 DEF Known, OnceOK
<1>6. Path' = Path /\ (src.pc # "idle" => Path \in PathSet)
  <2>1. src.pc # "idle" => Path \in PathSet
    BY TurnFacts DEF Basics
  <2> QED
    BY <2>1 DEF Path
<1>7. TurnOnce'
  <2>1. src.pc # "idle" => (Same' => Same /\ file'[Path] = file[Path])
    BY <1>4, <1>6 DEF Same
  <2>2. src.pc \in {"append", "wait", "store"}
        /\ src.next.gen # Mixed => src.next.gen \in DOMAIN contents
    BY DEF Turned
  <2>3. ASSUME src.pc = "append", src.next.gen # Mixed, NEW p \in PathSet, file'[p] # Absent,
               file'[p].gen = src.next.gen
        PROVE  p = Path
    <3>1. file'[p] = file[p]
      BY <2>2, <2>3 DEF FilesStay
    <3> QED
      BY <2>3, <3>1 DEF TurnOnce, OnceOK
  <2>4. src'.pc \in {"size", "read"} => src'.inode # 0 /\ (Same' => src'.inode = file'[Path'].inode)
    BY <1>6, <2>1 DEF TurnOnce, OnceOK
  <2>5. src'.pc = "read" /\ Same' => src'.start = offsets'[Path'].offset
    BY <1>6, <2>1 DEF TurnOnce, OnceOK
  <2>6. src'.pc = "append" =>
          /\ \A k \in 1..Len(src'.lines) : \A c \in Chars(src'.lines[k]) : ~Has(c)'
          /\ \A p \in PathSet : file'[p] # Absent /\ file'[p].gen = src'.next.gen => p = Path'
    BY <1>2, <1>6, <2>3 DEF TurnOnce, OnceOK
  <2>7. src'.pc \in {"append", "wait", "store"} =>
          /\ src'.next.gen # Mixed /\ src'.next.inode = contents'[src'.next.gen].inode
          /\ Same' => src'.next.gen = file'[Path'].gen /\ src'.next.offset >= offsets'[Path'].offset
    BY <1>3, <1>6, <2>1, <2>2 DEF TurnOnce, OnceOK
  <2> QED
    BY <2>4, <2>5, <2>6, <2>7 DEF TurnOnce
<1> QED
  BY <1>2, <1>5, <1>7 DEF OnceOK

(* Between two turns.                                                       *)
LEMMA AwayOnce ==
  ASSUME Basics, OnceOK, UNCHANGED <<contents, file>>, \A s \in Shards : Sent(s)' = Sent(s),
         FrontierStays, Known', src'.pc \in {"idle", "stat"}
  PROVE  OnceOK'
<1>1. Longer(contents, contents')
  BY ContentsLonger DEF Basics
<1>2. FilesStay
  BY DEF FilesStay
<1>3. Once' /\ Behind'
  BY <1>1, <1>2, NoneSent DEF OnceOK
<1>4. TurnOnce'
  BY DEF TurnOnce
<1> QED
  BY <1>3, <1>4 DEF OnceOK

-----------------------------------------------------------------------------
(* The steps of the loop that send nothing.                                 *)
LEMMA LoopSends ==
  ASSUME Basics, [Next]_vars, Poll \/ Stat \/ FileSize \/ Read \/ Appended \/ Store(FALSE)
  PROVE  /\ UNCHANGED <<contents, file>> /\ \A s \in Shards : Sent(s)' = Sent(s)
         /\ Longer(contents, contents') /\ FilesStay
<1>1. UNCHANGED <<engineVars, contents, file>>
  BY DEF Poll, Stat, FileSize, Read, Appended, Store, Rest
<1>2. \A s \in Shards : Sent(s)' = Sent(s)
  BY <1>1 DEF engineVars, Sent
<1> QED
  BY <1>1, <1>2, ContentsLonger DEF Basics, FilesStay

(* The loop's steps keep the third layer while nothing excuses a copy.      *)
LEMMA PollOnce ==
  ASSUME Basics, OnceOK, [Next]_vars, Poll
  PROVE  OnceOK'
<1>1. src.pc = "idle" /\ UNCHANGED <<offsets, stored, contents, file>>
      /\ src'.pc \in {"idle", "stat"}
  <2>1. PICK paths : src' = IF paths
               = <<>> THEN Idle ELSE [Idle EXCEPT !.pc = "stat", !.todo = paths]
    <3>1. PICK paths : paths = Chosen(Paths, {i \in DOMAIN Paths : Paths[i] \in Fixed
                                                                   \/ file[Paths[i]] # Absent})
      OBVIOUS
    <3>2. src' = IF paths = <<>> THEN Idle ELSE [Idle EXCEPT !.pc = "stat", !.todo = paths]
      BY ONLY <3>1, Poll, Zenon DEF Poll
    <3> QED
      BY <3>2
  <2>2. Idle.pc = "idle" /\ [Idle EXCEPT !.pc = "stat", !.todo = paths].pc = "stat"
    BY DEF Idle
  <2>3. src.pc = "idle" /\ UNCHANGED <<offsets, stored, contents, file>>
    BY DEF Poll, Rest
  <2> QED
    BY <2>1, <2>2, <2>3
<1>2. \A p \in PathSet : Frontier(p)' = Frontier(p)
  BY <1>1 DEF Frontier
<1>3. FrontierStays /\ Known'
  BY <1>1, <1>2 DEF FrontierStays, Known, OnceOK
<1> QED
  BY <1>1, <1>3, LoopSends, AwayOnce

(* An offset on disk is in memory already: reading it changes nothing.      *)
LEMMA StatOnce ==
  ASSUME Basics, OnePath, OnceOK, [Next]_vars, Stat
  PROVE  OnceOK'
<1>1. src.pc = "stat" /\ Path \in PathSet /\ src \in Turn
  BY TurnFacts DEF Stat, Basics
<1>2. offsets' = offsets
  <2>1. offsets' = IF offsets[Path]
          = Nowhere THEN [offsets EXCEPT ![Path] = stored[Path]] ELSE offsets
    BY DEF Stat
  <2>2. offsets[Path] = Nowhere => stored[Path] = Nowhere
    BY <1>1 DEF OnceOK, Known
  <2>3. offsets \in [PathSet -> Place]
    BY LoopFacts
  <2> QED
    BY <1>1, <2>1, <2>2, <2>3
<1>3. UNCHANGED <<stored, contents, file>>
  BY DEF Stat, Rest
<1>4. Known'
  BY <1>2, <1>3 DEF Known, OnceOK
<1>5. CASE file[Path] = Absent
  <2>1. src' = Idle
    BY <1>5 DEF Stat, Failed
  <2>2. src'.pc = "idle"
    BY <2>1 DEF Idle
  <2>3. \A p \in PathSet : Frontier(p)' = Frontier(p)
    BY <1>1, <1>2, <2>2 DEF Frontier
  <2> QED
    BY <1>3, <1>4, <2>2, <2>3, LoopSends, AwayOnce DEF FrontierStays
<1>6. CASE file[Path] # Absent
  <2>1. src' = [src EXCEPT !.pc = "size", !.inode = file[Path].inode]
    BY <1>6 DEF Stat
  <2>2. src'.pc = "size" /\ src'.inode = file[Path].inode /\ src'.todo = src.todo
    BY <1>1, <2>1 DEF Turn
  <2>3. \A p \in PathSet : Frontier(p)' = Frontier(p)
    BY <1>1, <1>2, <2>2 DEF Frontier
  <2>4. Once' /\ Behind'
    BY <2>3, LoopSends, NoneSent DEF FrontierStays, OnceOK
  <2>5. Path' = Path
    BY <2>2 DEF Path
  <2>6. TurnOnce'
    BY <1>1, <1>3, <1>6, <2>2, <2>5 DEF TurnOnce, OnePath
  <2> QED
    BY <1>4, <2>4, <2>6 DEF OnceOK
<1> QED
  BY <1>5, <1>6

(* The offset of a turn that found nothing stands for the file, or there is *)
(* nothing behind it.                                                       *)
LEMMA KeepOnce ==
  ASSUME Basics, OnePath, OnceOK, [Next]_vars, FileSize \/ Read, NEW start, NEW gen,
         KeepOffset(start, gen), UNCHANGED stored, file[Path] # Absent, src.inode # 0,
         gen \in DOMAIN contents => gen = file[Path].gen /\ src.inode = file[Path].inode,
         \/ Len(CellsAt(Path)) = 0
         \/ Same => gen = file[Path].gen /\ start = offsets[Path].offset
  PROVE  OnceOK'
<1>1. src.pc \in {"size", "read"} /\ Path \in PathSet /\ src \in Turn
  BY TurnFacts DEF FileSize, Read, Basics
<1>2. PICK p, o : p = Path /\ o = [inode |-> src.inode, offset |-> start, gen |-> gen]
  OBVIOUS
<1>3. offsets' = [offsets EXCEPT ![p] = o] /\ src' = Onward /\ o.inode = src.inode
      /\ o.offset = start
      /\ o.gen = gen
  BY <1>2 DEF KeepOffset
<1>4. src'.pc \in {"idle", "stat"}
  BY <1>3, TurnFacts DEF Basics
<1>5. offsets \in [PathSet -> Place]
  BY LoopFacts
<1>6. offsets'[p] = o /\ \A q \in PathSet : q # p => offsets'[q] = offsets[q]
  BY <1>1, <1>2, <1>3, <1>5
<1>7. UNCHANGED <<contents, file, stored>>
  BY LoopSends
<1>8. \A q \in PathSet : Frontier(q)' = offsets'[q] /\ Frontier(q) = offsets[q]
  BY <1>1, <1>4 DEF Frontier
<1>9. FrontierStays
  <2>1. ASSUME NEW q \in PathSet, NEW g \in DOMAIN contents, NEW i \in 1..Len(contents[g].cells),
               file[q] # Absent, file[q].gen = g, Frontier(q).gen = g, Frontier(q).offset >= i
        PROVE  Frontier(q)'.gen = g /\ Frontier(q)'.offset >= i
    <3>1. CASE q # p
      BY <1>6, <1>8, <2>1, <3>1
    <3>2. CASE q = p /\ Len(CellsAt(Path)) = 0
      <4>1. Len(contents[g].cells) = 0
        BY <1>2, <2>1, <3>2 DEF CellsAt
      <4> QED
        BY <4>1
    <3>3. CASE q = p /\ Len(CellsAt(Path)) # 0
      <4>1. Same
        BY <1>2, <1>8, <2>1, <3>3 DEF Same
      <4>2. gen = g /\ start = offsets[Path].offset
        BY <1>2, <2>1, <3>3, <4>1
      <4>3. Frontier(q)' = o
        BY <1>6, <1>8, <3>3
      <4>4. start >= i
        BY <1>2, <1>8, <2>1, <3>3, <4>2
      <4> QED
        BY <1>3, <4>2, <4>3, <4>4
    <3> QED
      BY <3>1, <3>2, <3>3
  <2> QED
    BY <2>1 DEF FrontierStays
<1>10. Known'
  <2>1. ASSUME NEW q \in PathSet
        PROVE  /\ stored[q] # Nowhere => offsets'[q] # Nowhere
               /\ offsets'[q].gen \in DOMAIN contents
                    => offsets'[q].inode = contents[offsets'[q].gen].inode
    <3>1. CASE q # p
      <4>1. offsets'[q] = offsets[q]
        BY <1>6, <3>1
      <4> QED
        BY <4>1 DEF Known, OnceOK
    <3>2. CASE q = p
      <4>1. offsets'[q] = o /\ o # Nowhere
        BY <1>3, <1>6, <3>2 DEF Nowhere
      <4>2. o.gen \in DOMAIN contents => o.inode = contents[o.gen].inode
        BY <1>1, <1>3 DEF OnePath
      <4> QED
        BY <4>1, <4>2
    <3> QED
      BY <3>1, <3>2
  <2> QED
    BY <1>7, <2>1 DEF Known
<1> QED
  BY <1>4, <1>7, <1>9, <1>10, LoopSends, AwayOnce

(* The size is taken of the file whose inode was looked at, or excused.     *)
LEMMA SizeOnce ==
  ASSUME Basics, Covers, OnePath, OnceOK, [Next]_vars, FileSize
  PROVE  OnceOK'
<1> DEFINE size == Len(CellsAt(Path))
           start == IF Resumes(offsets[Path], size) THEN offsets[Path].offset ELSE 0
<1>1. src.pc = "size" /\ Path \in PathSet /\ src \in Turn /\ UNCHANGED <<contents, file, stored>>
      /\ offsets \in [PathSet -> Place]
  BY TurnFacts, LoopFacts DEF FileSize, Basics, Rest
<1>2. IF file[Path] = Absent THEN src' = Idle /\ UNCHANGED offsets
      ELSE IF start >= size
      THEN KeepOffset(start, IF start = 0 THEN 0 ELSE offsets[Path].gen)
      ELSE /\ src' = [src EXCEPT !.pc = "read", !.start = start, !.size = size]
           /\ UNCHANGED offsets
  BY DEF FileSize, Failed
<1>3. src.inode # 0 /\ (Same => src.inode = file[Path].inode)
  BY <1>1 DEF OnceOK, TurnOnce
<1>4. CASE file[Path] = Absent
  <2>1. src'.pc = "idle" /\ offsets' = offsets
    BY <1>2, <1>4 DEF Idle
  <2>2. \A p \in PathSet : Frontier(p)' = Frontier(p)
    BY <1>1, <2>1 DEF Frontier
  <2>3. Known'
    BY <1>1, <2>1 DEF Known, OnceOK
  <2> QED
    BY <1>1, <2>1, <2>2, <2>3, LoopSends, AwayOnce DEF FrontierStays
<1>5. CASE file[Path] # Absent
  <2>1. size \in Nat /\ file[Path].gen \in DOMAIN contents
        /\ size = Len(contents[file[Path].gen].cells)
    BY <1>1, <1>5, FileFacts, LoopFacts
  <2>2. /\ start # 0 => Resumes(offsets[Path], size) /\ start = offsets[Path].offset
        /\ start \in Nat
    BY <1>1 DEF Place
  <2>3. Same => Resumes(offsets[Path], size) /\ start = offsets[Path].offset
    <3>1. ASSUME Same PROVE Resumes(offsets[Path], size)
      <4>1. offsets[Path].gen = file[Path].gen /\ src.inode = file[Path].inode
        BY <1>3, <3>1 DEF Same
      <4>2. offsets[Path].inode = contents[file[Path].gen].inode /\ offsets[Path].inode = src.inode
        BY <1>1, <1>5, <2>1, <4>1 DEF Known, OnceOK, OnePath
      <4>3. offsets[Path] # Nowhere
        BY <1>3, <4>2 DEF Nowhere
      <4>4. Covered(Reached, offsets[Path].gen, offsets[Path].offset)
        BY <1>1 DEF Covers
      <4>5. offsets[Path].offset <= size
        BY <2>1, <4>1, <4>4 DEF Covered, CoveredIn
      <4> QED
        BY <4>2, <4>3, <4>5 DEF Resumes
    <3> QED
      BY <3>1
  <2> HIDE DEF size, start
  <2>4. CASE start >= size
    <3>1. KeepOffset(start, IF start = 0 THEN 0 ELSE offsets[Path].gen)
      BY <1>2, <1>5, <2>4
    <3>2. CASE start = 0
      <4>1. Len(CellsAt(Path)) = 0 /\ KeepOffset(start, 0)
        BY <2>1, <2>4, <3>1, <3>2 DEF size
      <4>2. 0 \notin DOMAIN contents
        BY <1>1, <1>5, FileFacts, LoopFacts
      <4> QED
        BY <1>1, <1>3, <1>5, <4>1, <4>2, KeepOnce
    <3>3. CASE start # 0
      <4>1. KeepOffset(start, offsets[Path].gen) /\ Resumes(offsets[Path], size)
            /\ start = offsets[Path].offset
        BY <2>2, <3>1, <3>3
      <4> DEFINE o == [inode |-> src.inode, offset |-> start, gen |-> offsets[Path].gen]
      <4>2. offsets[Path] \in Place /\ offsets[Path].inode = src.inode
        BY <1>1, <4>1 DEF Resumes
      <4>3. o = offsets[Path]
        <5>1. PICK x : x = offsets[Path]
          OBVIOUS
        <5>2. x \in Place /\ x.inode = src.inode /\ x.offset = start /\ o.gen = x.gen
              /\ o = [inode |-> src.inode, offset |-> start, gen |-> x.gen]
          BY <4>1, <4>2, <5>1
        <5> HIDE DEF o
        <5>3. o = x
          BY ONLY <5>2 DEF Place
        <5> QED
          BY <5>1, <5>3
      <4>4. offsets' = [offsets EXCEPT ![Path] = o] /\ src' = Onward
        BY <4>1 DEF KeepOffset
      <4> HIDE DEF o
      <4>5. offsets' = offsets
        BY <1>1, <4>3, <4>4
      <4>6. src'.pc \in {"idle", "stat"}
        BY <4>4, TurnFacts DEF Basics
      <4>7. \A p \in PathSet : Frontier(p)' = Frontier(p)
        BY <1>1, <4>5, <4>6 DEF Frontier
      <4>8. Known'
        BY <1>1, <4>5 DEF Known, OnceOK
      <4> QED
        BY <1>1, <4>6, <4>7, <4>8, LoopSends, AwayOnce DEF FrontierStays
    <3> QED
      BY <3>2, <3>3
  <2>5. CASE ~(start >= size)
    <3>1. src' = [src EXCEPT !.pc = "read", !.start = start, !.size = size] /\ offsets' = offsets
      BY <1>2, <1>5, <2>5
    <3>2. src'.pc = "read" /\ src'.start = start /\ src'.inode = src.inode /\ src'.todo = src.todo
      BY <1>1, <3>1 DEF Turn
    <3>3. \A p \in PathSet : Frontier(p)' = Frontier(p)
      BY <1>1, <3>1, <3>2 DEF Frontier
    <3>4. Once' /\ Behind'
      BY <3>3, LoopSends, NoneSent DEF FrontierStays, OnceOK
    <3>5. Path' = Path
      BY <3>2 DEF Path
    <3>6. Same' => Same
      BY <1>1, <3>1, <3>5 DEF Same
    <3>7. TurnOnce'
      BY <1>1, <1>3, <2>3, <3>1, <3>2, <3>5, <3>6 DEF TurnOnce
    <3>8. Known'
      BY <1>1, <3>1 DEF Known, OnceOK
    <3> QED
      BY <3>4, <3>7, <3>8 DEF OnceOK
  <2> QED
    BY <2>4, <2>5
<1> QED
  BY <1>4, <1>5

-----------------------------------------------------------------------------
(* What is read was not sent: it lies ahead.                                *)
LEMMA ReadOnce ==
  ASSUME Basics, Unique, OnePath, OnceOK, [Next]_vars, Read, ~excused'
  PROVE  OnceOK'
<1>1. src.pc = "read" /\ Path \in PathSet /\ src \in Turn /\ UNCHANGED <<contents, file, stored>>
      /\ src.inode \in Nat /\ src.start \in Nat
  BY TurnFacts DEF Read, Basics, Rest
<1>2. src.inode # 0 /\ (Same => src.start = offsets[Path].offset)
  BY <1>1 DEF OnceOK, TurnOnce
<1>3. CASE file[Path] = Absent
  <2>1. src' = Idle /\ offsets' = offsets
    BY <1>3 DEF Read, Failed
  <2>2. src'.pc = "idle"
    BY <2>1 DEF Idle
  <2>3. \A p \in PathSet : Frontier(p)' = Frontier(p)
    BY <1>1, <2>1, <2>2 DEF Frontier
  <2>4. Known'
    BY <1>1, <2>1 DEF Known, OnceOK
  <2> QED
    BY <1>1, <2>2, <2>3, <2>4, LoopSends, AwayOnce DEF FrontierStays
<1>4. CASE file[Path] # Absent
  <2>1. PICK lines, F, gen :
           /\ gen = IF src.start = 0 \/ offsets[Path].gen = file[Path].gen
                    THEN file[Path].gen ELSE Mixed
           /\ LinesIn(lines, CellsAt(Path), src.start, F) /\ Size(lines) = F[Len(lines)]
           /\ Size(lines) \in Nat /\ lines \in Seq(Seq(Cell))
           /\ excused' = (excused \/ gen = Mixed \/ src.inode # file[Path].inode)
           /\ IF lines = <<>> THEN KeepOffset(src.start, gen)
              ELSE /\ src' = [src EXCEPT !.pc = "append", !.lines = lines,
                                         !.next = [inode |-> src.inode,
                                                   offset |-> src.start + Size(lines), gen |-> gen]]
                   /\ UNCHANGED offsets
    BY <1>4, ReadIs, LoopFacts
  <2>2. gen # Mixed /\ src.inode = file[Path].inode
    BY <2>1
  <2>3. gen = file[Path].gen
    BY <2>1, <2>2
  <2>4. CASE lines = <<>>
    <3>1. KeepOffset(src.start, gen)
      BY <2>1, <2>4
    <3> QED
      BY <1>1, <1>2, <1>4, <2>2, <2>3, <3>1, KeepOnce
  <2>5. CASE lines # <<>>
    <3>1. PICK o : o = [inode |-> src.inode, offset |-> src.start + Size(lines), gen |-> gen]
      OBVIOUS
    <3>2. src' = [src EXCEPT !.pc = "append", !.lines = lines, !.next = o] /\ offsets' = offsets
      BY <2>1, <2>5, <3>1
    <3>3. src'.pc = "append" /\ src'.lines = lines /\ src'.next = o /\ src'.todo = src.todo
      BY <1>1, <3>2 DEF Turn
    <3>4. \A p \in PathSet : Frontier(p)' = Frontier(p)
      BY <1>1, <3>2, <3>3 DEF Frontier
    <3>5. Once' /\ Behind' /\ \A c : Has(c)' => Has(c)
      BY <3>4, LoopSends, NoneSent DEF FrontierStays, OnceOK
    <3>6. Path' = Path
      BY <3>3 DEF Path
    <3>7. ASSUME NEW k \in 1..Len(lines), NEW c \in Chars(lines[k]) PROVE ~Has(c)
      <4>1. SUFFICES ASSUME Has(c) PROVE FALSE
        OBVIOUS
      <4>2. PICK cells, first : cells = CellsAt(Path) /\ first = src.start
        OBVIOUS
      <4>3. /\ cells \in Seq(Cell) /\ gen \in DOMAIN contents /\ cells = contents[gen].cells
            /\ first \in Nat /\ LinesIn(lines, cells, first, F)
        BY <1>1, <1>4, <2>1, <2>3, <4>2, FileFacts, LoopFacts
      <4>4. Between(c, cells, first + F[k - 1], first + F[k])
        BY ONLY <3>7, <4>3, CharInFile
      <4>5. PICK j \in 1..Len(cells) : c # NL /\ cells[j] = c /\ first + F[k - 1] < j
        BY <4>4 DEF Between
      <4>6. PICK g \in DOMAIN contents :
              \E i \in 1..Len(contents[g].cells) : contents[g].cells[i] = c /\ Past(g, i)
        BY <4>1 DEF OnceOK, Behind
      <4>7. PICK i \in 1..Len(contents[g].cells) : contents[g].cells[i] = c /\ Past(g, i)
        BY <4>6
      <4>8. g = gen /\ i = j
        <5>1. j \in 1..Len(contents[gen].cells) /\ contents[gen].cells[j] = c
          BY <4>3, <4>5
        <5> QED
          BY ONLY <4>3, <4>5, <4>7, <5>1, Unique DEF Unique
      <4>9. Frontier(Path).gen = gen /\ Frontier(Path).offset >= j
        BY <1>1, <1>4, <2>3, <4>7, <4>8 DEF Past
      <4>10. Frontier(Path) = offsets[Path]
        BY <1>1 DEF Frontier
      <4>11. Same
        BY <1>4, <2>3, <4>9, <4>10 DEF Same
      <4>12. first >= j
        BY <1>2, <4>2, <4>9, <4>10, <4>11
      <4>13. F[k - 1] \in Nat
        <5>1. /\ Len(lines) \in Nat /\ \A n \in 0..Len(lines) : F[n] \in Nat
          BY ONLY <4>3, LinesInFacts
        <5>2. k - 1 \in 0..Len(lines)
          BY ONLY <5>1, k \in 1..Len(lines)
        <5> QED
          BY ONLY <5>1, <5>2
      <4>14. PICK u : u = F[k - 1]
        OBVIOUS
      <4>15. u \in Nat /\ first + u < j /\ first \in Nat /\ j \in Nat /\ first >= j
        BY <4>3, <4>5, <4>12, <4>13, <4>14
      <4> QED
        BY ONLY <4>15
    <3>8. ASSUME NEW p \in PathSet, file[p] # Absent, file[p].gen = gen PROVE p = Path
      BY <1>1, <1>4, <2>3, <3>8 DEF OnePath
    <3>9. o.gen # Mixed /\ o.inode = contents[o.gen].inode
      BY <1>1, <1>4, <2>2, <2>3, <3>1 DEF OnePath
    <3>10. Same' => o.gen = file[Path].gen /\ o.offset >= offsets[Path].offset
      <4>1. o.gen = gen /\ o.offset = src.start + Size(lines)
        BY <3>1
      <4>2. Same' => Same
        BY <1>1, <3>2, <3>6 DEF Same
      <4>3. src.start + Size(lines) >= src.start
        BY <1>1, <2>1
      <4> QED
        BY <1>2, <2>3, <4>1, <4>2, <4>3
    <3>11. TurnOnce'
      <4>1. \A k \in 1..Len(src'.lines) : \A c \in Chars(src'.lines[k]) : ~Has(c)'
        BY <3>3, <3>5, <3>7
      <4>2. \A p \in PathSet : file'[p] # Absent /\ file'[p].gen = src'.next.gen => p = Path'
        BY <1>1, <3>1, <3>3, <3>6, <3>8
      <4>3. src'.next.gen # Mixed /\ src'.next.inode = contents'[src'.next.gen].inode
        BY <1>1, <3>3, <3>9
      <4>4. Same' => src'.next.gen = file'[Path'].gen /\ src'.next.offset >= offsets'[Path'].offset
        BY <1>1, <3>2, <3>3, <3>6, <3>10
      <4> QED
        BY <3>3, <4>1, <4>2, <4>3, <4>4 DEF TurnOnce
    <3>12. Known'
      BY <1>1, <3>2 DEF Known, OnceOK
    <3> QED
      BY <3>5, <3>11, <3>12 DEF OnceOK
  <2> QED
    BY <2>4, <2>5
<1> QED
  BY <1>3, <1>4

-----------------------------------------------------------------------------
(* On to the wait or the store: the frontier moves to the offset to come.   *)
LEMMA TurnMoves ==
  ASSUME Basics, OnceOK, src.pc \in {"append", "wait"}, src' \in Turn, src'.pc
           \in {"wait", "store"},
         src'.todo = src.todo, src'.next = src.next, UNCHANGED <<contents, file, offsets, stored>>
  PROVE  FrontierStays /\ TurnOnce' /\ Known' /\ Path' = Path /\ FilesStay
<1>1. Path' = Path /\ Path \in PathSet
  <2>1. Path \in PathSet
    BY TurnFacts DEF Basics
  <2> QED
    BY <2>1 DEF Path
<1>2. /\ src.next.gen # Mixed /\ src.next.inode = contents[src.next.gen].inode
      /\ Same => src.next.gen = file[Path].gen /\ src.next.offset >= offsets[Path].offset
  BY DEF OnceOK, TurnOnce
<1>3. Same' => Same
  BY <1>1 DEF Same
<1>4. TurnOnce'
  BY <1>1, <1>2, <1>3 DEF TurnOnce
<1>5. Known'
  BY DEF Known, OnceOK
<1>6. offsets \in [PathSet -> Place] /\ src.next \in Place /\ Path \in PathSet
  BY <1>1, LoopFacts, TurnFacts DEF Basics
<1>7. FrontierStays
  <2>1. ASSUME NEW p \in PathSet, NEW g \in DOMAIN contents, NEW i \in 1..Len(contents[g].cells),
               file[p] # Absent, file[p].gen = g, Frontier(p).gen = g, Frontier(p).offset >= i
        PROVE  Frontier(p)'.gen = g /\ Frontier(p)'.offset >= i
    <3>1. CASE p # Path
      <4>1. Frontier(p)' = Frontier(p)
        BY <1>1, <3>1 DEF Frontier
      <4> QED
        BY <2>1, <4>1
    <3>2. CASE p = Path
      <4>1. Frontier(p)' = src.next
        BY <1>1, <3>2 DEF Frontier
      <4>2. CASE src.pc = "wait"
        BY <2>1, <3>2, <4>1, <4>2 DEF Frontier
      <4>3. CASE src.pc = "append"
        <5>1. Frontier(p) = offsets[Path]
          BY <3>2, <4>3 DEF Frontier
        <5>2. Same
          BY <2>1, <3>2, <5>1 DEF Same
        <5>3. PICK x, y : x = src.next.offset /\ y = offsets[Path].offset
          OBVIOUS
        <5>4. x \in Nat /\ y \in Nat /\ x >= y /\ y >= i /\ i \in Nat
          BY <1>2, <1>6, <2>1, <5>1, <5>2, <5>3 DEF Place
        <5>5. x >= i
          BY ONLY <5>4
        <5> QED
          BY <1>2, <2>1, <3>2, <4>1, <5>2, <5>3, <5>5
      <4> QED
        BY <4>2, <4>3
    <3> QED
      BY <3>1, <3>2
  <2> QED
    BY <2>1 DEF FrontierStays
<1> QED
  BY <1>1, <1>4, <1>5, <1>7 DEF FilesStay

(* A call that returned well moves nothing.                                 *)
LEMMA AppendedOnce ==
  ASSUME Basics, OnceOK, [Next]_vars, Appended, ~excused'
  PROVE  OnceOK'
<1>1. /\ src.pc = "wait" /\ src \in Turn /\ UNCHANGED <<contents, file, offsets, stored>>
      /\ src' = [src EXCEPT !.pc = "store"]
  BY TurnFacts DEF Appended, Basics, Rest
<1>2. src'.pc = "store" /\ src'.todo = src.todo /\ src'.next = src.next /\ src' \in Turn
  BY <1>1 DEF Turn
<1>3. FrontierStays /\ TurnOnce' /\ Known'
  BY <1>1, <1>2, TurnMoves
<1>4. Once' /\ Behind'
  BY <1>3, LoopSends, NoneSent DEF OnceOK
<1> QED
  BY <1>3, <1>4 DEF OnceOK

(* The frontier becomes the offset.                                         *)
LEMMA StoreOnce ==
  ASSUME Basics, OnceOK, [Next]_vars, Store(FALSE)
  PROVE  OnceOK'
<1>1. PICK p, o : p = Path /\ o = src.next
  OBVIOUS
<1>2. /\ src.pc = "store" /\ p \in PathSet /\ src' = Onward /\ UNCHANGED <<contents, file>>
      /\ offsets' = [offsets EXCEPT ![p] = o] /\ stored' = [stored EXCEPT ![p] = o]
      /\ offsets \in [PathSet -> Place] /\ stored \in [PathSet -> Place] /\ o \in Place
  BY <1>1, TurnFacts, LoopFacts DEF Store, Basics, Rest
<1>3. src'.pc \in {"idle", "stat"}
  BY <1>2, TurnFacts DEF Basics
<1>4. /\ offsets'[p] = o /\ stored'[p] = o
      /\ \A q \in PathSet : q # p => offsets'[q] = offsets[q] /\ stored'[q] = stored[q]
  BY <1>2
<1>5. \A q \in PathSet : Frontier(q)' = Frontier(q)
  BY <1>1, <1>2, <1>3, <1>4 DEF Frontier
<1>6. Known'
  <2>1. o.inode = contents[o.gen].inode
    BY <1>1, <1>2 DEF OnceOK, TurnOnce
  <2> QED
    BY <1>2, <1>4, <2>1 DEF Known, OnceOK
<1> QED
  BY <1>2, <1>3, <1>5, <1>6, LoopSends, AwayOnce DEF FrontierStays

-----------------------------------------------------------------------------
(* A message that a batch put at a place behind what the shard had.         *)
NewAt(shards, s, k, c) ==
  \E m \in 1..Len(Batch) : c \in Chars(Batch[m].cells) /\ Placed(Batch, shards, s, k, m)

(* A message a shard has now is one it had or one the batch put there.      *)
LEMMA HoldsNow ==
  ASSUME EngineOK, NEW shards, Sends(Batch, shards), NEW s \in Shards, NEW k, NEW c, Holds(s, k, c)'
  PROVE  k \in 1..Len(Sent(s)') /\ (Holds(s, k, c) \/ NewAt(shards, s, k, c))
<1>1. k \in 1..Len(Sent(s)') /\ c \in Chars(Sent(s)'[k].cells)
  BY DEF Holds
<1>2. PICK msgs : msgs = Batch
  OBVIOUS
<1>3. Sends(msgs, shards)
  BY <1>2
<1>4. \/ k \in 1..Len(Sent(s)) /\ Sent(s)'[k] = Sent(s)[k]
      \/ k > Len(Sent(s)) /\ \E m \in 1..Len(msgs) :
           Sent(s)'[k] = msgs[m] /\ shards[m] = s
             /\ m = Nth(Mine(msgs, shards, s), k - Len(Sent(s)))
  BY ONLY EngineOK, <1>1, <1>3, s \in Shards, SendsNew
<1>5. CASE k \in 1..Len(Sent(s)) /\ Sent(s)'[k] = Sent(s)[k]
  <2>1. Holds(s, k, c)
    BY ONLY <1>1, <1>5 DEF Holds
  <2> QED
    BY <1>1, <2>1
<1>6. CASE k > Len(Sent(s)) /\ \E m \in 1..Len(msgs) :
             Sent(s)'[k] = msgs[m] /\ shards[m] = s
               /\ m = Nth(Mine(msgs, shards, s), k - Len(Sent(s)))
  <2>1. PICK m \in 1..Len(msgs) :
             Sent(s)'[k] = msgs[m] /\ shards[m] = s
               /\ m = Nth(Mine(msgs, shards, s), k - Len(Sent(s)))
    BY ONLY <1>6
  <2>2. c \in Chars(msgs[m].cells)
    BY ONLY <1>1, <2>1
  <2>3. NewAt(shards, s, k, c)
    <3>1. Placed(msgs, shards, s, k, m)
      BY ONLY <1>6, <2>1 DEF Placed
    <3> QED
      BY ONLY <1>2, <2>2, <3>1 DEF NewAt
  <2> QED
    BY <1>1, <2>3
<1> QED
  BY <1>4, <1>5, <1>6

(* The batch of lines that were not sent.                                   *)
LEMMA BatchOnce ==
  ASSUME Basics, Covers, Turned, Unique, OnceOK, [Next]_vars, AppendLines,
         NEW shards, Sends(Batch, shards), src' = [src EXCEPT !.pc = "wait"]
  PROVE  OnceOK'
<1>1. /\ src.pc = "append" /\ src \in Turn /\ UNCHANGED <<contents, file, offsets, stored>>
      /\ EngineOK /\ Path \in PathSet
  BY AppendIs, TurnFacts, LoopFacts DEF Basics
<1>2. src'.pc = "wait" /\ src'.todo = src.todo /\ src'.next = src.next /\ src' \in Turn
  BY <1>1 DEF Turn
<1>3. FrontierStays /\ TurnOnce' /\ Known' /\ Path' = Path /\ FilesStay
  BY <1>1, <1>2, TurnMoves
<1>4. src.next.gen # Mixed
  BY <1>1 DEF OnceOK, TurnOnce
<1>5. ASSUME NEW s \in Shards, NEW k, NEW c, NewAt(shards, s, k, c) PROVE ~Has(c)
  <2>1. PICK m \in 1..Len(Batch) : c \in Chars(Batch[m].cells)
    BY <1>5 DEF NewAt
  <2>2. \E j \in 1..Len(src.lines) : c \in Chars(src.lines[j])
    BY <1>4, <2>1, BatchBehind
  <2> QED
    BY <1>1, <2>2 DEF OnceOK, TurnOnce
<1>6. ASSUME NEW s \in Shards, NEW k, NEW c, Holds(s, k, c) PROVE Has(c)
  BY <1>6 DEF Has, Holds
<1>7. Once'
  <2>1. ASSUME NEW s \in Shards, NEW t \in Shards, NEW k \in 1..Len(Sent(s)'), NEW l
                 \in 1..Len(Sent(t)'),
               NEW c, Holds(s, k, c)', Holds(t, l, c)'
        PROVE  s = t /\ k = l
    <3>1. /\ Holds(s, k, c) \/ NewAt(shards, s, k, c)
          /\ Holds(t, l, c) \/ NewAt(shards, t, l, c)
      BY <1>1, <2>1, HoldsNow
    <3>2. CASE Holds(s, k, c) /\ Holds(t, l, c)
      <4>1. k \in 1..Len(Sent(s)) /\ l \in 1..Len(Sent(t))
        BY <3>2 DEF Holds
      <4> QED
        BY <3>2, <4>1 DEF OnceOK, Once
    <3>3. CASE NewAt(shards, s, k, c) /\ NewAt(shards, t, l, c)
      <4>1. PICK m \in 1..Len(Batch) : c \in Chars(Batch[m].cells) /\ Placed(Batch, shards, s, k, m)
        BY <3>3 DEF NewAt
      <4>2. PICK n \in 1..Len(Batch) : c \in Chars(Batch[n].cells) /\ Placed(Batch, shards, t, l, n)
        BY <3>3 DEF NewAt
      <4>3. m = n
        BY <1>4, <4>1, <4>2, BatchApart
      <4>4. Placed(Batch, shards, s, k, m) /\ Placed(Batch, shards, t, l, m)
        BY <4>1, <4>2, <4>3
      <4> QED
        BY <1>1, <4>4, SendsPlace
    <3>4. CASE NewAt(shards, s, k, c) /\ Holds(t, l, c)
      BY <1>5, <1>6, <3>4
    <3>5. CASE Holds(s, k, c) /\ NewAt(shards, t, l, c)
      BY <1>5, <1>6, <3>5
    <3> QED
      BY <3>1, <3>2, <3>3, <3>4, <3>5
  <2> QED
    BY <2>1 DEF Once
<1>8. ASSUME NEW c, Has(c)'
      PROVE  \E g \in DOMAIN contents' : \E i \in 1..Len(contents'[g].cells) :
               contents'[g].cells[i] = c /\ Past(g, i)'
  <2>0. PICK s \in Shards : \E k : Holds(s, k, c)'
    BY <1>8 DEF Has
  <2>1. PICK k : Holds(s, k, c)'
    BY <2>0
  <2>2. Holds(s, k, c) \/ NewAt(shards, s, k, c)
    BY <1>1, <2>1, HoldsNow
  <2>3. CASE Holds(s, k, c)
    <3>1. \E g \in DOMAIN contents : \E i \in 1..Len(contents[g].cells) :
            contents[g].cells[i] = c /\ Past(g, i)
      BY <1>6, <2>3 DEF OnceOK, Behind
    <3>2. Longer(contents, contents')
      BY <1>1, ContentsLonger DEF Basics
    <3> QED
      BY <1>3, <3>1, <3>2, BehindKeeps DEF OnceOK
  <2>4. CASE NewAt(shards, s, k, c)
    <3>1. PICK m \in 1..Len(Batch) : c \in Chars(Batch[m].cells)
      BY <2>4 DEF NewAt
    <3>2. PICK g : g = src.next.gen
      OBVIOUS
    <3>3. g \in DOMAIN contents
          /\ \E i \in 1..Len(contents[g].cells) : contents[g].cells[i] = c /\ i <= src.next.offset
      BY <1>4, <3>1, <3>2, BatchBehind
    <3>4. PICK i \in 1..Len(contents[g].cells) : contents[g].cells[i] = c /\ i <= src.next.offset
      BY <3>3
    <3>5. ASSUME NEW p \in PathSet, file'[p] # Absent, file'[p].gen = g
          PROVE  Frontier(p)'.gen = g /\ Frontier(p)'.offset >= i
      <4>1. p = Path
        BY <1>1, <3>2, <3>5 DEF OnceOK, TurnOnce
      <4>2. Frontier(p)' = src.next
        BY <1>2, <1>3, <4>1 DEF Frontier
      <4>3. src.next.offset \in Nat
        BY <1>1, TurnFacts DEF Basics, Place
      <4> QED
        BY <3>2, <3>4, <4>2, <4>3
    <3>6. Past(g, i)'
      BY <3>5 DEF Past
    <3> QED
      BY <1>1, <3>3, <3>4, <3>6
  <2> QED
    BY <2>2, <2>3, <2>4
<1> QED
  BY <1>3, <1>7, <1>8 DEF OnceOK, Behind

(* The batch's characters were not sent before, and lie behind the frontier *)
(* that moves over them.                                                    *)
LEMMA AppendOnce ==
  ASSUME Basics, Covers, Turned, Unique, OnceOK, [Next]_vars, AppendLines
  PROVE  OnceOK'
<1>1. /\ src.pc = "append" /\ src \in Turn /\ UNCHANGED <<contents, file, offsets, stored>>
      /\ Longer(contents, contents')
  BY AppendIs, TurnFacts, ContentsLonger DEF Basics
<1>2. CASE src' = Idle /\ UNCHANGED engineVars
  <2>1. src'.pc = "idle" /\ \A s \in Shards : Sent(s)' = Sent(s)
    BY <1>2 DEF Idle, engineVars, Sent
  <2>2. \A p \in PathSet : Frontier(p)' = Frontier(p)
    BY <1>1, <2>1 DEF Frontier
  <2>3. Known'
    BY <1>1 DEF Known, OnceOK
  <2> QED
    BY <1>1, <2>1, <2>2, <2>3, AwayOnce DEF FrontierStays
<1>3. CASE src' = [src EXCEPT !.pc = "store"] /\ UNCHANGED engineVars
  <2>1. src'.pc = "store" /\ src'.todo = src.todo /\ src'.next = src.next /\ src' \in Turn
    BY <1>1, <1>3 DEF Turn
  <2>2. FrontierStays /\ TurnOnce' /\ Known' /\ FilesStay
    BY <1>1, <2>1, TurnMoves
  <2>3. \A s \in Shards : Sent(s)' = Sent(s)
    BY <1>3 DEF engineVars, Sent
  <2>4. Once' /\ Behind'
    BY <1>1, <2>2, <2>3, NoneSent DEF OnceOK
  <2> QED
    BY <2>2, <2>4 DEF OnceOK
<1>4. CASE src' = [src EXCEPT !.pc = "wait"] /\ \E shards : Sends(Batch, shards)
  BY <1>4, BatchOnce
<1> QED
  BY <1>2, <1>3, <1>4, AppendIs

-----------------------------------------------------------------------------
(* No step excuses less.                                                    *)
LEMMA ExcusedStays ==
  ASSUME [Next]_vars, excused
  PROVE  excused'
BY NextIs DEF WorldStep, WriteChar, EndLine, Rotate, Create, Truncate, Unlink, Pressure, Renew,
  Others,
   Poll, Stat, FileSize, Read, AppendLines, Appended, Store, EngineStep, Crash, Boot, vars,
     historyVars

(* The characters and the paths, over every step.                           *)
LEMMA CharsStep ==
  ASSUME Basics, Unique, Numbered, OnePath, [Next]_vars
  PROVE  Unique' /\ Numbered' /\ OnePath'
<1>1. FilesOK /\ used \in [cells : Nat, changes : Nat, mishaps : Nat, pressure : Nat]
      /\ used.cells \in Nat
  BY LoopFacts
<1>2. CASE WorldStep
  <2>1. OnePath'
    BY <1>1, <1>2, WorldOnePath
  <2>2. /\ used.cells \in Nat /\ used'.cells \in Nat /\ used.cells <= used'.cells
        /\ \E c \in Cell : Adds(c) /\ (c = NL \/ (c = used.cells + 1 /\ used'.cells = c))
    BY ONLY <1>1, <1>2, WorldAdds
  <2>3. PICK c \in Cell : Adds(c) /\ (c = NL \/ (c = used.cells + 1 /\ used'.cells = c))
    BY <2>2
  <2>4. Unique' /\ Numbered'
    BY ONLY Unique, Numbered, <2>2, <2>3, AddsUnique
  <2> QED
    BY <2>1, <2>4
<1>3. CASE ~WorldStep
  <2>1. UNCHANGED <<contents, file>>
    BY <1>3, NextIs DEF Poll, Stat, FileSize, Read, AppendLines, Appended, Store, EngineStep, Crash,
       Boot, Rest, vars, sourceVars
  <2>2. used'.cells = used.cells
    <3>1. used' = used \/ Use("mishaps")
      BY <1>3, NextIs DEF Poll, Stat, FileSize, Read, AppendLines, Appended, Store, EngineStep,
        Crash,
         Boot, vars, historyVars
    <3> QED
      BY <1>1, <3>1 DEF Use
  <2> QED
    BY <2>1, <2>2 DEF Unique, Numbered, OnePath
<1> QED
  BY <1>2, <1>3

(* Every step keeps the third layer.                                        *)
LEMMA OnceStep ==
  ASSUME Basics, Covers, Turned, OnceInv, [Next]_vars
  PROVE  OnceInv'
<1>1. Unique' /\ Numbered' /\ OnePath'
  BY CharsStep DEF OnceInv
<1>2. SUFFICES ASSUME ~excused' PROVE OnceOK'
  BY <1>1 DEF OnceInv
<1>3. OnceOK /\ Unique /\ OnePath
  BY <1>2, ExcusedStays DEF OnceInv
<1>4. Basics'
  BY BasicsStep
<1>5. CASE WorldStep
  <2>1. FilesOK /\ used.cells \in Nat
    BY LoopFacts
  <2>2. Grown
    BY <1>5, <2>1, WorldGrows
  <2>3. Longer(contents, contents')
    BY <2>1, <2>2, ContentsLonger
  <2>4. FilesStay
    <3>1. contents \in Seq(Generation)
      BY <2>1 DEF FilesOK
    <3>2. Len(contents) + 1 \notin DOMAIN contents
      BY <3>1
    <3> QED
      BY <2>2, <3>2 DEF Grown, FilesStay
  <2>5. UNCHANGED <<src, offsets, stored>> /\ \A s \in Shards : Sent(s)' = Sent(s)
    BY <2>2 DEF Grown, engineVars, Sent
  <2> QED
    BY <1>3, <1>4, <2>3, <2>4, <2>5, StillOnce
<1>6. CASE EngineStep \/ Boot \/ UNCHANGED vars
  <2>1. UNCHANGED <<src, offsets, stored, contents, file>>
    BY <1>6 DEF EngineStep, Boot, vars, sourceVars
  <2>2. ~AppendLines /\ ~Crash
    <3>1. Crash => excused'
      BY DEF Crash
    <3>2. ~AppendLines
      <4>1. ASSUME AppendLines PROVE FALSE
        <5>1. src.pc = "append" /\ src \in Turn
          BY <4>1, AppendIs, TurnFacts DEF Basics
        <5>2. src'.pc \in {"idle", "store", "wait"}
          BY <4>1, <5>1, AppendIs DEF Idle, Turn
        <5> QED
          BY <2>1, <5>1, <5>2
      <4> QED
        BY <4>1
    <3> QED
      BY <1>2, <3>1, <3>2
  <2>3. \A s \in Shards : Sent(s)' = Sent(s)
    BY <2>2, SentStep
  <2>4. Longer(contents, contents') /\ FilesStay
    BY <2>1, ContentsLonger DEF Basics, FilesStay
  <2> QED
    BY <1>3, <1>4, <2>1, <2>3, <2>4, StillOnce
<1>7. CASE Poll \/ Stat \/ FileSize \/ Read \/ AppendLines \/ Appended
  BY <1>2, <1>3, <1>7, PollOnce, StatOnce, SizeOnce, ReadOnce, AppendOnce, AppendedOnce
<1>8. ASSUME NEW fails \in BOOLEAN, Store(fails) PROVE OnceOK'
  <2>1. fails = FALSE
    BY <1>2, <1>8 DEF Store
  <2> QED
    BY <1>3, <1>8, <2>1, StoreOnce
<1>9. ~Crash
  BY <1>2 DEF Crash
<1> QED
  BY <1>5, <1>6, <1>7, <1>8, <1>9, NextIs

(* At first nothing is written and nothing sent.                            *)
LEMMA InitOnce ==
  ASSUME Init
  PROVE  OnceInv
<1>1. /\ contents = [i \in DOMAIN Paths |-> [inode |-> Min(Inodes) + i - 1, cells |-> <<>>]]
      /\ file = [p \in PathSet |->
               LET i == CHOOSE i \in DOMAIN Paths : Paths[i] = p
               IN  [inode |-> Min(Inodes) + i - 1, gen |-> i]]
      /\ offsets = [p \in PathSet |-> Nowhere] /\ stored = [p \in PathSet |-> Nowhere]
      /\ src.pc = "idle"
  BY DEF Init, Idle
<1>2. \A g \in DOMAIN contents : Len(contents[g].cells) = 0
  BY <1>1
<1>3. Unique /\ Numbered
  BY <1>2 DEF Unique, Numbered
<1>4. Paths \in Seq(PathSet) /\ DOMAIN Paths = 1..Len(Paths) /\ Len(Paths) \in Nat
  BY Given
<1>5. Min(Inodes) \in Nat \ {0}
  <2>1. \E x \in Inodes : \A y \in Inodes : x <= y
    BY Given, Least
  <2>2. Min(Inodes) \in Inodes
    BY <2>1 DEF Min
  <2> QED
    BY <2>2, Given
<1>6. ASSUME NEW p \in PathSet
      PROVE  \E i \in DOMAIN Paths : Paths[i] = p
             /\ file[p] = [inode |-> Min(Inodes) + i - 1, gen |-> i]
  <2>1. \E i \in DOMAIN Paths : Paths[i] = p
    <3>1. p \in ToSet(Paths)
      BY DEF PathSet
    <3> QED
      BY <3>1 DEF ToSet
  <2>2. PICK i : i = CHOOSE x \in DOMAIN Paths : Paths[x] = p
    OBVIOUS
  <2>3. i \in DOMAIN Paths /\ Paths[i] = p
    BY <2>1, <2>2
  <2>4. file[p] = [inode |-> Min(Inodes) + i - 1, gen |-> i]
    BY <1>1, <2>2
  <2> QED
    BY <2>3, <2>4
<1>7. OnePath
  <2>1. ASSUME NEW p \in PathSet
        PROVE  /\ file[p].gen \in DOMAIN Paths /\ Paths[file[p].gen] = p
               /\ file[p].inode # 0 /\ file[p].inode = contents[file[p].gen].inode
    <3>1. PICK i \in DOMAIN Paths : Paths[i] = p
               /\ file[p] = [inode |-> Min(Inodes) + i - 1, gen |-> i]
      BY <1>6
    <3>2. PICK x : x = Min(Inodes)
      OBVIOUS
    <3>3. x + i - 1 # 0
      <4>1. x \in Nat \ {0} /\ i \in Nat \ {0}
        BY <1>4, <1>5, <3>2
      <4> QED
        BY ONLY <4>1
    <3>4. file[p].gen = i /\ file[p].inode = x + i - 1
      BY <3>1, <3>2
    <3>5. contents[i].inode = x + i - 1
      BY <1>1, <3>2
    <3> QED
      BY <3>1, <3>3, <3>4, <3>5
  <2> QED
    BY <2>1 DEF OnePath
<1>8. \A s \in Shards : Len(Sent(s)) = 0
  <2>1. ASSUME NEW s \in Shards PROVE Len(Sent(s)) = 0
    <3>1. log[s] = <<>> /\ queue[s] = <<>> /\ inbox[s] = <<>>
      BY DEF Init, EngineInit
    <3>2. Sent(s) = (<<>> \o <<>>) \o <<>>
      BY <3>1 DEF Sent
    <3>3. <<>> \in Seq(Msg) /\ Len(<<>>) = 0
      OBVIOUS
    <3>4. (<<>> \o <<>>) \o <<>> = <<>>
      BY <3>3, ConcatEmptySeq
    <3> QED
      BY <3>2, <3>3, <3>4
  <2> QED
    BY <2>1
<1>9. \A c : ~Has(c)
  BY <1>8 DEF Has
<1>10. Once
  BY <1>8 DEF Once
<1>11. Known
  <2>1. 0 \notin DOMAIN contents
    BY <1>1, <1>4
  <2> QED
    BY <1>1, <2>1 DEF Known, Nowhere
<1>12. Behind /\ TurnOnce
  BY <1>1, <1>9 DEF Behind, TurnOnce
<1> QED
  BY <1>3, <1>7, <1>10, <1>11, <1>12 DEF OnceInv, OnceOK

-----------------------------------------------------------------------------
(* The places of a character, as Copies counts them.                        *)
LEMMA CopiesOnce ==
  ASSUME Basics, Once, NEW c
  PROVE  Copies(c) <= 1
<1> DEFINE at(s) == {i \in DOMAIN (log[s] \o queue[s]) : c \in Chars((log[s] \o queue[s])[i].cells)}
           all == UNION {{s} \X at(s) : s \in Shards}
<1>1. ASSUME NEW s \in Shards, NEW i \in at(s) PROVE Holds(s, i, c) /\ i \in 1..Len(Sent(s))
  <2>1. PICK a, b : a = log[s] \o queue[s] /\ b = IF inbox[s] = <<>> THEN <<>> ELSE inbox[s][1].msgs
    OBVIOUS
  <2>2. a \in Seq(Msg) /\ b \in Seq(Msg)
    <3>1. <<>> \in Seq(Msg)
      OBVIOUS
    <3>2. log[s] \in Seq(Msg) /\ queue[s] \in Seq(Msg)
      BY SentType DEF Basics
    <3>3. a \in Seq(Msg)
      BY <2>1, <3>2, ConcatProperties
    <3> QED
      BY <2>1, <3>1, <3>3, SentType DEF Basics
  <2>3. i \in DOMAIN a /\ c \in Chars(a[i].cells)
    BY <1>1, <2>1
  <2>4. Sent(s) = a \o b
    BY <2>1 DEF Sent
  <2>5. i \in 1..Len(a \o b) /\ (a \o b)[i] = a[i]
    BY ONLY <2>2, <2>3
  <2> QED
    BY <2>3, <2>4, <2>5 DEF Holds
<1>2. \A x, y \in all : x = y
  <2>1. ASSUME NEW s \in Shards, NEW t \in Shards, NEW i \in at(s), NEW j \in at(t)
        PROVE  s = t /\ i = j
    BY <1>1 DEF Once
  <2> HIDE DEF at
  <2>2. ASSUME NEW x \in all PROVE \E s \in Shards : \E i \in at(s) : x = <<s, i>>
    <3>1. PICK s \in Shards : x \in {s} \X at(s)
      OBVIOUS
    <3>2. x[2] \in at(s) /\ x = <<s, x[2]>>
      BY <3>1
    <3> QED
      BY <3>2
  <2> HIDE DEF all
  <2>3. ASSUME NEW x \in all, NEW y \in all PROVE x = y
    <3>1. PICK s \in Shards : \E i \in at(s) : x = <<s, i>>
      BY <2>2
    <3>2. PICK t \in Shards : \E j \in at(t) : y = <<t, j>>
      BY <2>2
    <3> QED
      BY <2>1, <3>1, <3>2
  <2> QED
    BY <2>3
<1>3. Copies(c) = Cardinality(all)
  BY DEF Copies
<1> HIDE DEF all
<1>4. Cardinality(all) <= 1
  <2>1. CASE all = {}
    BY <2>1, FS_EmptySet
  <2>2. CASE all # {}
    <3>1. PICK x : x \in all
      BY <2>2
    <3>2. all = {x}
      BY <1>2, <3>1
    <3> QED
      BY <3>2, FS_Singleton
  <2> QED
    BY <2>1, <2>2
<1> QED
  BY <1>3, <1>4

(* Nothing is collected twice as long as no append or store failed, the     *)
(* process lived and no file was swapped between the look at its inode and  *)
(* the read: the loop never reads below the offset it had reached           *)
(* (agent_support.cc:1146-1161).                                            *)
THEOREM OnceHolds == Spec => []OnceUnlessExcused
<1> DEFINE Inv == Basics /\ Covers /\ Turned /\ OnceInv
<1>1. Init => Inv
  BY InitBasics, InitCovers, InitWhole, InitOnce
<1>2. Inv /\ [Next]_vars => Inv'
  BY BasicsStep, CoversStep, TurnedStep, OnceStep
<1>3. Inv => OnceUnlessExcused
  <2>1. ASSUME Inv, ~excused, NEW c \in 1..MaxCells PROVE Copies(c) <= 1
    <3>1. Basics /\ Once
      BY <2>1 DEF OnceInv, OnceOK
    <3> QED
      BY <3>1, CopiesOnce
  <2> QED
    BY <2>1 DEF OnceUnlessExcused
<1> QED
  BY <1>1, <1>2, <1>3, PTL DEF Spec

=============================================================================
