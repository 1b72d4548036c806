--------------------------- MODULE BootLoaderProofs ---------------------------
(***************************************************************************)
(* The boot loader finds its code, its stack, bootloader_data and the      *)
(* kernel under the tables it switches to, relocates all of the kernel,    *)
(* and leaves it a memory map that accounts for RAM: for every machine,    *)
(* every kernel file and any bound on what the firmware does meanwhile.    *)
(* The kernel that starts from there, of which KernelMemoryProofs tells,   *)
(* writes what is its own, and its tables give each frame of RAM one       *)
(* address.                                                                *)
(***************************************************************************)
EXTENDS Boot, LeastNatural, SequenceTheorems

-----------------------------------------------------------------------------
(***************************************************************************)
(* Operators.                                                              *)
(***************************************************************************)
\* Min and Max of a finite set of naturals are its elements.
LEMMA MinProperties ==
    ASSUME NEW S \in SUBSET Nat, S # {}
    PROVE  Min(S) \in S /\ \A n \in S : Min(S) <= n
<1>1. \E m \in S : \A n \in S : m <= n
  BY LeastElement
<1> QED BY <1>1 DEF Min

\* Max likewise.
LEMMA MaxProperties ==
    ASSUME NEW S \in SUBSET Nat, S # {}, IsFiniteSet(S)
    PROVE  Max(S) \in S /\ \A n \in S : n <= Max(S)
<1>1. \E m \in S : \A n \in S : n <= m
  BY GreatestElement
<1>2. PICK m \in S : \A n \in S : m >= n
  BY <1>1
<1>3. Max(S) \in S /\ \A n \in S : Max(S) >= n
  BY <1>2 DEF Max
<1> QED BY <1>3

\* Ascending lists each element once, in order.
LEMMA AscendingProperties ==
    ASSUME NEW S \in SUBSET Nat, IsFiniteSet(S)
    PROVE  /\ Cardinality(S) \in Nat
           /\ Ascending(S) \in [1 .. Cardinality(S) -> S]
           /\ \A i, j \in 1 .. Cardinality(S) :
                 i < j => Ascending(S)[i] < Ascending(S)[j]
           /\ \A x \in S : \E i \in 1 .. Cardinality(S) : Ascending(S)[i] = x
<1> DEFINE rank(x) == Cardinality({y \in S : y < x})
           r == [x \in S |-> rank(x) + 1]
           n == Cardinality(S)
           A == Ascending(S)
<1>1. /\ n \in Nat
      /\ r \in [S -> 1 .. n]
      /\ \A x, z \in S : x < z => r[x] < r[z]
      /\ \A i \in 1 .. n : \E x \in S : r[x] = i
  BY RankIsBijection
<1>2. \A x \in S : r[x] = rank(x) + 1
  BY Zenon
<1>3. A = [i \in 1 .. n |-> CHOOSE x \in S : rank(x) = i - 1]
  BY Zenon DEF Ascending
<1>3a. \A x \in S : rank(x) \in Nat
  <2> TAKE x \in S
  <2>1. {y \in S : y < x} \in SUBSET S
    OBVIOUS
  <2> QED BY <2>1, FS_Subset, FS_CardinalityType
<1> HIDE DEF rank, r, n, A
<1>4. \A i \in 1 .. n : \E x \in S : rank(x) = i - 1
  <2> TAKE i \in 1 .. n
  <2>1. PICK x \in S : r[x] = i
    BY <1>1
  <2>2. rank(x) = i - 1
    BY <1>1, <1>2, <1>3a, <2>1
  <2> QED BY <2>2
<1>5. \A i \in 1 .. n : A[i] \in S /\ rank(A[i]) = i - 1
  <2> TAKE i \in 1 .. n
  <2>1. A[i] = CHOOSE x \in S : rank(x) = i - 1
    BY <1>3
  <2> QED BY <1>4, <2>1, Zenon
<1>6. \A i \in 1 .. n : r[A[i]] = i
  <2> TAKE i \in 1 .. n
  <2>1. A[i] \in S /\ rank(A[i]) = i - 1
    BY <1>5
  <2>2. r[A[i]] = rank(A[i]) + 1
    BY <1>2, <2>1
  <2> QED BY <2>1, <2>2
<1>7. A \in [1 .. n -> S]
  BY <1>3, <1>5
<1>8. \A i, j \in 1 .. n : i < j => A[i] < A[j]
  <2> SUFFICES ASSUME NEW i \in 1 .. n, NEW j \in 1 .. n, i < j, ~(A[i] < A[j])
               PROVE FALSE
    OBVIOUS
  <2>1. A[i] \in S /\ A[j] \in S /\ A[i] \in Nat /\ A[j] \in Nat
    BY <1>5
  <2>2. A[i] = A[j] \/ A[j] < A[i]
    BY <2>1
  <2>3. r[A[i]] = i /\ r[A[j]] = j /\ i \in Nat /\ j \in Nat
    BY <1>6
  <2>4. A[j] < A[i] => r[A[j]] < r[A[i]]
    BY <1>1, <2>1
  <2> QED BY <2>2, <2>3, <2>4
<1>9. \A x \in S : \E i \in 1 .. n : A[i] = x
  <2> TAKE x \in S
  <2>1. r[x] \in 1 .. n
    BY <1>1
  <2> DEFINE z == A[r[x]]
  <2>2. z \in S /\ r[z] = r[x]
    BY <1>5, <1>6, <2>1
  <2>3. z \in Nat /\ x \in Nat
    BY <2>2
  <2>4. r[z] \in Nat /\ r[x] \in Nat
    BY <1>1, <2>1, <2>2
  <2> HIDE DEF z
  <2>5. ~(z < x) /\ ~(x < z)
    BY <1>1, <2>2, <2>4
  <2>6. z = x
    BY <2>3, <2>5
  <2> QED BY <2>1, <2>6 DEF z
<1> QED BY <1>1, <1>7, <1>8, <1>9 DEF n, A
-----------------------------------------------------------------------------
(***************************************************************************)
(* The map of the firmware: every frame is in one entry.                   *)
(***************************************************************************)
\* The frames an entry holds.
Holds(d) == d.PhysicalStart .. d.PhysicalStart + d.NumberOfPages - 1

\* GetMemoryMap of the frames m with the I/O areas io.
StretchEntry(m, f) ==
    [Type |-> m[f].Type, PhysicalStart |-> f, VirtualStart |-> 0,
     NumberOfPages |-> Cardinality(Stretch(m, f)), runtime |-> m[f].runtime]
Stretches(m) == Cardinality(Starts(m))
MapOf(m, io) ==
    [i \in 1 .. Stretches(m) |-> StretchEntry(m, Ascending(Starts(m))[i])] \o io

\* A stretch is an interval.
LEMMA StretchInterval ==
    ASSUME NEW m, DOMAIN m \subseteq Nat, IsFiniteSet(DOMAIN m), NEW f \in DOMAIN m
    PROVE  \E e \in DOMAIN m :
              f <= e /\ Stretch(m, f) = f .. e /\ Cardinality(Stretch(m, f)) = e - f + 1
<1> DEFINE T == Stretch(m, f)
<1>1. T \in SUBSET (DOMAIN m) /\ T \in SUBSET Nat /\ IsFiniteSet(T)
  <2>1. T \in SUBSET (DOMAIN m)
    BY DEF Stretch
  <2> QED BY <2>1, FS_Subset
<1>2. f \in T
  <2>1. f \in Nat /\ \A h \in f .. f : h = f
    OBVIOUS
  <2> QED BY <2>1 DEF Stretch
<1>3. PICK e \in T : \A g \in T : g <= e
  <2> HIDE DEF T
  <2> QED BY <1>1, <1>2, GreatestElement
<1>4. f <= e /\ e \in Nat /\ f \in Nat /\ \A h \in f .. e : h \in DOMAIN m /\ m[h] = m[f]
  BY <1>1, <1>3 DEF Stretch
<1>5. T = f .. e
  <2>1. ASSUME NEW g \in T PROVE g \in f .. e
    BY <1>1, <1>3, <1>4, <2>1 DEF Stretch
  <2>2. ASSUME NEW g \in f .. e PROVE g \in T
    <3>1. g \in DOMAIN m /\ f <= g
      BY <1>4
    <3>2. \A h \in f .. g : h \in f .. e
      BY <1>4
    <3> QED BY <1>4, <3>1, <3>2 DEF Stretch
  <2> QED BY <2>1, <2>2
<1>6. Cardinality(f .. e) = e - f + 1
  BY <1>4, FS_Interval
<1> QED BY <1>1, <1>4, <1>5, <1>6

\* Every frame is in the stretch of a start, and in that of no other.
LEMMA StretchesPartition ==
    ASSUME NEW m, DOMAIN m \subseteq Nat, IsFiniteSet(DOMAIN m)
    PROVE  /\ \A f \in DOMAIN m : \E s \in Starts(m) : f \in Stretch(m, s)
           /\ \A s, t \in Starts(m) : s < t => Stretch(m, s) \cap Stretch(m, t) = {}
<1>1. ASSUME NEW f \in DOMAIN m PROVE \E s \in Starts(m) : f \in Stretch(m, s)
  <2> DEFINE B == {g \in 0 .. f : \A h \in g .. f : h \in DOMAIN m /\ m[h] = m[f]}
  <2>1. f \in Nat /\ B \in SUBSET Nat /\ f \in B
    <3>1. f \in Nat /\ \A h \in f .. f : h = f
      OBVIOUS
    <3> QED BY <3>1
  <2>2. PICK s \in B : \A g \in B : s <= g
    <3> HIDE DEF B
    <3> QED BY <2>1, LeastElement
  <2>3. s \in Nat /\ s <= f /\ s \in DOMAIN m /\ m[s] = m[f]
        /\ \A h \in s .. f : h \in DOMAIN m /\ m[h] = m[f]
    BY <2>1
  <2>4. f \in Stretch(m, s)
    BY <2>3 DEF Stretch
  <2>5. ASSUME s - 1 \in DOMAIN m, m[s - 1] = m[s] PROVE FALSE
    <3>1. s - 1 \in Nat /\ s - 1 \in 0 .. f
      BY <2>1, <2>3, <2>5
    <3>2. \A h \in s - 1 .. f : h = s - 1 \/ h \in s .. f
      BY <2>1, <2>3
    <3>3. s - 1 \in B
      BY <2>3, <2>5, <3>1, <3>2
    <3> HIDE DEF B
    <3>4. s <= s - 1
      BY <2>2, <3>3
    <3> QED BY <2>3, <3>4
  <2>6. s \in Starts(m)
    BY <2>3, <2>5 DEF Starts
  <2> QED BY <2>4, <2>6
<1>2. ASSUME NEW s \in Starts(m), NEW t \in Starts(m), s < t,
             NEW f \in Stretch(m, s) \cap Stretch(m, t)
      PROVE  FALSE
  <2>1. s \in DOMAIN m /\ t \in DOMAIN m /\ s \in Nat /\ t \in Nat /\ f \in Nat
    BY DEF Starts, Stretch
  <2>2. t <= f /\ \A h \in s .. f : h \in DOMAIN m /\ m[h] = m[s]
    BY DEF Stretch
  <2>3. t \in s .. f /\ t - 1 \in s .. f
    BY <1>2, <2>1, <2>2
  <2>4. t - 1 \in DOMAIN m /\ m[t - 1] = m[t]
    BY <2>2, <2>3
  <2> QED BY <2>4 DEF Starts
<1> QED BY <1>1, <1>2

\* G is the map of the frames m, n stretches of them, and the areas io.
MapOfIs(m, io, n, G) ==
    /\ n \in Nat /\ Len(G) = n + Len(io) /\ G \in Seq(Descriptor)
    /\ \A j \in 1 .. n :
          /\ G[j].NumberOfPages > 0 /\ G[j].VirtualStart = 0
          /\ \A f \in Holds(G[j]) : /\ f \in DOMAIN m
                                    /\ m[f].Type = G[j].Type
                                    /\ m[f].runtime = G[j].runtime
    /\ \A f \in DOMAIN m : \E j \in 1 .. n : f \in Holds(G[j])
    /\ \A i, j \in 1 .. n : i < j =>
          /\ G[i].PhysicalStart < G[j].PhysicalStart
          /\ Holds(G[i]) \cap Holds(G[j]) = {}
    /\ \A j \in 1 .. Len(io) : G[n + j] = io[j]

\* What GetMemoryMap returns is that.
LEMMA MapOfProperties ==
    ASSUME NEW m, NEW io, NEW n, NEW G, n = Stretches(m), G = MapOf(m, io),
           DOMAIN m \subseteq Nat, IsFiniteSet(DOMAIN m), m \in [DOMAIN m -> Region],
           io \in Seq(Descriptor)
    PROVE  MapOfIs(m, io, n, G)
<1> DEFINE S == Starts(m)
           A == Ascending(S)
           R == [i \in 1 .. n |-> StretchEntry(m, A[i])]
<1>1. S \in SUBSET Nat /\ IsFiniteSet(S) /\ S \subseteq DOMAIN m
  <2>1. S \in SUBSET (DOMAIN m)
    BY DEF Starts
  <2> QED BY <2>1, FS_Subset
<1>2. /\ n \in Nat
      /\ A \in [1 .. n -> S]
      /\ \A i, j \in 1 .. n : i < j => A[i] < A[j]
      /\ \A x \in S : \E i \in 1 .. n : A[i] = x
  BY <1>1, AscendingProperties DEF Stretches
<1>3. \A s \in S : /\ StretchEntry(m, s) \in Descriptor
                   /\ StretchEntry(m, s).NumberOfPages > 0
                   /\ Holds(StretchEntry(m, s)) = Stretch(m, s)
  <2> TAKE s \in S
  <2>1. PICK e \in DOMAIN m : s <= e /\ Stretch(m, s) = s .. e
                              /\ Cardinality(Stretch(m, s)) = e - s + 1
    BY <1>1, StretchInterval
  <2>2. s \in Nat /\ e \in Nat /\ m[s] \in Region
    BY <1>1
  <2>3. Holds(StretchEntry(m, s)) = s .. s + (e - s + 1) - 1
    BY <2>1 DEF Holds, StretchEntry
  <2>4. s + (e - s + 1) - 1 = e /\ e - s + 1 \in Nat /\ e - s + 1 > 0
    BY <2>1, <2>2
  <2>5. m[s].Type \in MemoryType /\ m[s].runtime \in BOOLEAN
    BY <2>2 DEF Region
  <2>6. StretchEntry(m, s) \in Descriptor
    BY <2>1, <2>2, <2>4, <2>5 DEF StretchEntry, Descriptor
  <2> QED BY <2>1, <2>3, <2>4, <2>6 DEF StretchEntry
<1> HIDE DEF S, A
<1>4. R \in Seq(Descriptor) /\ Len(R) = n /\ \A j \in 1 .. n : R[j] = StretchEntry(m, A[j])
  <2>1. \A j \in 1 .. n : StretchEntry(m, A[j]) \in Descriptor
    BY <1>2, <1>3
  <2>2. R \in [1 .. n -> Descriptor]
    BY <2>1
  <2>3. R \in Seq(Descriptor) /\ Len(R) = n
    BY <1>2, <2>2
  <2> QED BY <2>3
<1>5. G = R \o io
  BY DEF MapOf, A, S
<1> HIDE DEF R
<1>6. /\ G \in Seq(Descriptor) /\ Len(G) = n + Len(io)
      /\ \A j \in 1 .. n : G[j] = StretchEntry(m, A[j])
      /\ \A j \in 1 .. Len(io) : G[n + j] = io[j]
  <2>1. G \in Seq(Descriptor) /\ Len(G) = Len(R) + Len(io)
        /\ \A j \in 1 .. Len(R) + Len(io) :
              G[j] = IF j <= Len(R) THEN R[j] ELSE io[j - Len(R)]
    <3>1. R \in Seq(Descriptor)
      BY <1>4
    <3>2. /\ R \o io \in Seq(Descriptor) /\ Len(R \o io) = Len(R) + Len(io)
          /\ \A j \in 1 .. Len(R) + Len(io) :
                (R \o io)[j] = IF j <= Len(R) THEN R[j] ELSE io[j - Len(R)]
      BY <3>1, ConcatProperties
    <3> QED BY <1>5, <3>2
  <2>2. \A j \in 1 .. n : G[j] = StretchEntry(m, A[j])
    BY <1>2, <1>4, <2>1
  <2>3. ASSUME NEW j \in 1 .. Len(io) PROVE G[n + j] = io[j]
    <3>1. Len(io) \in Nat /\ n + j \in 1 .. Len(R) + Len(io) /\ ~(n + j <= Len(R)) /\ (n + j) - n = j
      BY <1>2, <1>4
    <3> QED BY <1>4, <2>1, <3>1
  <2> QED BY <1>4, <2>1, <2>2, <2>3
<1>7. \A j \in 1 .. n : /\ G[j].NumberOfPages > 0 /\ G[j].VirtualStart = 0
                        /\ Holds(G[j]) = Stretch(m, A[j]) /\ G[j].PhysicalStart = A[j]
                        /\ G[j].Type = m[A[j]].Type /\ G[j].runtime = m[A[j]].runtime
  <2> TAKE j \in 1 .. n
  <2>1. A[j] \in S /\ G[j] = StretchEntry(m, A[j])
    BY <1>2, <1>6
  <2>2. G[j].NumberOfPages > 0 /\ Holds(G[j]) = Stretch(m, A[j])
    BY <1>3, <2>1
  <2> QED BY <2>1, <2>2 DEF StretchEntry
<1>8. ASSUME NEW j \in 1 .. n, NEW f \in Holds(G[j])
      PROVE  f \in DOMAIN m /\ m[f].Type = G[j].Type /\ m[f].runtime = G[j].runtime
  <2>1. f \in Stretch(m, A[j]) /\ A[j] \in Nat
    BY <1>1, <1>2, <1>7
  <2>2. f \in DOMAIN m /\ f \in A[j] .. f /\ \A h \in A[j] .. f : m[h] = m[A[j]]
    BY <2>1 DEF Stretch
  <2> QED BY <1>7, <2>2
<1>9. ASSUME NEW f \in DOMAIN m PROVE \E j \in 1 .. n : f \in Holds(G[j])
  <2>1. PICK s \in S : f \in Stretch(m, s)
    BY StretchesPartition DEF S
  <2>2. PICK j \in 1 .. n : A[j] = s
    BY <1>2
  <2> QED BY <1>7, <2>1, <2>2
<1>10. ASSUME NEW i \in 1 .. n, NEW j \in 1 .. n, i < j
       PROVE  G[i].PhysicalStart < G[j].PhysicalStart /\ Holds(G[i]) \cap Holds(G[j]) = {}
  <2>1. A[i] \in S /\ A[j] \in S /\ A[i] < A[j]
    BY <1>2, <1>10
  <2>2. Stretch(m, A[i]) \cap Stretch(m, A[j]) = {}
    BY <2>1, StretchesPartition DEF S
  <2> QED BY <1>7, <2>1, <2>2
<1>11. \A j \in 1 .. n :
          /\ G[j].NumberOfPages > 0 /\ G[j].VirtualStart = 0
          /\ \A f \in Holds(G[j]) : /\ f \in DOMAIN m
                                    /\ m[f].Type = G[j].Type
                                    /\ m[f].runtime = G[j].runtime
  BY <1>7, <1>8
<1>12. \A i, j \in 1 .. n : i < j =>
          /\ G[i].PhysicalStart < G[j].PhysicalStart
          /\ Holds(G[i]) \cap Holds(G[j]) = {}
  BY <1>10
<1>13. n \in Nat /\ Len(G) = n + Len(io) /\ G \in Seq(Descriptor)
  BY <1>2, <1>6
<1>14. \A f \in DOMAIN m : \E j \in 1 .. n : f \in Holds(G[j])
  BY <1>9
<1>15. \A j \in 1 .. Len(io) : G[n + j] = io[j]
  BY <1>6
<1> QED BY <1>11, <1>12, <1>13, <1>14, <1>15 DEF MapOfIs
-----------------------------------------------------------------------------
(***************************************************************************)
(* What AllocatePages finds.                                               *)
(***************************************************************************)
\* A place for n pages is free.
LEMMA PlacesFree ==
    ASSUME NEW m, DOMAIN m \subseteq Nat, IsFiniteSet(DOMAIN m), NEW n, NEW f \in Places(m, n)
    PROVE  f \in Free(m) /\ f \in Nat /\ f .. f + n - 1 \subseteq Free(m)
<1> DEFINE C == {g \in Free(m) : g .. g + n - 1 \subseteq Free(m)}
<1>1. C \in SUBSET (DOMAIN m)
  BY DEF Free
<1>2. C \in SUBSET Nat /\ IsFiniteSet(C)
  <2> HIDE DEF C
  <2> QED BY <1>1, FS_Subset
<1>3. f \in Ends(C)
  BY DEF Places
<1>4. f \in C
  <2> HIDE DEF C
  <2>1. C # {} /\ (f = Min(C) \/ f = Max(C))
    BY <1>3, Zenon DEF Ends
  <2> QED BY <1>2, <2>1, MinProperties, MaxProperties
<1> QED BY <1>2, <1>4

\* Single pages are taken from the free ones.
LEMMA SinglePagesFree ==
    ASSUME NEW m, DOMAIN m \subseteq Nat, IsFiniteSet(DOMAIN m), NEW n \in Nat,
           NEW T \in SinglePages(m, n)
    PROVE  T \subseteq Free(m)
<1> DEFINE C == Free(m)
           F == Ascending(C)
           k == Cardinality(C)
<1>1. C \in SUBSET (DOMAIN m)
  BY DEF Free
<1>2. C \in SUBSET Nat /\ IsFiniteSet(C)
  <2> HIDE DEF C
  <2> QED BY <1>1, FS_Subset
<1>3. k \in Nat /\ F \in [1 .. k -> C]
  <2> HIDE DEF C
  <2> QED BY <1>2, AscendingProperties
<1> HIDE DEF F, k
<1>4. Len(F) = k /\ DOMAIN F = 1 .. k
  <2>1. F \in Seq(C)
    BY <1>3
  <2> QED BY <1>3, <2>1
<1>5. ~(n > k) /\ T \in {{F[i] : i \in 1 .. n}, {F[i] : i \in k - n + 1 .. k}}
  <2>1. T \in IF n > Len(F) THEN {}
              ELSE {{F[i] : i \in 1 .. n}, {F[i] : i \in Len(F) - n + 1 .. Len(F)}}
    BY Zenon DEF SinglePages, F
  <2> QED BY <1>4, <2>1
<1>6. \A i \in 1 .. n : i \in 1 .. k
  BY <1>3, <1>5
<1>7. \A i \in k - n + 1 .. k : i \in 1 .. k
  BY <1>3, <1>5
<1>8. \A i \in 1 .. k : F[i] \in C
  BY <1>3
<1> QED BY <1>5, <1>6, <1>7, <1>8
-----------------------------------------------------------------------------
(***************************************************************************)
(* The pages of the boot page tables.                                      *)
(***************************************************************************)
\* BootRanges, of the variables it depends on.
RangesOf(map, d, f, n, h, base) ==
    [i \in DOMAIN map |-> IdentityRange(map[i])]
    \o <<PageRange(d, base + d, 1, TRUE), PageRange(f, base + f, n, TRUE)>>
    \o [i \in DOMAIN h |-> KernelRange(h[i])]

\* Ranges of pages.
Run == [ppage : Int, vpage : Int, n : Int, rw : BOOLEAN]

\* A segment has a number of pages, and at least one if it has a byte.
LEMMA SegmentPages ==
    ASSUME NEW o \in 0 .. PAGE_SIZE - 1, NEW size \in Nat
    PROVE  NUM_PAGES(o, size) \in Nat /\ (size > 0 => NUM_PAGES(o, size) > 0)
<1>1. \A x \in Int : x >= -1 => x \div PAGE_SIZE >= -1 /\ x \div PAGE_SIZE \in Int
  BY PagingAssumption
<1>2. \A x \in Int : x >= 0 => x \div PAGE_SIZE >= 0
  BY PagingAssumption
<1>3. o + size - 1 \in Int /\ o + size - 1 >= -1 /\ (size > 0 => o + size - 1 >= 0)
  BY PagingAssumption
<1> QED BY <1>1, <1>2, <1>3 DEF NUM_PAGES

\* The ranges are made of pages.
LEMMA RunTypes ==
    /\ \A d \in Descriptor : IdentityRange(d) \in Run
    /\ \A h \in Phdr : KernelRange(h) \in Run
    /\ \A a \in Int, v \in Int, n \in Int, w \in BOOLEAN : PageRange(a, v, n, w) \in Run
<1>1. ASSUME NEW a \in Int, NEW v \in Int, NEW n \in Int, NEW w \in BOOLEAN
      PROVE  PageRange(a, v, n, w) \in Run
  BY DEF PageRange, Run
<1>2. ASSUME NEW d \in Descriptor PROVE IdentityRange(d) \in Run
  <2>1. d.PhysicalStart \in Int /\ (IF IsLoader(d) THEN d.NumberOfPages ELSE 0) \in Int
    BY DEF Descriptor
  <2>2. (d.Type = "EfiLoaderData") \in BOOLEAN
    OBVIOUS
  <2> QED BY <1>1, <2>1, <2>2 DEF IdentityRange
<1>3. ASSUME NEW h \in Phdr PROVE KernelRange(h) \in Run
  <2>1. h.offset \in 0 .. PAGE_SIZE - 1 /\ h.p_memsz \in Nat /\ h.ppage \in Int
        /\ h.vpage \in Int /\ h.writable \in BOOLEAN
    BY DEF Phdr
  <2>2. NUM_PAGES(h.offset, h.p_memsz) \in Int
    BY <2>1, SegmentPages
  <2>3. (IF h.p_type = "PT_LOAD" THEN NUM_PAGES(h.offset, h.p_memsz) ELSE 0) \in Int
    BY <2>2
  <2> QED BY <1>1, <2>1, <2>3 DEF KernelRange
<1> QED BY <1>1, <1>2, <1>3

\* A sequence in three parts, the middle one of two elements.
LEMMA ThreeParts ==
    ASSUME NEW T, NEW A \in Seq(T), NEW x \in T, NEW y \in T, NEW C \in Seq(T),
           NEW Q, Q = A \o <<x, y>> \o C
    PROVE  /\ Q \in Seq(T) /\ Len(Q) = Len(A) + 2 + Len(C)
           /\ \A i \in 1 .. Len(A) : Q[i] = A[i]
           /\ Q[Len(A) + 1] = x /\ Q[Len(A) + 2] = y
           /\ \A i \in 1 .. Len(C) : Q[Len(A) + 2 + i] = C[i]
<1> DEFINE B == <<x, y>>
           k == Len(A)
           c == Len(C)
           AB == A \o B
           R == AB \o C
<1>1. B \in Seq(T) /\ Len(B) = 2 /\ B[1] = x /\ B[2] = y
  OBVIOUS
<1>2. k \in Nat /\ c \in Nat
  OBVIOUS
<1> HIDE DEF B
<1>3. /\ AB \in Seq(T) /\ Len(AB) = Len(A) + Len(B)
      /\ \A i \in 1 .. Len(A) + Len(B) : AB[i] = IF i <= Len(A) THEN A[i] ELSE B[i - Len(A)]
  <2> HIDE DEF k, c, R
  <2> QED BY <1>1, ConcatProperties
<1> HIDE DEF AB
<1>4. /\ R \in Seq(T) /\ Len(R) = Len(AB) + Len(C)
      /\ \A i \in 1 .. Len(AB) + Len(C) : R[i] = IF i <= Len(AB) THEN AB[i] ELSE C[i - Len(AB)]
  <2>1. AB \in Seq(T)
    BY <1>3
  <2> HIDE DEF k, c
  <2>2. /\ AB \o C \in Seq(T) /\ Len(AB \o C) = Len(AB) + Len(C)
        /\ \A i \in 1 .. Len(AB) + Len(C) :
              (AB \o C)[i] = IF i <= Len(AB) THEN AB[i] ELSE C[i - Len(AB)]
    BY <2>1, ConcatProperties
  <2> QED BY <2>2
<1> HIDE DEF R, k, c
<1>4a. Len(AB) = k + 2 /\ Len(R) = k + 2 + c
  BY <1>1, <1>3, <1>4 DEF k, c
<1>5. \A i \in 1 .. k + 2 : AB[i] = IF i <= k THEN A[i] ELSE B[i - k]
  BY <1>1, <1>3 DEF k
<1>6. \A i \in 1 .. k + 2 + c : R[i] = IF i <= k + 2 THEN AB[i] ELSE C[i - (k + 2)]
  BY <1>4, <1>4a DEF c
<1>7. \A i \in 1 .. k : R[i] = A[i]
  BY <1>2, <1>5, <1>6
<1>8. R[k + 1] = x /\ R[k + 2] = y
  <2>1. k + 1 \in 1 .. k + 2 + c /\ k + 2 \in 1 .. k + 2 + c
        /\ k + 1 \in 1 .. k + 2 /\ k + 2 \in 1 .. k + 2 /\ k + 1 - k = 1 /\ k + 2 - k = 2
        /\ ~(k + 1 <= k) /\ ~(k + 2 <= k) /\ k + 1 <= k + 2
    BY <1>2
  <2>2. R[k + 1] = AB[k + 1] /\ R[k + 2] = AB[k + 2]
    BY <1>6, <2>1
  <2>3. AB[k + 1] = B[k + 1 - k]
    BY <1>2, <1>5, <2>1
  <2>4. AB[k + 2] = B[k + 2 - k]
    BY <1>2, <1>5, <2>1
  <2> QED BY <1>1, <2>1, <2>2, <2>3, <2>4
<1>9. ASSUME NEW i \in 1 .. c PROVE R[k + 2 + i] = C[i]
  <2>1. k + 2 + i \in 1 .. k + 2 + c /\ ~(k + 2 + i <= k + 2) /\ (k + 2 + i) - (k + 2) = i
    BY <1>2
  <2>2. R[k + 2 + i] = C[(k + 2 + i) - (k + 2)]
    BY <1>6, <2>1
  <2> QED BY <2>1, <2>2
<1> QED BY <1>4, <1>4a, <1>7, <1>8, <1>9 DEF R, AB, B, k, c

\* The ranges one by one.
RangesAre(R, map, d, f, n, h, base) ==
    LET k == Len(map) IN
    /\ R \in Seq(Run) /\ Len(R) = k + 2 + Len(h)
    /\ \A i \in 1 .. k : R[i] = IdentityRange(map[i])
    /\ R[k + 1] = PageRange(d, base + d, 1, TRUE)
    /\ R[k + 2] = PageRange(f, base + f, n, TRUE)
    /\ \A i \in 1 .. Len(h) : R[k + 2 + i] = KernelRange(h[i])

\* They come in the order of the loops.
LEMMA RangesOfProperties ==
    ASSUME NEW map \in Seq(Descriptor), NEW d \in Int, NEW f \in Int, NEW n \in Int,
           NEW h \in Seq(Phdr), NEW base \in Int
    PROVE  RangesAre(RangesOf(map, d, f, n, h, base), map, d, f, n, h, base)
<1> DEFINE A == [i \in DOMAIN map |-> IdentityRange(map[i])]
           x == PageRange(d, base + d, 1, TRUE)
           y == PageRange(f, base + f, n, TRUE)
           C == [i \in DOMAIN h |-> KernelRange(h[i])]
           k == Len(map)
           R == RangesOf(map, d, f, n, h, base)
<1>1. A \in Seq(Run) /\ Len(A) = k /\ \A i \in 1 .. k : A[i] = IdentityRange(map[i])
  <2>1. DOMAIN map = 1 .. k /\ k \in Nat
    OBVIOUS
  <2>2. \A i \in 1 .. k : IdentityRange(map[i]) \in Run
    BY RunTypes
  <2> QED BY <2>1, <2>2
<1>2. x \in Run /\ y \in Run
  <2>1. base + d \in Int /\ base + f \in Int /\ 1 \in Int /\ TRUE \in BOOLEAN
    OBVIOUS
  <2> QED BY <2>1, RunTypes
<1>3. C \in Seq(Run) /\ Len(C) = Len(h) /\ \A i \in 1 .. Len(h) : C[i] = KernelRange(h[i])
  <2>1. DOMAIN h = 1 .. Len(h) /\ Len(h) \in Nat
    OBVIOUS
  <2>2. \A i \in 1 .. Len(h) : KernelRange(h[i]) \in Run
    BY RunTypes
  <2> QED BY <2>1, <2>2
<1>4. R = A \o <<x, y>> \o C
  BY DEF RangesOf
<1> HIDE DEF A, x, y, C, R
<1>5. /\ R \in Seq(Run) /\ Len(R) = Len(A) + 2 + Len(C)
      /\ \A i \in 1 .. Len(A) : R[i] = A[i]
      /\ R[Len(A) + 1] = x /\ R[Len(A) + 2] = y
      /\ \A i \in 1 .. Len(C) : R[Len(A) + 2 + i] = C[i]
  <2>1. A \in Seq(Run) /\ C \in Seq(Run)
    BY <1>1, <1>3
  <2> HIDE DEF k
  <2> QED BY <1>2, <1>4, <2>1, ThreeParts
<1>6. /\ R \in Seq(Run) /\ Len(R) = k + 2 + Len(h)
      /\ \A i \in 1 .. k : R[i] = IdentityRange(map[i])
      /\ R[k + 1] = x /\ R[k + 2] = y
      /\ \A i \in 1 .. Len(h) : R[k + 2 + i] = KernelRange(h[i])
  BY <1>1, <1>3, <1>5
<1>7. RangesAre(R, map, d, f, n, h, base)
  BY <1>6 DEF RangesAre, k, x, y
<1> QED BY <1>7 DEF R

\* Without a remap each page has the translation of its range.
LEMMA TranslatedAsRange ==
    ASSUME NEW R, ~Remap(R), NEW i \in DOMAIN R, NEW v \in Pages(R[i])
    PROVE  /\ v \in DOMAIN Translated(R)
           /\ Translated(R)[v].addr = R[i].ppage + (v - R[i].vpage)
           /\ Translated(R)[v].rw = R[i].rw
<1>1. v \in AllPages(R)
  BY DEF AllPages
<1>2. (CHOOSE j \in DOMAIN R : v \in Pages(R[j])) = i
  <2>1. \A j \in DOMAIN R : v \in Pages(R[j]) => j = i
    BY DEF Remap
  <2> QED BY <2>1, Zenon
<1>3. Translated(R)[v] = [addr |-> R[i].ppage + (v - R[i].vpage), rw |-> R[i].rw]
      /\ v \in DOMAIN Translated(R)
  BY <1>1, <1>2 DEF Translated
<1> QED BY <1>3

\* The pages mapped are finitely many, and so are the tables.
LEMMA TablesNeededType ==
    ASSUME NEW R \in Seq(Run)
    PROVE  IsFiniteSet(AllPages(R)) /\ TablesNeeded(R) \in Nat
<1> DEFINE All == AllPages(R)
           D == DOMAIN R
           family == {Pages(R[i]) : i \in D}
<1>1. IsFiniteSet(D)
  BY FS_Interval
<1>2. IsFiniteSet(family)
  <2> DEFINE g == [i \in D |-> Pages(R[i])]
  <2>1. g \in Surjection(D, family)
    BY DEF Surjection
  <2> HIDE DEF g, D, family
  <2> QED BY <1>1, <2>1, FS_Surjection
<1>3. \A T \in family : IsFiniteSet(T)
  <2> SUFFICES ASSUME NEW i \in D PROVE IsFiniteSet(Pages(R[i]))
    OBVIOUS
  <2>1. R[i] \in Run
    OBVIOUS
  <2>2. R[i].vpage \in Int /\ R[i].n \in Int
    BY <2>1 DEF Run
  <2>3. R[i].vpage + R[i].n - 1 \in Int
    BY <2>2
  <2> QED BY <2>2, <2>3, FS_Interval DEF Pages
<1>4. IsFiniteSet(All)
  <2>1. All = UNION family
    BY DEF AllPages
  <2> HIDE DEF family, All
  <2> QED BY <1>2, <1>3, <2>1, FS_UNION
<1> HIDE DEF All, D, family
<1>5. IsFiniteSet((1 .. 3) \X All)
  <2>1. IsFiniteSet(1 .. 3)
    <3>1. 1 \in Int /\ 3 \in Int
      OBVIOUS
    <3> QED BY <3>1, FS_Interval
  <2> QED BY <1>4, <2>1, FS_Product
<1> DEFINE P == {<<l, Path(v, l)>> : l \in 1 .. 3, v \in All}
           g == [x \in (1 .. 3) \X All |-> <<x[1], Path(x[2], x[1])>>]
<1>6. g \in Surjection((1 .. 3) \X All, P)
  <2>1. \A x \in (1 .. 3) \X All : g[x] \in P
    OBVIOUS
  <2>2. ASSUME NEW y \in P PROVE \E x \in (1 .. 3) \X All : g[x] = y
    <3>1. PICK l \in 1 .. 3, v \in All : y = <<l, Path(v, l)>>
      BY <2>2
    <3>2. <<l, v>> \in (1 .. 3) \X All /\ g[<<l, v>>] = y
      BY <3>1
    <3> QED BY <3>2
  <2>3. g \in [(1 .. 3) \X All -> P]
    BY <2>1
  <2> HIDE DEF g, P
  <2> QED BY <2>2, <2>3 DEF Surjection
<1>7. IsFiniteSet(P)
  <2> HIDE DEF g, P
  <2> QED BY <1>5, <1>6, FS_Surjection
<1>8. Cardinality(P) \in Nat
  BY <1>7, FS_CardinalityType
<1>9. TablesNeeded(R) = 1 + Cardinality(P)
  BY DEF TablesNeeded, All
<1> HIDE DEF P
<1> QED BY <1>4, <1>8, <1>9 DEF All
-----------------------------------------------------------------------------
(***************************************************************************)
(* The memory of the loader: who owns which frame.                         *)
(***************************************************************************)
\* The phases of a boot that has not been given up, from each stage on.
Given == {"exit", "halt", "fault"}
Tables == {"final", "exit_bs", "init_mmap", "merge", "set_virtual", "switch",
           "relocate", "jump", "kernel"}
LoadedOn == {"tables"} \cup Tables
PrelimOn == {"load"} \cup LoadedOn
MemoryOn == {"prelim"} \cup PrelimOn

Loaders == {"EfiLoaderCode", "EfiLoaderData"}

\* Frames that are not free in the machine stay as they are; the others are used
\* by the loader and the firmware.
RamKept(m, r, p) ==
    /\ r \in [DOMAIN m -> Region] /\ p \subseteq DOMAIN m
    /\ \A f \in DOMAIN m :
          IF m[f].Type = "EfiConventionalMemory"
          THEN r[f].Type \in {"EfiBootServicesData"} \cup Loaders
                            \cup (IF f \in p THEN {} ELSE {"EfiConventionalMemory"})
          ELSE r[f] = m[f] /\ f \notin p

\* Frames that AllocatePages gave to the loader: the firmware leaves them alone.
Owned(r, p, F) ==
    \A f \in F : f \in DOMAIN r /\ r[f].Type \in Loaders /\ r[f].runtime = FALSE /\ f \notin p

LoaderPages(s, d, f, n) == {s} \cup d .. d + 1 \cup f .. f + n - 1
BootMemory(r, p, s, d, f, n) ==
    /\ s \in Nat /\ d \in Nat /\ f \in Nat
    /\ Owned(r, p, LoaderPages(s, d, f, n))
    /\ \A g \in LoaderPages(s, d, f, n) : r[g].Type = "EfiLoaderData"
    /\ s \notin d .. d + 1 /\ s \notin f .. f + n - 1
    /\ d .. d + 1 \cap f .. f + n - 1 = {}

\* The frames of a segment, and headers that stem from those of the file.
SegmentFrames(h) == h.ppage .. h.ppage + KernelRange(h).n - 1
Alike(h, g) ==
    /\ h.p_type = g.p_type /\ h.writable = g.writable
    /\ h.vpage = g.vpage + (IF g.p_type = "PT_GNU_STACK" THEN 0 ELSE KERNEL_BASE)
    /\ h.offset = g.offset /\ h.p_memsz = g.p_memsz
Headers(h, g) ==
    h \in Seq(Phdr) /\ Len(h) <= Len(g) /\ \A k \in 1 .. Len(h) : Alike(h[k], g[k])
Segments(r, p, h, L) ==
    \A k \in 1 .. Len(h) :
       /\ Owned(r, p, SegmentFrames(h[k])) /\ SegmentFrames(h[k]) \cap L = {}
       /\ \A j \in 1 .. Len(h) :
             j # k => SegmentFrames(h[j]) \cap SegmentFrames(h[k]) = {}
TablesApart(r, p, T, h, L) ==
    /\ Owned(r, p, T) /\ T \cap L = {}
    /\ \A k \in 1 .. Len(h) : T \cap SegmentFrames(h[k]) = {}

\* The preliminary map is that of frames among which the boot memory is.
Preliminary(map, m, L) ==
    \E r : /\ RamKept(m.ram, r, {})
           /\ \A f \in L :
                 f \in DOMAIN r /\ r[f].Type = "EfiLoaderData" /\ r[f].runtime = FALSE
           /\ map = MapOf(r, m.mmio)

Pages4 == LoaderPages(new_stack, data, free_memory, machine.n_pages)
World == \E s \in Setups : machine = s.machine /\ image = s.image
RamInv == RamKept(machine.ram, ram, pool)
MemoryInv ==
    phase \in MemoryOn => BootMemory(ram, pool, new_stack, data, free_memory, machine.n_pages)
HeadersInv ==
    /\ Headers(phdrs, image.phdrs)
    /\ phase \in LoadedOn =>
          /\ Len(phdrs) = Len(image.phdrs)
          /\ image.phdrs[1].p_type = "PT_LOAD" /\ image.phdrs[1].first
    /\ phase \notin PrelimOn \cup Given => phdrs = << >>
SegmentsInv == phase \in MemoryOn => Segments(ram, pool, phdrs, Pages4)
PrelimInv == phase \in PrelimOn => Preliminary(prelim, machine, Pages4)
TablesInv == phase \in Tables => TablesApart(ram, pool, tables, phdrs, Pages4)

OwnersInv ==
    /\ phase \in {"allocate"} \cup MemoryOn \cup Given
    /\ World /\ RamInv /\ MemoryInv /\ HeadersInv /\ SegmentsInv /\ PrelimInv /\ TablesInv
-----------------------------------------------------------------------------
\* The machine and the image meet the assumption.
LEMMA WorldFacts ==
    ASSUME World
    PROVE  Machine(machine) /\ RoomBelowKernel(machine) /\ Linked(image)
  BY BootLoaderAssumption DEF World

\* The frames are finitely many numbers.
LEMMA RamFacts ==
    ASSUME World, RamInv
    PROVE  /\ DOMAIN ram = DOMAIN machine.ram /\ DOMAIN ram \subseteq Nat
           /\ IsFiniteSet(DOMAIN ram) /\ ram \in [DOMAIN ram -> Region]
           /\ machine.n_pages \in Nat \ {0} /\ machine.mmio \in Seq(Descriptor)
  BY WorldFacts DEF RamInv, RamKept, Machine

\* What is owned is not free.
LEMMA OwnedNotFree ==
    ASSUME NEW r, NEW p, NEW F, Owned(r, p, F)
    PROVE  F \cap Free(r) = {}
  BY DEF Owned, Free, Loaders

\* An allocation for the loader makes it the owner.
LEMMA OwnedNew ==
    ASSUME NEW r, NEW p, NEW G, NEW t,
           r \in [DOMAIN r -> Region], G \subseteq DOMAIN r, t \in Loaders, G \cap p = {}
    PROVE  Owned(Allocate(r, G, t), p, G)
<1>1. t \in MemoryType
  BY DEF Loaders, MemoryType
<1>2. \A f \in G : f \in DOMAIN r /\ f \notin p
  OBVIOUS
<1> DEFINE a == Allocate(r, G, t)
<1>3. /\ DOMAIN a = DOMAIN r
      /\ \A f \in DOMAIN r : f \in G => a[f].Type = t /\ a[f].runtime = FALSE
  <2>1. [Type |-> t, runtime |-> FALSE] \in Region
    BY <1>1 DEF Region
  <2> QED BY <1>1, <2>1 DEF Allocate
<1> HIDE DEF a
<1>4. Owned(a, p, G)
  BY <1>1, <1>2, <1>3 DEF Owned
<1> QED BY <1>4 DEF a

\* What RamKept says after an allocation of free frames.
LEMMA RamKeptAllocate ==
    ASSUME NEW m, NEW r, NEW p, NEW G, NEW t, NEW q,
           RamKept(m, r, p), G \subseteq Free(r), t \in {"EfiBootServicesData"} \cup Loaders,
           q = p \/ q = p \cup G
    PROVE  RamKept(m, Allocate(r, G, t), q)
<1> DEFINE a == Allocate(r, G, t)
<1>1. r \in [DOMAIN r -> Region] /\ DOMAIN r = DOMAIN m /\ t \in MemoryType
  BY DEF RamKept, Loaders, MemoryType
<1>2. /\ DOMAIN a = DOMAIN r /\ a \in [DOMAIN r -> Region]
      /\ \A f \in DOMAIN r : f \in G => a[f].Type = t /\ a[f].runtime = FALSE
      /\ \A f \in DOMAIN r : f \notin G => a[f] = r[f]
  <2>1. [Type |-> t, runtime |-> FALSE] \in Region
    BY <1>1 DEF Region
  <2> QED BY <1>1, <2>1 DEF Allocate
<1> HIDE DEF a
<1>3. q \subseteq DOMAIN m
  BY <1>1 DEF RamKept, Free
<1>4. ASSUME NEW f \in DOMAIN m
      PROVE  IF m[f].Type = "EfiConventionalMemory"
             THEN a[f].Type \in {"EfiBootServicesData"} \cup Loaders
                               \cup (IF f \in q THEN {} ELSE {"EfiConventionalMemory"})
             ELSE a[f] = m[f] /\ f \notin q
  <2>1. CASE f \in G
    <3>1. r[f].Type = "EfiConventionalMemory" /\ f \in DOMAIN r
      BY <2>1 DEF Free
    <3>2. m[f].Type = "EfiConventionalMemory"
      BY <3>1 DEF RamKept
    <3> QED BY <1>1, <1>2, <2>1, <3>2
  <2>2. CASE f \notin G
    <3>1. a[f] = r[f]
      BY <1>1, <1>2, <2>2
    <3> QED BY <2>2, <3>1 DEF RamKept
  <2> QED BY <2>1, <2>2
<1>5. RamKept(m, a, q)
  BY <1>1, <1>2, <1>3, <1>4 DEF RamKept
<1> QED BY <1>5 DEF a

\* Frames that are neither free nor the firmware's own stay as they are.
Kept(r, p, a, q) ==
    \A f \in DOMAIN r :
       r[f].Type # "EfiConventionalMemory" /\ f \notin p =>
          f \in DOMAIN a /\ a[f] = r[f] /\ f \notin q

\* So the loader keeps what it owns.
LEMMA OwnersKept ==
    ASSUME NEW r, NEW p, NEW a, NEW q, Kept(r, p, a, q)
    PROVE  /\ \A F : Owned(r, p, F) => Owned(a, q, F)
           /\ \A s, d, f, n : BootMemory(r, p, s, d, f, n) => BootMemory(a, q, s, d, f, n)
           /\ \A h, L : Segments(r, p, h, L) => Segments(a, q, h, L)
           /\ \A T, h, L : TablesApart(r, p, T, h, L) => TablesApart(a, q, T, h, L)
<1>1. ASSUME NEW F, Owned(r, p, F)
      PROVE  Owned(a, q, F) /\ \A f \in F : a[f] = r[f]
  BY <1>1 DEF Kept, Owned, Loaders
<1>2. ASSUME NEW s, NEW d, NEW f, NEW n, BootMemory(r, p, s, d, f, n)
      PROVE  BootMemory(a, q, s, d, f, n)
  <2> DEFINE L == LoaderPages(s, d, f, n)
  <2>1. Owned(r, p, L) /\ \A g \in L : r[g].Type = "EfiLoaderData"
    BY <1>2 DEF BootMemory
  <2> HIDE DEF L
  <2>2. Owned(a, q, L) /\ \A g \in L : a[g].Type = "EfiLoaderData"
    BY <1>1, <2>1
  <2> QED BY <1>2, <2>2 DEF BootMemory, L
<1>3. ASSUME NEW h, NEW L, Segments(r, p, h, L) PROVE Segments(a, q, h, L)
  BY <1>1, <1>3 DEF Segments
<1>4. ASSUME NEW T, NEW h, NEW L, TablesApart(r, p, T, h, L) PROVE TablesApart(a, q, T, h, L)
  BY <1>1, <1>4 DEF TablesApart
<1> QED BY <1>1, <1>2, <1>3, <1>4

\* An allocation takes free frames only.
LEMMA AllocateKeeps ==
    ASSUME NEW m, NEW r, NEW p, NEW G, NEW t, NEW q,
           RamKept(m, r, p), G \subseteq Free(r), q = p \/ q = p \cup G
    PROVE  Kept(r, p, Allocate(r, G, t), q)
  BY DEF Kept, Allocate, Free, RamKept

\* The firmware takes a free page or releases one of its own.
LEMMA FirmwareKeeps ==
    ASSUME World, RamInv, FirmwareEvent
    PROVE  RamInv' /\ Kept(ram, pool, ram', pool')
<1>1. machine' = machine /\ RamKept(machine.ram, ram, pool)
  BY DEF FirmwareEvent, world, RamInv
<1>2. /\ DOMAIN ram = DOMAIN machine.ram /\ DOMAIN ram \subseteq Nat
      /\ IsFiniteSet(DOMAIN ram) /\ ram \in [DOMAIN ram -> Region]
  BY RamFacts
<1>3. CASE \E f \in Places(ram, 1), t \in {"EfiBootServicesData", "EfiLoaderData"} :
              ram' = Allocate(ram, {f}, t) /\ pool' = pool \cup {f}
  <2>1. PICK f \in Places(ram, 1), t \in {"EfiBootServicesData", "EfiLoaderData"} :
              ram' = Allocate(ram, {f}, t) /\ pool' = pool \cup {f}
    BY <1>3
  <2>2. {f} \subseteq Free(ram)
    BY <1>2, PlacesFree
  <2>3. t \in {"EfiBootServicesData"} \cup Loaders
    BY DEF Loaders
  <2>4. RamKept(machine.ram, ram', pool')
    BY <1>1, <2>1, <2>2, <2>3, RamKeptAllocate
  <2>5. Kept(ram, pool, ram', pool')
    BY <1>1, <2>1, <2>2, AllocateKeeps
  <2> QED BY <1>1, <2>4, <2>5 DEF RamInv
<1>4. CASE \E f \in pool : /\ ram' = Allocate(ram, {f}, "EfiConventionalMemory")
                           /\ pool' = pool \ {f}
  <2>1. PICK f \in pool : /\ ram' = Allocate(ram, {f}, "EfiConventionalMemory")
                          /\ pool' = pool \ {f}
    BY <1>4
  <2>2. [Type |-> "EfiConventionalMemory", runtime |-> FALSE] \in Region
    BY DEF Region, MemoryType
  <2>3. ram' \in [DOMAIN machine.ram -> Region]
    BY <1>2, <2>1, <2>2 DEF Allocate
  <2>4. pool' \subseteq DOMAIN machine.ram /\ f \in DOMAIN machine.ram
    BY <1>1, <2>1 DEF RamKept
  <2>5. \A g \in DOMAIN machine.ram : g # f => ram'[g] = ram[g]
    BY <1>2, <2>1 DEF Allocate
  <2>6. ram'[f].Type = "EfiConventionalMemory"
    BY <1>2, <2>1, <2>4 DEF Allocate
  <2>7. machine.ram[f].Type = "EfiConventionalMemory"
    BY <1>1, <2>1, <2>4 DEF RamKept
  <2>8. ASSUME NEW g \in DOMAIN machine.ram
        PROVE  IF machine.ram[g].Type = "EfiConventionalMemory"
               THEN ram'[g].Type \in {"EfiBootServicesData"} \cup Loaders
                       \cup (IF g \in pool' THEN {} ELSE {"EfiConventionalMemory"})
               ELSE ram'[g] = machine.ram[g] /\ g \notin pool'
    <3>1. CASE g = f
      BY <2>1, <2>6, <2>7, <3>1
    <3>2. CASE g # f
      BY <1>1, <2>1, <2>5, <3>2 DEF RamKept
    <3> QED BY <3>1, <3>2
  <2>9. RamKept(machine.ram, ram', pool')
    BY <2>3, <2>4, <2>8 DEF RamKept
  <2>10. Kept(ram, pool, ram', pool')
    BY <1>2, <2>1, <2>3, <2>5 DEF Kept
  <2> QED BY <1>1, <2>9, <2>10 DEF RamInv
<1> QED BY <1>3, <1>4 DEF FirmwareEvent

\* A step that changes none of these keeps them.
LEMMA OwnersUnchanged ==
    ASSUME OwnersInv, UNCHANGED <<machine, image, ram, pool, memory, prelim, phdrs, tables>>,
           \/ phase' \in Given \/ phase' = phase
           \/ /\ phase \in MemoryOn /\ phase' \in MemoryOn
              /\ phase' \in Tables => phase \in Tables
              /\ phase' \in LoadedOn => phase \in LoadedOn
              /\ phase' \in PrelimOn <=> phase \in PrelimOn
    PROVE  OwnersInv'
<1>1. /\ machine' = machine /\ image' = image /\ ram' = ram /\ pool' = pool
      /\ new_stack' = new_stack /\ data' = data /\ free_memory' = free_memory
      /\ prelim' = prelim /\ phdrs' = phdrs /\ tables' = tables
  BY DEF memory
<1>2. phase' \in {"allocate"} \cup MemoryOn \cup Given /\ Pages4' = Pages4
  BY <1>1 DEF OwnersInv, Pages4
<1>3. World' /\ RamInv'
  BY <1>1 DEF OwnersInv, World, RamInv
<1>4. Given \cap MemoryOn = {} /\ Tables \subseteq LoadedOn /\ LoadedOn \subseteq PrelimOn
      /\ PrelimOn \subseteq MemoryOn
  BY DEF Given, MemoryOn, PrelimOn, LoadedOn, Tables
<1>5. MemoryInv'
  BY <1>1, <1>4 DEF OwnersInv, MemoryInv
<1>6. HeadersInv'
  BY <1>1, <1>4 DEF OwnersInv, HeadersInv
<1>7. SegmentsInv'
  BY <1>1, <1>2, <1>4 DEF OwnersInv, SegmentsInv
<1>8. PrelimInv'
  BY <1>1, <1>2, <1>4 DEF OwnersInv, PrelimInv
<1>9. TablesInv'
  BY <1>1, <1>2, <1>4 DEF OwnersInv, TablesInv
<1> QED BY <1>2, <1>3, <1>5, <1>6, <1>7, <1>8, <1>9 DEF OwnersInv

\* Initially no frame is the loader's.
LEMMA OwnersInit ==
    ASSUME Init
    PROVE  OwnersInv
<1>1. World
  BY DEF Init, World
<1>2. Machine(machine) /\ Linked(image)
  BY <1>1, WorldFacts
<1>3. RamInv
  <2>1. ram \in [DOMAIN machine.ram -> Region] /\ pool \subseteq DOMAIN machine.ram
    BY <1>2 DEF Init, Machine
  <2>2. ASSUME NEW f \in DOMAIN machine.ram
        PROVE  IF machine.ram[f].Type = "EfiConventionalMemory"
               THEN ram[f].Type \in {"EfiBootServicesData"} \cup Loaders
                       \cup (IF f \in pool THEN {} ELSE {"EfiConventionalMemory"})
               ELSE ram[f] = machine.ram[f] /\ f \notin pool
    BY DEF Init
  <2> QED BY <2>1, <2>2 DEF RamInv, RamKept
<1>4. phase = "allocate" /\ phdrs = << >>
  BY DEF Init
<1>5. HeadersInv
  <2>1. Len(image.phdrs) \in Nat
    BY <1>2 DEF Linked, Image
  <2>2. Headers(phdrs, image.phdrs)
    BY <1>4, <2>1 DEF Headers
  <2> QED BY <1>4, <2>2 DEF HeadersInv, LoadedOn, Tables
<1>6. MemoryInv /\ SegmentsInv /\ PrelimInv /\ TablesInv
  BY <1>4 DEF MemoryInv, SegmentsInv, PrelimInv, TablesInv, MemoryOn, PrelimOn, LoadedOn, Tables
<1> QED BY <1>1, <1>3, <1>4, <1>5, <1>6 DEF OwnersInv

\* AllocatePages for the loader.
LEMMA LoaderAllocates ==
    ASSUME NEW m, NEW r, NEW p, NEW G, NEW t, NEW a, a = Allocate(r, G, t),
           RamKept(m, r, p), G \subseteq Free(r), t \in Loaders
    PROVE  /\ RamKept(m, a, p) /\ Owned(a, p, G) /\ Kept(r, p, a, p)
           /\ \A g \in G : a[g].Type = t
<1>1. RamKept(m, a, p)
  BY RamKeptAllocate
<1>2. r \in [DOMAIN r -> Region] /\ G \subseteq DOMAIN r /\ DOMAIN r = DOMAIN m
  BY DEF RamKept, Free
<1>3. G \cap p = {}
  <2> SUFFICES ASSUME NEW f \in G, f \in p PROVE FALSE
    OBVIOUS
  <2>1. f \in DOMAIN m /\ r[f].Type = "EfiConventionalMemory"
    BY <1>2 DEF Free
  <2> QED BY <2>1 DEF RamKept, Loaders
<1>4. Owned(a, p, G)
  BY <1>2, <1>3, OwnedNew
<1>5. Kept(r, p, a, p)
  BY AllocateKeeps
<1> QED BY <1>1, <1>2, <1>4, <1>5 DEF Allocate

\* Step 1: the stack, bootloader_data and the free memory are apart.
LEMMA OwnersAllocateBootMemory ==
    ASSUME OwnersInv, AllocateBootMemory
    PROVE  OwnersInv'
<1> DEFINE n == machine.n_pages
           t == "EfiLoaderData"
<1>1. /\ phase = "allocate" /\ phase' = "prelim" /\ machine' = machine /\ image' = image
      /\ pool' = pool /\ prelim' = prelim /\ phdrs' = phdrs /\ tables' = tables
  BY DEF AllocateBootMemory, world, paging
<1>2. World /\ RamInv /\ HeadersInv
  BY DEF OwnersInv
<1>3. /\ DOMAIN ram = DOMAIN machine.ram /\ DOMAIN ram \subseteq Nat
      /\ IsFiniteSet(DOMAIN ram) /\ n \in Nat \ {0}
  BY <1>2, RamFacts
<1>4. PICK s \in Places(ram, 1) :
          \E d \in Places(Allocate(ram, {s}, t), 2) :
             \E f \in Places(Allocate(Allocate(ram, {s}, t), d .. d + 1, t), n) :
                /\ ram' = Allocate(Allocate(Allocate(ram, {s}, t), d .. d + 1, t),
                                   f .. f + n - 1, t)
                /\ new_stack' = s /\ data' = d /\ free_memory' = f
  BY DEF AllocateBootMemory, FREE_PAGES
<1> DEFINE m1 == Allocate(ram, {s}, t)
<1>5. PICK d \in Places(m1, 2) :
             \E f \in Places(Allocate(m1, d .. d + 1, t), n) :
                /\ ram' = Allocate(Allocate(m1, d .. d + 1, t), f .. f + n - 1, t)
                /\ new_stack' = s /\ data' = d /\ free_memory' = f
  BY <1>4
<1> DEFINE m2 == Allocate(m1, d .. d + 1, t)
<1>6. PICK f \in Places(m2, n) :
                /\ ram' = Allocate(m2, f .. f + n - 1, t)
                /\ new_stack' = s /\ data' = d /\ free_memory' = f
  BY <1>5
<1>7. m1 = Allocate(ram, {s}, t) /\ m2 = Allocate(m1, d .. d + 1, t)
      /\ n = machine.n_pages /\ t \in Loaders /\ t = "EfiLoaderData"
  BY DEF Loaders
<1> HIDE DEF n, t, m1, m2
<1>8. RamKept(machine.ram, ram, pool)
  BY <1>2 DEF RamInv
<1>9. s \in Nat /\ {s} \subseteq Free(ram)
  BY <1>3, PlacesFree
<1>10. /\ RamKept(machine.ram, m1, pool) /\ Owned(m1, pool, {s}) /\ m1[s].Type = t
  BY <1>7, <1>8, <1>9, LoaderAllocates
<1>11. d \in Nat /\ d .. d + 1 \subseteq Free(m1)
  <2>1. DOMAIN m1 \subseteq Nat /\ IsFiniteSet(DOMAIN m1)
    BY <1>3, <1>10 DEF RamKept
  <2>2. d \in Nat /\ d .. d + 2 - 1 \subseteq Free(m1)
    BY <2>1, PlacesFree
  <2>3. d + 2 - 1 = d + 1
    BY <2>2
  <2> QED BY <2>2, <2>3
<1>12. /\ RamKept(machine.ram, m2, pool) /\ Owned(m2, pool, d .. d + 1)
       /\ Kept(m1, pool, m2, pool)
       /\ \A g \in d .. d + 1 : m2[g].Type = t
  <2> DEFINE G == d .. d + 1
  <2>1. G \subseteq Free(m1) /\ m2 = Allocate(m1, G, t) /\ t \in Loaders
        /\ RamKept(machine.ram, m1, pool)
    BY <1>7, <1>10, <1>11
  <2> HIDE DEF G
  <2>2. RamKept(machine.ram, m2, pool) /\ Owned(m2, pool, G) /\ Kept(m1, pool, m2, pool)
    BY <2>1, LoaderAllocates
  <2>3. \A g \in G : m2[g].Type = t
    BY <2>1 DEF Allocate, Free
  <2> QED BY <2>2, <2>3 DEF G
<1>13. Owned(m2, pool, {s}) /\ m2[s].Type = t
  <2>1. Owned(m2, pool, {s})
    BY <1>10, <1>12, OwnersKept
  <2>2. m1[s].Type # "EfiConventionalMemory" /\ s \in DOMAIN m1 /\ s \notin pool
    BY <1>7, <1>10 DEF Owned
  <2> QED BY <1>10, <1>12, <2>1, <2>2 DEF Kept
<1>14. f \in Nat /\ f .. f + n - 1 \subseteq Free(m2)
  <2>1. DOMAIN m2 \subseteq Nat /\ IsFiniteSet(DOMAIN m2)
    BY <1>3, <1>12 DEF RamKept
  <2> QED BY <1>6, <2>1, PlacesFree
<1>15. /\ RamKept(machine.ram, ram', pool) /\ Owned(ram', pool, f .. f + n - 1)
       /\ Kept(m2, pool, ram', pool)
       /\ \A g \in f .. f + n - 1 : ram'[g].Type = t
  <2> DEFINE G == f .. f + n - 1
  <2>1. G \subseteq Free(m2) /\ ram' = Allocate(m2, G, t) /\ t \in Loaders
        /\ RamKept(machine.ram, m2, pool)
    BY <1>6, <1>7, <1>12, <1>14
  <2> HIDE DEF G
  <2>2. RamKept(machine.ram, ram', pool) /\ Owned(ram', pool, G) /\ Kept(m2, pool, ram', pool)
    BY <2>1, LoaderAllocates
  <2>3. \A g \in G : ram'[g].Type = t
    BY <2>1 DEF Allocate, Free
  <2> QED BY <2>2, <2>3 DEF G
<1>16. ASSUME NEW g \in {s} \cup d .. d + 1 PROVE ram'[g] = m2[g] /\ m2[g].Type = t
  <2>1. m2[g].Type = t /\ g \in DOMAIN m2 /\ g \notin pool
    BY <1>12, <1>13 DEF Owned
  <2> QED BY <1>7, <1>15, <2>1 DEF Kept
<1>17. Owned(ram', pool, {s}) /\ Owned(ram', pool, d .. d + 1)
  BY <1>12, <1>13, <1>15, OwnersKept
<1>18. s \notin d .. d + 1
  BY <1>10, <1>11, OwnedNotFree
<1>19. s \notin f .. f + n - 1 /\ d .. d + 1 \cap f .. f + n - 1 = {}
  <2>1. {s} \cap Free(m2) = {} /\ (d .. d + 1) \cap Free(m2) = {}
    BY <1>12, <1>13, OwnedNotFree
  <2> QED BY <1>14, <2>1
<1> DEFINE L == LoaderPages(s, d, f, n)
<1>20. /\ \A g \in L : g \in {s} \cup d .. d + 1 \/ g \in f .. f + n - 1
       /\ \A g \in L : g \in {s} \/ g \in d .. d + 1 \/ g \in f .. f + n - 1
  BY DEF LoaderPages
<1>21. Owned(ram', pool, L)
  BY <1>15, <1>17, <1>20 DEF Owned
<1>22. \A g \in L : ram'[g].Type = "EfiLoaderData"
  BY <1>7, <1>15, <1>16, <1>20
<1>23. BootMemory(ram', pool, s, d, f, n)
  BY <1>9, <1>11, <1>14, <1>18, <1>19, <1>21, <1>22 DEF BootMemory
<1>24. MemoryInv'
  BY <1>1, <1>6, <1>7, <1>23 DEF MemoryInv
<1>25. phdrs = << >> /\ phase' \notin PrelimOn /\ phase' \notin LoadedOn /\ phase' \notin Tables
  BY <1>1, <1>2 DEF HeadersInv, PrelimOn, LoadedOn, Tables, Given
<1>26. HeadersInv'
  BY <1>1, <1>2, <1>25 DEF HeadersInv
<1>27. SegmentsInv' /\ PrelimInv' /\ TablesInv'
  BY <1>1, <1>25 DEF SegmentsInv, PrelimInv, TablesInv, Segments
<1>28. World' /\ RamInv'
  BY <1>1, <1>2, <1>15 DEF World, RamInv
<1>29. phase' \in {"allocate"} \cup MemoryOn \cup Given
  BY <1>1 DEF MemoryOn
<1> QED BY <1>24, <1>26, <1>27, <1>28, <1>29 DEF OwnersInv

\* GetMemoryMap is the map of the frames at the time.
LEMMA GetMemoryMapIsMapOf ==
    ASSUME World, RamInv
    PROVE  GetMemoryMap(ram) = MapOf(ram, machine.mmio)
<1> DEFINE S == Ascending(Starts(ram))
<1>1. IsFiniteSet(DOMAIN ram)
  BY RamFacts
<1>2. IsFiniteSet(Starts(ram))
  <2>1. Starts(ram) \subseteq DOMAIN ram
    BY DEF Starts
  <2> QED BY <1>1, <2>1, FS_Subset
<1>3. DOMAIN S = 1 .. Stretches(ram)
  BY DEF Ascending, Stretches
<1> QED BY <1>3 DEF GetMemoryMap, MapOf, StretchEntry

\* Step 2: the boot memory is in the preliminary map.
LEMMA OwnersAcquirePreliminaryMap ==
    ASSUME OwnersInv, AcquirePreliminaryMap
    PROVE  OwnersInv'
<1>1. /\ phase = "prelim" /\ phase' = "load" /\ machine' = machine /\ image' = image
      /\ ram' = ram /\ pool' = pool /\ phdrs' = phdrs /\ tables' = tables
      /\ new_stack' = new_stack /\ data' = data /\ free_memory' = free_memory
      /\ prelim' = GetMemoryMap(ram)
  BY DEF AcquirePreliminaryMap, world, firmware, memory, paging
<1>2. World /\ RamInv /\ HeadersInv /\ MemoryInv /\ SegmentsInv
  BY DEF OwnersInv
<1>3. phase \in MemoryOn /\ phase' \in MemoryOn /\ phase' \in PrelimOn
      /\ phase' \notin LoadedOn /\ phase' \notin Tables
  BY <1>1 DEF MemoryOn, PrelimOn, LoadedOn, Tables
<1>4. BootMemory(ram, pool, new_stack, data, free_memory, machine.n_pages)
  BY <1>2, <1>3 DEF MemoryInv
<1>5. Pages4' = Pages4
  BY <1>1 DEF Pages4
<1>6. RamKept(machine.ram, ram, {})
  BY <1>2 DEF RamInv, RamKept
<1>7. \A f \in Pages4 :
         f \in DOMAIN ram /\ ram[f].Type = "EfiLoaderData" /\ ram[f].runtime = FALSE
  BY <1>4 DEF BootMemory, Owned, Pages4
<1>8. Preliminary(prelim', machine, Pages4)
  BY <1>1, <1>2, <1>6, <1>7, GetMemoryMapIsMapOf DEF Preliminary
<1>9. PrelimInv'
  BY <1>1, <1>5, <1>8 DEF PrelimInv
<1>10. World' /\ RamInv'
  BY <1>1, <1>2 DEF World, RamInv
<1>11. MemoryInv'
  BY <1>1, <1>4 DEF MemoryInv
<1>12. HeadersInv'
  BY <1>1, <1>2, <1>3 DEF HeadersInv
<1>13. SegmentsInv'
  BY <1>1, <1>2, <1>3, <1>5 DEF SegmentsInv
<1>14. TablesInv'
  BY <1>3 DEF TablesInv
<1> QED BY <1>3, <1>9, <1>10, <1>11, <1>12, <1>13, <1>14 DEF OwnersInv

\* The header as it is loaded.
LEMMA LoadedHeader ==
    ASSUME NEW h \in FilePhdr, NEW f \in Nat
    PROVE  /\ Loaded(h, f) \in Phdr /\ Alike(Loaded(h, f), h)
           /\ Loaded(h, f).ppage = f
           /\ KernelRange(Loaded(h, f)).n =
                 IF h.p_type = "PT_LOAD" THEN NUM_PAGES(h.offset, h.p_memsz) ELSE 0
<1> DEFINE l == Loaded(h, f)
<1>1. KERNEL_BASE \in Nat
  BY BootLoaderAssumption, PagingAssumption DEF VPage
<1>2. h.vpage + (IF h.p_type = "PT_GNU_STACK" THEN 0 ELSE KERNEL_BASE) \in Nat
  BY <1>1 DEF FilePhdr
<1>3. l \in Phdr
  BY <1>2 DEF Loaded, Phdr, FilePhdr
<1>4. l.p_type = h.p_type /\ l.offset = h.offset /\ l.p_memsz = h.p_memsz /\ l.ppage = f
      /\ l.writable = h.writable
      /\ l.vpage = h.vpage + (IF h.p_type = "PT_GNU_STACK" THEN 0 ELSE KERNEL_BASE)
  BY DEF Loaded
<1> HIDE DEF l
<1>5. Alike(l, h)
  BY <1>4 DEF Alike
<1>6. KernelRange(l).n = IF h.p_type = "PT_LOAD" THEN NUM_PAGES(h.offset, h.p_memsz) ELSE 0
  BY <1>4 DEF KernelRange, PageRange
<1> QED BY <1>3, <1>4, <1>5, <1>6 DEF l

\* Step 3: the loop goes from header to header, and the segments are apart.
LEMMA OwnersLoadSegment ==
    ASSUME OwnersInv, LoadSegment
    PROVE  OwnersInv'
<1> DEFINE k == Len(phdrs) + 1
           h == image.phdrs[k]
           n == NUM_PAGES(h.offset, h.p_memsz)
           t == IF h.executable THEN "EfiLoaderCode" ELSE "EfiLoaderData"
<1>1. /\ phase = "load" /\ phase' = phase /\ machine' = machine /\ image' = image
      /\ pool' = pool /\ prelim' = prelim /\ tables' = tables
      /\ new_stack' = new_stack /\ data' = data /\ free_memory' = free_memory
      /\ Len(phdrs) < Len(image.phdrs)
      /\ \E f : /\ phdrs' = Append(phdrs, Loaded(h, f))
                /\ \/ /\ h.p_type = "PT_LOAD" /\ f \in Places(ram, n)
                      /\ ram' = Allocate(ram, f .. f + n - 1, t)
                   \/ h.p_type # "PT_LOAD" /\ f = 0 /\ ram' = ram
  <2>1. /\ phase = "load" /\ phase' = phase /\ machine' = machine /\ image' = image
        /\ pool' = pool /\ prelim' = prelim /\ tables' = tables
        /\ new_stack' = new_stack /\ data' = data /\ free_memory' = free_memory
        /\ Len(phdrs) < Len(image.phdrs)
    BY DEF LoadSegment, world, memory, paging
  <2>2. CASE h.p_type = "PT_LOAD"
    <3>1. \E f \in Places(ram, n) :
             ram' = Allocate(ram, f .. f + n - 1, t) /\ phdrs' = Append(phdrs, Loaded(h, f))
      BY <2>2 DEF LoadSegment
    <3> HIDE DEF k, h, n, t
    <3> QED BY <2>1, <2>2, <3>1
  <2>3. CASE h.p_type # "PT_LOAD"
    <3>1. ram' = ram /\ phdrs' = Append(phdrs, Loaded(h, 0))
      BY <2>3 DEF LoadSegment
    <3> HIDE DEF k, h, n, t
    <3> QED BY <2>1, <2>3, <3>1
  <2> QED BY <2>2, <2>3
<1>2. PICK f : /\ phdrs' = Append(phdrs, Loaded(h, f))
               /\ \/ /\ h.p_type = "PT_LOAD" /\ f \in Places(ram, n)
                     /\ ram' = Allocate(ram, f .. f + n - 1, t)
                  \/ h.p_type # "PT_LOAD" /\ f = 0 /\ ram' = ram
  BY <1>1
<1>3. World /\ RamInv /\ HeadersInv /\ MemoryInv /\ SegmentsInv /\ PrelimInv
  BY DEF OwnersInv
<1>4. phase \in MemoryOn /\ phase \in PrelimOn /\ phase \notin LoadedOn /\ phase \notin Tables
  BY <1>1 DEF MemoryOn, PrelimOn, LoadedOn, Tables
<1>5. /\ BootMemory(ram, pool, new_stack, data, free_memory, machine.n_pages)
      /\ Segments(ram, pool, phdrs, Pages4)
      /\ Headers(phdrs, image.phdrs)
  BY <1>3, <1>4 DEF MemoryInv, SegmentsInv, HeadersInv
<1>6. image.phdrs \in Seq(FilePhdr) /\ phdrs \in Seq(Phdr)
  BY <1>3, <1>5, WorldFacts DEF Linked, Image, Headers
<1>7. k \in 1 .. Len(image.phdrs) /\ h \in FilePhdr
  BY <1>1, <1>6
<1>8. h.offset \in 0 .. PAGE_SIZE - 1 /\ h.p_memsz \in Nat /\ t \in Loaders
  BY <1>7 DEF FilePhdr, Loaders
<1>9. n \in Nat
  BY <1>8, SegmentPages
<1>10. /\ DOMAIN ram \subseteq Nat /\ IsFiniteSet(DOMAIN ram)
       /\ RamKept(machine.ram, ram, pool)
  BY <1>3, RamFacts DEF RamInv
<1> HIDE DEF n, t
<1> DEFINE l == Loaded(h, f)
           G == SegmentFrames(l)
<1>11. f \in Nat /\ (h.p_type = "PT_LOAD" => f .. f + n - 1 \subseteq Free(ram))
  <2>1. CASE h.p_type = "PT_LOAD"
    BY <1>2, <1>10, <2>1, PlacesFree
  <2>2. CASE h.p_type # "PT_LOAD"
    BY <1>2, <2>2
  <2> QED BY <2>1, <2>2
<1>12. l \in Phdr /\ Alike(l, h) /\ G = IF h.p_type = "PT_LOAD" THEN f .. f + n - 1 ELSE {}
  <2>1. /\ l \in Phdr /\ Alike(l, h) /\ l.ppage = f
        /\ KernelRange(l).n = IF h.p_type = "PT_LOAD" THEN n ELSE 0
    BY <1>7, <1>11, LoadedHeader DEF n
  <2>2. G = f .. f + KernelRange(l).n - 1
    BY <2>1 DEF SegmentFrames
  <2> HIDE DEF l, G, h, k
  <2> QED BY <1>9, <1>11, <2>1, <2>2
<1> HIDE DEF l, G
<1>13. /\ RamKept(machine.ram, ram', pool) /\ Kept(ram, pool, ram', pool)
       /\ Owned(ram', pool, G) /\ G \subseteq Free(ram)
  <2>1. CASE h.p_type = "PT_LOAD"
    <3>1. G \subseteq Free(ram) /\ ram' = Allocate(ram, G, t) /\ t \in Loaders
          /\ RamKept(machine.ram, ram, pool)
      BY <1>2, <1>8, <1>10, <1>11, <1>12, <2>1
    <3> QED BY <3>1, LoaderAllocates
  <2>2. CASE h.p_type # "PT_LOAD"
    <3>1. G = {} /\ ram' = ram
      BY <1>2, <1>12, <2>2
    <3> QED BY <1>10, <3>1 DEF Kept, Owned
  <2> QED BY <2>1, <2>2
<1>14. Pages4' = Pages4
  BY <1>1 DEF Pages4
<1>15. /\ BootMemory(ram', pool, new_stack, data, free_memory, machine.n_pages)
       /\ Segments(ram', pool, phdrs, Pages4)
  BY <1>5, <1>13, OwnersKept
<1>16. /\ phdrs' \in Seq(Phdr) /\ Len(phdrs') = k /\ phdrs'[k] = l
       /\ \A j \in 1 .. Len(phdrs) : phdrs'[j] = phdrs[j]
       /\ \A j \in 1 .. k : j \in 1 .. Len(phdrs) \/ j = k
  <2>1. phdrs' = Append(phdrs, l) /\ Len(phdrs) \in Nat
    BY <1>2, <1>6 DEF l
  <2> QED BY <1>6, <1>12, <2>1, AppendProperties
<1>17. G \cap Pages4 = {}
  <2>1. Owned(ram, pool, Pages4)
    BY <1>5 DEF BootMemory, Pages4
  <2> QED BY <1>13, <2>1, OwnedNotFree
<1>18. \A j \in 1 .. Len(phdrs) : G \cap SegmentFrames(phdrs[j]) = {}
  <2> SUFFICES ASSUME NEW j \in 1 .. Len(phdrs) PROVE G \cap SegmentFrames(phdrs[j]) = {}
    OBVIOUS
  <2>1. Owned(ram, pool, SegmentFrames(phdrs[j]))
    BY <1>5 DEF Segments
  <2> QED BY <1>13, <2>1, OwnedNotFree
<1> HIDE DEF k, h
<1>19. Segments(ram', pool, phdrs', Pages4)
  <2> SUFFICES ASSUME NEW i \in 1 .. k
               PROVE  /\ Owned(ram', pool, SegmentFrames(phdrs'[i]))
                      /\ SegmentFrames(phdrs'[i]) \cap Pages4 = {}
                      /\ \A j \in 1 .. k : j # i =>
                            SegmentFrames(phdrs'[j]) \cap SegmentFrames(phdrs'[i]) = {}
    BY <1>16 DEF Segments
  <2>1. CASE i = k
    <3>1. SegmentFrames(phdrs'[i]) = G
      BY <1>16, <2>1 DEF G
    <3>2. \A j \in 1 .. k : j # i =>
             j \in 1 .. Len(phdrs) /\ SegmentFrames(phdrs'[j]) = SegmentFrames(phdrs[j])
      BY <1>16, <2>1
    <3> QED BY <1>13, <1>17, <1>18, <3>1, <3>2
  <2>2. CASE i \in 1 .. Len(phdrs)
    <3>1. SegmentFrames(phdrs'[i]) = SegmentFrames(phdrs[i])
      BY <1>16, <2>2
    <3>2. /\ Owned(ram', pool, SegmentFrames(phdrs[i])) /\ SegmentFrames(phdrs[i]) \cap Pages4 = {}
          /\ \A j \in 1 .. Len(phdrs) : j # i =>
                SegmentFrames(phdrs[j]) \cap SegmentFrames(phdrs[i]) = {}
      BY <1>15, <2>2 DEF Segments
    <3>3. ASSUME NEW j \in 1 .. k, j # i
          PROVE  SegmentFrames(phdrs'[j]) \cap SegmentFrames(phdrs'[i]) = {}
      <4>1. CASE j = k
        <5>1. SegmentFrames(phdrs'[j]) = G
          BY <1>16, <4>1 DEF G
        <5> QED BY <1>18, <2>2, <3>1, <5>1
      <4>2. CASE j \in 1 .. Len(phdrs)
        <5>1. SegmentFrames(phdrs'[j]) = SegmentFrames(phdrs[j])
          BY <1>16, <4>2
        <5> QED BY <3>1, <3>2, <3>3, <4>2, <5>1
      <4> QED BY <1>16, <4>1, <4>2
    <3> QED BY <3>1, <3>2, <3>3
  <2> QED BY <1>16, <2>1, <2>2
<1>20. Headers(phdrs', image.phdrs)
  <2>1. k <= Len(image.phdrs)
    BY <1>7
  <2>2. \A j \in 1 .. Len(phdrs) : Alike(phdrs[j], image.phdrs[j])
    BY <1>5 DEF Headers
  <2>3. Alike(phdrs'[k], image.phdrs[k])
    BY <1>12, <1>16 DEF h
  <2> QED BY <1>16, <2>1, <2>2, <2>3 DEF Headers
<1>21. World' /\ RamInv' /\ MemoryInv' /\ SegmentsInv'
  BY <1>1, <1>3, <1>13, <1>14, <1>15, <1>19 DEF World, RamInv, MemoryInv, SegmentsInv
<1>22. HeadersInv' /\ PrelimInv' /\ TablesInv'
  BY <1>1, <1>3, <1>4, <1>14, <1>20 DEF HeadersInv, PrelimInv, TablesInv
<1> QED BY <1>1, <1>4, <1>21, <1>22 DEF OwnersInv

\* The second loop of load_elf_pages changes no segment.
LEMMA SetPaddrProperties ==
    ASSUME phdrs \in Seq(Phdr), NEW i \in 1 .. Len(phdrs)
    PROVE  /\ SetPaddr(i) \in Phdr
           /\ SegmentFrames(SetPaddr(i)) = SegmentFrames(phdrs[i])
           /\ \A g : Alike(phdrs[i], g) => Alike(SetPaddr(i), g)
           /\ phdrs[i].p_type = "PT_LOAD" => SetPaddr(i) = phdrs[i]
<1> DEFINE h == phdrs[i]
<1>1. h \in Phdr
  OBVIOUS
<1>2. CASE h.p_type = "PT_LOAD"
  <2>1. SetPaddr(i) = h
    BY <1>2 DEF SetPaddr
  <2> QED BY <1>1, <2>1
<1>3. CASE h.p_type # "PT_LOAD"
  <2> DEFINE f == IF Holders(i) = {} THEN 0 ELSE phdrs[Min(Holders(i))].ppage
             s == [h EXCEPT !.ppage = f]
  <2>1. SetPaddr(i) = s
    BY <1>3 DEF SetPaddr
  <2>2. f \in Nat
    <3>1. Holders(i) \in SUBSET (1 .. Len(phdrs)) /\ Len(phdrs) \in Nat
      BY DEF Holders
    <3>2. Holders(i) \in SUBSET Nat /\ IsFiniteSet(Holders(i))
      <4>1. IsFiniteSet(1 .. Len(phdrs))
        BY <3>1, FS_Interval
      <4> QED BY <3>1, <4>1, FS_Subset
    <3>3. Holders(i) # {} => Min(Holders(i)) \in 1 .. Len(phdrs)
      BY <3>1, <3>2, MinProperties
    <3>4. \A j \in 1 .. Len(phdrs) : phdrs[j].ppage \in Nat
      <4> SUFFICES ASSUME NEW j \in 1 .. Len(phdrs) PROVE phdrs[j].ppage \in Nat
        OBVIOUS
      <4>1. phdrs[j] \in Phdr
        OBVIOUS
      <4> QED BY <4>1 DEF Phdr
    <3> QED BY <3>3, <3>4
  <2> HIDE DEF f
  <2>3. s \in Phdr
    BY <1>1, <2>2 DEF Phdr
  <2>4. /\ s.p_type = h.p_type /\ s.writable = h.writable /\ s.vpage = h.vpage
        /\ s.offset = h.offset /\ s.p_memsz = h.p_memsz /\ s.ppage = f
    BY <1>1 DEF Phdr
  <2> HIDE DEF s
  <2>5. KernelRange(s).n = 0 /\ KernelRange(h).n = 0
    BY <1>3, <2>4 DEF KernelRange, PageRange
  <2>6. f .. f + 0 - 1 = {} /\ h.ppage .. h.ppage + 0 - 1 = {}
    <3>1. h.ppage \in Nat
      BY <1>1 DEF Phdr
    <3> HIDE DEF h
    <3> QED BY <2>2, <3>1
  <2>7. SegmentFrames(s) = {} /\ SegmentFrames(h) = {}
    BY <2>4, <2>5, <2>6 DEF SegmentFrames
  <2>8. \A g : Alike(h, g) => Alike(s, g)
    BY <2>4 DEF Alike
  <2> QED BY <1>3, <2>1, <2>3, <2>7, <2>8
<1> QED BY <1>2, <1>3

\* Step 3 ends: the headers are complete, and the first one is that of the ELF
\* header.
LEMMA OwnersKernelLoaded ==
    ASSUME OwnersInv, KernelLoaded
    PROVE  OwnersInv'
<1>1. /\ phase = "load" /\ machine' = machine /\ image' = image /\ ram' = ram
      /\ pool' = pool /\ prelim' = prelim /\ tables' = tables
      /\ new_stack' = new_stack /\ data' = data /\ free_memory' = free_memory
      /\ Len(phdrs) = Len(image.phdrs)
      /\ phdrs' = [i \in DOMAIN phdrs |-> SetPaddr(i)]
      /\ \/ /\ phase' = "tables"
            /\ image.phdrs[1].p_type = "PT_LOAD" /\ image.phdrs[1].first
         \/ phase' = "exit"
  <2>1. phase' = IF image.phdrs[1].p_type = "PT_LOAD" /\ image.phdrs[1].first
                THEN "tables" ELSE "exit"
    BY DEF KernelLoaded
  <2>2. \/ phase' = "tables" /\ image.phdrs[1].p_type = "PT_LOAD" /\ image.phdrs[1].first
        \/ phase' = "exit"
    BY <2>1, Zenon
  <2> QED BY <2>2 DEF KernelLoaded, world, firmware, memory, paging
<1>2. World /\ RamInv /\ HeadersInv /\ MemoryInv /\ SegmentsInv /\ PrelimInv
  BY DEF OwnersInv
<1>3. phase \in MemoryOn /\ phase \in PrelimOn /\ phase' \notin Tables
      /\ (phase' \in LoadedOn => phase' = "tables")
      /\ phase' \in PrelimOn \cup Given /\ phase' \in MemoryOn \cup Given
  BY <1>1 DEF MemoryOn, PrelimOn, LoadedOn, Tables, Given
<1>4. /\ BootMemory(ram, pool, new_stack, data, free_memory, machine.n_pages)
      /\ Segments(ram, pool, phdrs, Pages4)
      /\ Headers(phdrs, image.phdrs)
  BY <1>2, <1>3 DEF MemoryInv, SegmentsInv, HeadersInv
<1>5. Pages4' = Pages4
  BY <1>1 DEF Pages4
<1>6. phdrs \in Seq(Phdr)
  BY <1>4 DEF Headers
<1>7. /\ phdrs' \in Seq(Phdr) /\ Len(phdrs') = Len(phdrs)
      /\ \A i \in 1 .. Len(phdrs) :
            /\ SegmentFrames(phdrs'[i]) = SegmentFrames(phdrs[i])
            /\ \A g : Alike(phdrs[i], g) => Alike(phdrs'[i], g)
  <2>1. DOMAIN phdrs = 1 .. Len(phdrs) /\ Len(phdrs) \in Nat
    BY <1>6
  <2>2. \A i \in 1 .. Len(phdrs) : phdrs'[i] = SetPaddr(i)
    BY <1>1, <2>1
  <2>3. \A i \in 1 .. Len(phdrs) : SetPaddr(i) \in Phdr
    BY <1>6, SetPaddrProperties
  <2>4. phdrs' \in Seq(Phdr) /\ Len(phdrs') = Len(phdrs)
    BY <1>1, <2>1, <2>3
  <2>5. ASSUME NEW i \in 1 .. Len(phdrs)
        PROVE  /\ SegmentFrames(phdrs'[i]) = SegmentFrames(phdrs[i])
               /\ \A g : Alike(phdrs[i], g) => Alike(phdrs'[i], g)
    BY <1>6, <2>2, SetPaddrProperties
  <2> QED BY <2>4, <2>5
<1>8. Headers(phdrs', image.phdrs)
  BY <1>4, <1>7 DEF Headers
<1>9. Segments(ram, pool, phdrs', Pages4)
  BY <1>4, <1>7 DEF Segments
<1>10. World' /\ RamInv' /\ MemoryInv' /\ SegmentsInv'
  BY <1>1, <1>2, <1>4, <1>5, <1>9 DEF World, RamInv, MemoryInv, SegmentsInv
<1>11. PrelimInv' /\ TablesInv'
  BY <1>1, <1>2, <1>3, <1>5 DEF PrelimInv, TablesInv
<1>12. HeadersInv'
  BY <1>1, <1>3, <1>7, <1>8 DEF HeadersInv
<1> QED BY <1>3, <1>10, <1>11, <1>12 DEF OwnersInv

\* What the preliminary map says of memory: every frame of the loader is in an
\* entry of its type, and entries of the loader hold RAM.
LEMMA PrelimFacts ==
    ASSUME NEW map, NEW m, NEW L, Machine(m), Preliminary(map, m, L)
    PROVE  /\ map \in Seq(Descriptor)
           /\ \A f \in L : \E i \in 1 .. Len(map) :
                 map[i].Type = "EfiLoaderData" /\ f \in Holds(map[i])
           /\ \A f \in DOMAIN m.ram : m.ram[f].Type = "EfiLoaderCode" =>
                 \E i \in 1 .. Len(map) : map[i].Type = "EfiLoaderCode" /\ f \in Holds(map[i])
           /\ \A i \in 1 .. Len(map) : IsLoader(map[i]) => Holds(map[i]) \subseteq DOMAIN m.ram
<1>1. PICK r : /\ RamKept(m.ram, r, {})
               /\ \A f \in L : f \in DOMAIN r /\ r[f].Type = "EfiLoaderData"
               /\ map = MapOf(r, m.mmio)
  BY DEF Preliminary
<1>2. /\ DOMAIN r = DOMAIN m.ram /\ DOMAIN r \subseteq Nat /\ IsFiniteSet(DOMAIN r)
      /\ r \in [DOMAIN r -> Region] /\ m.mmio \in Seq(Descriptor)
  BY <1>1 DEF Machine, RamKept
<1> DEFINE n == Stretches(r)
<1>3. /\ n \in Nat /\ Len(map) = n + Len(m.mmio) /\ map \in Seq(Descriptor)
      /\ \A j \in 1 .. n : \A f \in Holds(map[j]) : f \in DOMAIN r /\ r[f].Type = map[j].Type
      /\ \A f \in DOMAIN r : \E j \in 1 .. n : f \in Holds(map[j])
      /\ \A j \in 1 .. Len(m.mmio) : map[n + j] = m.mmio[j]
  <2>1. n = Stretches(r)
    OBVIOUS
  <2> HIDE DEF n
  <2>2. MapOfIs(r, m.mmio, n, map)
    BY <1>1, <1>2, <2>1, MapOfProperties
  <2> QED BY <2>2 DEF MapOfIs
<1> HIDE DEF n
<1>4. Len(m.mmio) \in Nat /\ Len(map) \in Nat
  BY <1>2, <1>3
<1>5. \A j \in 1 .. n : j \in 1 .. Len(map)
  BY <1>3, <1>4
<1>6. ASSUME NEW f \in L
      PROVE  \E i \in 1 .. Len(map) : map[i].Type = "EfiLoaderData" /\ f \in Holds(map[i])
  BY <1>1, <1>3, <1>5
<1>7. ASSUME NEW f \in DOMAIN m.ram, m.ram[f].Type = "EfiLoaderCode"
      PROVE  \E i \in 1 .. Len(map) : map[i].Type = "EfiLoaderCode" /\ f \in Holds(map[i])
  <2>1. r[f] = m.ram[f]
    BY <1>1, <1>7 DEF RamKept
  <2> QED BY <1>2, <1>3, <1>5, <1>7, <2>1
<1>8. ASSUME NEW i \in 1 .. Len(map), IsLoader(map[i]) PROVE Holds(map[i]) \subseteq DOMAIN m.ram
  <2>1. CASE i \in 1 .. n
    BY <1>2, <1>3, <2>1
  <2>2. CASE i \notin 1 .. n
    <3>1. i - n \in 1 .. Len(m.mmio) /\ i = n + (i - n)
      BY <1>3, <1>4, <2>2
    <3>2. map[i] = m.mmio[i - n]
      BY <1>3, <3>1
    <3>3. map[i].Type \in MmioType
      BY <1>2, <3>1, <3>2 DEF Machine
    <3> QED BY <1>8, <3>3 DEF IsLoader, MmioType
  <2> QED BY <2>1, <2>2
<1> QED BY <1>3, <1>6, <1>7, <1>8

\* The size of RAM by a map.
LEMMA PaddrSizeType ==
    ASSUME NEW map \in Seq(Descriptor)
    PROVE  PaddrSize(map) \in Nat
<1>1. CASE Len(map) < 3
  BY <1>1 DEF PaddrSize
<1>2. CASE ~(Len(map) < 3)
  <2>1. Len(map) - 1 \in 1 .. Len(map)
    BY <1>2
  <2>2. map[Len(map) - 1] \in Descriptor
    BY <2>1
  <2> QED BY <1>2, <2>2 DEF PaddrSize, Descriptor
<1> QED BY <1>1, <1>2

\* Step 4: the page tables are apart from all of it.
LEMMA OwnersPrepareBootPageTables ==
    ASSUME OwnersInv, PrepareBootPageTables
    PROVE  OwnersInv'
<1> DEFINE base == KERNEL_BASE - PaddrSize(prelim)
           R == BootRanges(base)
           k == TablesNeeded(R)
<1>1. /\ phase = "tables" /\ machine' = machine /\ image' = image
      /\ pool' = pool /\ prelim' = prelim /\ phdrs' = phdrs
      /\ new_stack' = new_stack /\ data' = data /\ free_memory' = free_memory
  BY DEF PrepareBootPageTables, world, memory, paging
<1>2. World /\ RamInv /\ HeadersInv /\ MemoryInv /\ SegmentsInv /\ PrelimInv
  BY DEF OwnersInv
<1>3. phase \in MemoryOn /\ phase \in PrelimOn /\ phase \in LoadedOn
  BY <1>1 DEF MemoryOn, PrelimOn, LoadedOn, Tables
<1>4. Pages4' = Pages4
  BY <1>1 DEF Pages4
<1>5. CASE phase' = "exit" /\ UNCHANGED <<ram, paging>>
  <2>1. phase' \in Given
    BY <1>5 DEF Given
  <2>2. UNCHANGED <<machine, image, ram, pool, memory, prelim, phdrs, tables>>
    BY <1>1, <1>5 DEF memory, paging
  <2> QED BY <2>1, <2>2, OwnersUnchanged
<1>6. CASE /\ phase' = "final"
           /\ \E T \in SinglePages(ram, k) : tables' = T /\ ram' = Allocate(ram, T, "EfiLoaderData")
  <2>1. /\ BootMemory(ram, pool, new_stack, data, free_memory, machine.n_pages)
        /\ Segments(ram, pool, phdrs, Pages4)
        /\ Headers(phdrs, image.phdrs) /\ phdrs \in Seq(Phdr)
        /\ Preliminary(prelim, machine, Pages4)
    BY <1>2, <1>3 DEF MemoryInv, SegmentsInv, HeadersInv, PrelimInv, Headers
  <2>2. PICK T \in SinglePages(ram, k) : tables' = T /\ ram' = Allocate(ram, T, "EfiLoaderData")
    BY <1>6
  <2>3. k \in Nat
    <3>1. prelim \in Seq(Descriptor)
      BY <1>2, <2>1, WorldFacts, PrelimFacts
    <3>2. base \in Int
      BY <3>1, PaddrSizeType, BootLoaderAssumption DEF VPage
    <3>3. machine.n_pages \in Int /\ data \in Int /\ free_memory \in Int
      BY <1>2, <2>1, RamFacts DEF BootMemory
    <3>4. R = RangesOf(prelim, data, free_memory, machine.n_pages, phdrs, base)
      BY DEF BootRanges, RangesOf, FREE_PAGES
    <3> HIDE DEF base, R
    <3>5. R \in Seq(Run)
      <4>1. RangesAre(RangesOf(prelim, data, free_memory, machine.n_pages, phdrs, base),
                      prelim, data, free_memory, machine.n_pages, phdrs, base)
        BY <2>1, <3>1, <3>2, <3>3, RangesOfProperties
      <4> QED BY <3>4, <4>1 DEF RangesAre
    <3> QED BY <3>5, TablesNeededType
  <2> HIDE DEF k, R, base
  <2>4. /\ RamKept(machine.ram, ram, pool) /\ DOMAIN ram \subseteq Nat /\ IsFiniteSet(DOMAIN ram)
    BY <1>2, RamFacts DEF RamInv
  <2>5. T \subseteq Free(ram)
    BY <2>3, <2>4, SinglePagesFree
  <2>6. "EfiLoaderData" \in Loaders
    BY DEF Loaders
  <2>7. /\ RamKept(machine.ram, ram', pool) /\ Owned(ram', pool, T)
        /\ Kept(ram, pool, ram', pool)
    BY <2>2, <2>4, <2>5, <2>6, LoaderAllocates
  <2>8. /\ BootMemory(ram', pool, new_stack, data, free_memory, machine.n_pages)
        /\ Segments(ram', pool, phdrs, Pages4)
    BY <2>1, <2>7, OwnersKept
  <2>9. T \cap Pages4 = {}
    <3>1. Owned(ram, pool, Pages4)
      BY <2>1 DEF BootMemory, Pages4
    <3> QED BY <2>5, <3>1, OwnedNotFree
  <2>10. \A i \in 1 .. Len(phdrs) : T \cap SegmentFrames(phdrs[i]) = {}
    <3> SUFFICES ASSUME NEW i \in 1 .. Len(phdrs) PROVE T \cap SegmentFrames(phdrs[i]) = {}
      OBVIOUS
    <3>1. Owned(ram, pool, SegmentFrames(phdrs[i]))
      BY <2>1 DEF Segments
    <3> QED BY <2>5, <3>1, OwnedNotFree
  <2>11. TablesInv'
    BY <1>1, <1>4, <2>2, <2>7, <2>9, <2>10 DEF TablesInv, TablesApart
  <2>12. World' /\ RamInv' /\ MemoryInv' /\ SegmentsInv'
    BY <1>1, <1>2, <1>4, <2>7, <2>8 DEF World, RamInv, MemoryInv, SegmentsInv
  <2>13. phase' \in MemoryOn /\ phase' \in PrelimOn /\ phase' \in LoadedOn
    BY <1>6 DEF MemoryOn, PrelimOn, LoadedOn, Tables
  <2>14. PrelimInv' /\ HeadersInv'
    BY <1>1, <1>2, <1>3, <1>4, <2>13 DEF PrelimInv, HeadersInv
  <2> QED BY <2>11, <2>12, <2>13, <2>14 DEF OwnersInv
<1> QED BY <1>5, <1>6 DEF PrepareBootPageTables

\* The firmware leaves the loader what it gave it.
LEMMA OwnersFirmwareEvent ==
    ASSUME OwnersInv, FirmwareEvent
    PROVE  OwnersInv'
<1>1. /\ phase' = phase /\ machine' = machine /\ image' = image
      /\ prelim' = prelim /\ tables' = tables /\ phdrs' = phdrs
      /\ new_stack' = new_stack /\ data' = data /\ free_memory' = free_memory
  BY DEF FirmwareEvent, world, memory, paging
<1>2. World /\ RamInv /\ HeadersInv /\ MemoryInv /\ SegmentsInv /\ PrelimInv /\ TablesInv
      /\ phase \in {"allocate"} \cup MemoryOn \cup Given
  BY DEF OwnersInv
<1>3. RamInv' /\ Kept(ram, pool, ram', pool')
  BY <1>2, FirmwareKeeps
<1>4. Pages4' = Pages4
  BY <1>1 DEF Pages4
<1>5. World' /\ HeadersInv' /\ PrelimInv'
  BY <1>1, <1>2, <1>4 DEF World, HeadersInv, PrelimInv
<1>6. MemoryInv'
  <2> SUFFICES ASSUME phase \in MemoryOn
               PROVE  BootMemory(ram', pool', new_stack, data, free_memory, machine.n_pages)
    BY <1>1 DEF MemoryInv
  <2>1. BootMemory(ram, pool, new_stack, data, free_memory, machine.n_pages)
    BY <1>2 DEF MemoryInv
  <2> QED BY <1>3, <2>1, OwnersKept
<1>7. SegmentsInv'
  <2> SUFFICES ASSUME phase \in MemoryOn PROVE Segments(ram', pool', phdrs, Pages4)
    BY <1>1, <1>4 DEF SegmentsInv
  <2>1. Segments(ram, pool, phdrs, Pages4)
    BY <1>2 DEF SegmentsInv
  <2> QED BY <1>3, <2>1, OwnersKept
<1>8. TablesInv'
  <2> SUFFICES ASSUME phase \in Tables PROVE TablesApart(ram', pool', tables, phdrs, Pages4)
    BY <1>1, <1>4 DEF TablesInv
  <2>1. TablesApart(ram, pool, tables, phdrs, Pages4)
    BY <1>2 DEF TablesInv
  <2> QED BY <1>3, <2>1, OwnersKept
<1> QED BY <1>1, <1>2, <1>3, <1>5, <1>6, <1>7, <1>8 DEF OwnersInv

\* The steps behind the switch change none of these: each goes on to a later
\* step or ends the boot.
LEMMA Later ==
    ASSUME \/ ExitStatus \/ AcquireFinalMap \/ ExitBootServices \/ InitMmap
           \/ MergeEntry \/ EntriesMerged \/ SetVirtualAddressMap \/ SetCr3
           \/ DoRelocations \/ JumpToKernel \/ Gone \/ UNCHANGED vars
    PROVE  /\ UNCHANGED <<machine, image, ram, pool, memory, prelim, phdrs, tables>>
           /\ UNCHANGED boot
           /\ \/ phase' = phase \/ phase' \in Given
              \/ phase \in Tables /\ phase' \in Tables
<1>1. CASE ExitStatus
  BY <1>1 DEF ExitStatus, Given, world, firmware, memory, paging
<1>2. CASE AcquireFinalMap
  BY <1>2 DEF AcquireFinalMap, Tables, world, firmware, memory, paging
<1>3. CASE ExitBootServices
  BY <1>3 DEF ExitBootServices, Tables, world, firmware, memory, paging
<1>4. CASE InitMmap
  BY <1>4 DEF InitMmap, Tables, Given, world, firmware, memory, paging
<1>5. CASE MergeEntry
  BY <1>5 DEF MergeEntry, world, firmware, memory, paging
<1>6. CASE EntriesMerged
  BY <1>6 DEF EntriesMerged, Tables, world, firmware, memory, paging
<1>7. CASE SetVirtualAddressMap
  BY <1>7 DEF SetVirtualAddressMap, Tables, Given, world, firmware, memory, paging
<1>8. CASE SetCr3
  BY <1>8 DEF SetCr3, Tables, Given, world, firmware, memory, paging
<1>9. CASE DoRelocations
  BY <1>9 DEF DoRelocations, Tables, Given, world, firmware, memory, paging
<1>10. CASE JumpToKernel
  BY <1>10 DEF JumpToKernel, Tables, world, firmware, memory, paging
<1>11. CASE Gone \/ UNCHANGED vars
  BY <1>11 DEF Gone, vars, memory
<1> QED BY <1>1, <1>2, <1>3, <1>4, <1>5, <1>6, <1>7, <1>8, <1>9, <1>10, <1>11

\* The steps of the loader and of the firmware.
LEMMA Steps ==
    ASSUME [Next]_vars
    PROVE  \/ FirmwareEvent \/ AllocateBootMemory \/ AcquirePreliminaryMap \/ LoadSegment
           \/ KernelLoaded \/ PrepareBootPageTables
           \/ ExitStatus \/ AcquireFinalMap \/ ExitBootServices \/ InitMmap
           \/ MergeEntry \/ EntriesMerged \/ SetVirtualAddressMap \/ SetCr3
           \/ DoRelocations \/ JumpToKernel \/ Gone \/ UNCHANGED vars
  BY Zenon DEF Next, Loader

\* No step takes from the loader what it owns.
LEMMA OwnersNext ==
    ASSUME OwnersInv, [Next]_vars
    PROVE  OwnersInv'
<1>1. CASE FirmwareEvent
  BY <1>1, OwnersFirmwareEvent
<1>2. CASE AllocateBootMemory
  BY <1>2, OwnersAllocateBootMemory
<1>3. CASE AcquirePreliminaryMap
  BY <1>3, OwnersAcquirePreliminaryMap
<1>4. CASE LoadSegment
  BY <1>4, OwnersLoadSegment
<1>5. CASE KernelLoaded
  BY <1>5, OwnersKernelLoaded
<1>6. CASE PrepareBootPageTables
  BY <1>6, OwnersPrepareBootPageTables
<1>7. CASE \/ ExitStatus \/ AcquireFinalMap \/ ExitBootServices \/ InitMmap
           \/ MergeEntry \/ EntriesMerged \/ SetVirtualAddressMap \/ SetCr3
           \/ DoRelocations \/ JumpToKernel \/ Gone \/ UNCHANGED vars
  <2>1. /\ UNCHANGED <<machine, image, ram, pool, memory, prelim, phdrs, tables>>
        /\ \/ phase' = phase \/ phase' \in Given
           \/ phase \in Tables /\ phase' \in Tables
    BY <1>7, Later
  <2>2. Tables \subseteq LoadedOn /\ LoadedOn \subseteq PrelimOn /\ PrelimOn \subseteq MemoryOn
    BY DEF LoadedOn, PrelimOn, MemoryOn
  <2> QED BY <2>1, <2>2, OwnersUnchanged
<1> QED BY <1>1, <1>2, <1>3, <1>4, <1>5, <1>6, <1>7, Steps, Zenon
-----------------------------------------------------------------------------
(***************************************************************************)
(* What the boot page tables translate.                                    *)
(***************************************************************************)
\* The tables of step 4, and the two bases in bootloader_data.
Paged(map, d, f, n, h, b, t) ==
    LET base == KERNEL_BASE - PaddrSize(map)
        R == RangesOf(map, d, f, n, h, base)
    IN  /\ b.paddr_base = base /\ b.mmio_base = base - MmioSize(map)
        /\ ~Remap(R) /\ t = Translated(R)

Fields(b) ==
    b = [paddr_base |-> b.paddr_base, mmio_base |-> b.mmio_base,
         MemoryMap |-> b.MemoryMap, NumEntries |-> b.NumEntries, RT |-> b.RT]

BdInv == Fields(bd)
PagingInv ==
    phase \in Tables => Paged(prelim, data, free_memory, machine.n_pages, phdrs, bd, boot)
PagedInv == BdInv /\ PagingInv

\* A change of fields leaves the others.
LEMMA FieldsExcept ==
    ASSUME NEW b, Fields(b), NEW x, NEW y
    PROVE  /\ [b EXCEPT !.paddr_base = x, !.mmio_base = y] =
                 [paddr_base |-> x, mmio_base |-> y,
                  MemoryMap |-> b.MemoryMap, NumEntries |-> b.NumEntries, RT |-> b.RT]
           /\ [b EXCEPT !.MemoryMap = x, !.NumEntries = y] =
                 [paddr_base |-> b.paddr_base, mmio_base |-> b.mmio_base,
                  MemoryMap |-> x, NumEntries |-> y, RT |-> b.RT]
           /\ [b EXCEPT !.MemoryMap = x] =
                 [paddr_base |-> b.paddr_base, mmio_base |-> b.mmio_base,
                  MemoryMap |-> x, NumEntries |-> b.NumEntries, RT |-> b.RT]
           /\ [b EXCEPT !.RT = x] =
                 [paddr_base |-> b.paddr_base, mmio_base |-> b.mmio_base,
                  MemoryMap |-> b.MemoryMap, NumEntries |-> b.NumEntries, RT |-> x]
<1> DEFINE p == b.paddr_base
           q == b.mmio_base
           m == b.MemoryMap
           n == b.NumEntries
           r == b.RT
<1>1. b = [paddr_base |-> p, mmio_base |-> q, MemoryMap |-> m, NumEntries |-> n, RT |-> r]
  BY DEF Fields
<1> HIDE DEF p, q, m, n, r
<1>2. [b EXCEPT !.paddr_base = x, !.mmio_base = y] =
         [paddr_base |-> x, mmio_base |-> y, MemoryMap |-> m, NumEntries |-> n, RT |-> r]
  <2> DEFINE c == [paddr_base |-> x, mmio_base |-> q, MemoryMap |-> m, NumEntries |-> n, RT |-> r]
  <2>1. [b EXCEPT !.paddr_base = x, !.mmio_base = y] = [[b EXCEPT !.paddr_base = x] EXCEPT !.mmio_base = y]
    OBVIOUS
  <2>2. [b EXCEPT !.paddr_base = x] = c
    BY <1>1
  <2>3. [c EXCEPT !.mmio_base = y] =
         [paddr_base |-> x, mmio_base |-> y, MemoryMap |-> m, NumEntries |-> n, RT |-> r]
    OBVIOUS
  <2> HIDE DEF c
  <2> QED BY <2>1, <2>2, <2>3
<1>3. [b EXCEPT !.MemoryMap = x, !.NumEntries = y] =
         [paddr_base |-> p, mmio_base |-> q, MemoryMap |-> x, NumEntries |-> y, RT |-> r]
  <2> DEFINE c == [paddr_base |-> p, mmio_base |-> q, MemoryMap |-> x, NumEntries |-> n, RT |-> r]
  <2>1. [b EXCEPT !.MemoryMap = x, !.NumEntries = y] = [[b EXCEPT !.MemoryMap = x] EXCEPT !.NumEntries = y]
    OBVIOUS
  <2>2. [b EXCEPT !.MemoryMap = x] = c
    BY <1>1
  <2>3. [c EXCEPT !.NumEntries = y] =
         [paddr_base |-> p, mmio_base |-> q, MemoryMap |-> x, NumEntries |-> y, RT |-> r]
    OBVIOUS
  <2> HIDE DEF c
  <2> QED BY <2>1, <2>2, <2>3
<1>4. [b EXCEPT !.MemoryMap = x] =
         [paddr_base |-> p, mmio_base |-> q, MemoryMap |-> x, NumEntries |-> n, RT |-> r]
  BY <1>1
<1>5. [b EXCEPT !.RT = x] =
         [paddr_base |-> p, mmio_base |-> q, MemoryMap |-> m, NumEntries |-> n, RT |-> x]
  BY <1>1
<1> QED BY <1>2, <1>3, <1>4, <1>5 DEF p, q, m, n, r

\* A change of the memory map.
LEMMA MemoryMapExcept ==
    ASSUME BdInv, NEW x, bd' = [bd EXCEPT !.MemoryMap = x]
    PROVE  /\ BdInv' /\ bd'.paddr_base = bd.paddr_base /\ bd'.mmio_base = bd.mmio_base
           /\ bd'.MemoryMap = x /\ bd'.NumEntries = bd.NumEntries /\ bd'.RT = bd.RT
<1>1. bd' = [paddr_base |-> bd.paddr_base, mmio_base |-> bd.mmio_base,
             MemoryMap |-> x, NumEntries |-> bd.NumEntries, RT |-> bd.RT]
  BY FieldsExcept DEF BdInv
<1> QED BY <1>1 DEF BdInv, Fields

\* Only step 4 sets the bases, and only later ones change the other fields.
LEMMA BasesKept ==
    ASSUME BdInv,
           \/ FirmwareEvent \/ AllocateBootMemory \/ AcquirePreliminaryMap \/ LoadSegment
           \/ KernelLoaded
           \/ ExitStatus \/ AcquireFinalMap \/ ExitBootServices \/ InitMmap
           \/ MergeEntry \/ EntriesMerged \/ SetVirtualAddressMap \/ SetCr3
           \/ DoRelocations \/ JumpToKernel \/ Gone \/ UNCHANGED vars
    PROVE  BdInv' /\ bd'.paddr_base = bd.paddr_base /\ bd'.mmio_base = bd.mmio_base
<1>1. CASE UNCHANGED bd
  BY <1>1 DEF BdInv
<1>2. CASE AcquireFinalMap
  <2> DEFINE map == GetMemoryMap(ram)
             x == map \o [i \in 1 .. CAPACITY - Len(map) |-> ZeroDescriptor]
  <2>1. bd' = [bd EXCEPT !.MemoryMap = x, !.NumEntries = Len(map)]
    BY <1>2 DEF AcquireFinalMap, FinalMap
  <2> HIDE DEF map, x
  <2>2. bd' = [paddr_base |-> bd.paddr_base, mmio_base |-> bd.mmio_base,
               MemoryMap |-> x, NumEntries |-> Len(map), RT |-> bd.RT]
    BY <2>1, FieldsExcept DEF BdInv
  <2> QED BY <2>2 DEF BdInv, Fields
<1>3. CASE InitMmap
  <2>1. CASE UNCHANGED bd
    BY <2>1, <1>1
  <2>2. CASE bd' = [bd EXCEPT !.MemoryMap[1].Type = "EfiUnusableMemory"]
    <3>1. bd' = [bd EXCEPT !.MemoryMap = [bd.MemoryMap EXCEPT ![1].Type = "EfiUnusableMemory"]]
      BY <2>2 DEF BdInv, Fields
    <3> QED BY <3>1, MemoryMapExcept
  <2> QED BY <1>3, <2>1, <2>2 DEF InitMmap
<1>4. CASE MergeEntry
  <2> DEFINE d == Reclaimed(bd.MemoryMap[cursor.next])
             prev == bd.MemoryMap[cursor.NewLength]
             n == prev.NumberOfPages + d.NumberOfPages
  <2>1. CASE bd' = [bd EXCEPT !.MemoryMap[cursor.next] = d,
                              !.MemoryMap[cursor.NewLength].NumberOfPages = n]
    <3> HIDE DEF d, n, prev
    <3>1. bd' = [bd EXCEPT !.MemoryMap =
                    [bd.MemoryMap EXCEPT ![cursor.next] = d, ![cursor.NewLength].NumberOfPages = n]]
      BY <2>1 DEF BdInv, Fields
    <3> QED BY <3>1, MemoryMapExcept
  <2>2. CASE bd' = [bd EXCEPT !.MemoryMap[cursor.next] = d,
                              !.MemoryMap[cursor.NewLength + 1] = d]
    <3> HIDE DEF d, n, prev
    <3>1. bd' = [bd EXCEPT !.MemoryMap =
                    [bd.MemoryMap EXCEPT ![cursor.next] = d, ![cursor.NewLength + 1] = d]]
      BY <2>2 DEF BdInv, Fields
    <3> QED BY <3>1, MemoryMapExcept
  <2> QED BY <1>4, <2>1, <2>2 DEF MergeEntry
<1>5. CASE EntriesMerged
  <2> DEFINE map == bd.MemoryMap
             x == [i \in DOMAIN map |->
                     IF i <= cursor.NewLength
                     THEN [map[i] EXCEPT !.VirtualStart = VirtualStart(map, i)] ELSE map[i]]
             y == cursor.NewLength
  <2>1. bd' = [bd EXCEPT !.MemoryMap = x, !.NumEntries = y]
    BY <1>5 DEF EntriesMerged
  <2> HIDE DEF map, x, y
  <2>2. bd' = [paddr_base |-> bd.paddr_base, mmio_base |-> bd.mmio_base,
               MemoryMap |-> x, NumEntries |-> y, RT |-> bd.RT]
    BY <2>1, FieldsExcept DEF BdInv
  <2> QED BY <2>2 DEF BdInv, Fields
<1>6. CASE SetVirtualAddressMap
  <2> DEFINE x == bd.paddr_base + machine.RT
  <2>1. bd' = [bd EXCEPT !.RT = x] \/ bd' = bd
    BY <1>6 DEF SetVirtualAddressMap
  <2> HIDE DEF x
  <2>2. CASE bd' = [bd EXCEPT !.RT = x]
    <3>1. bd' = [paddr_base |-> bd.paddr_base, mmio_base |-> bd.mmio_base,
                 MemoryMap |-> bd.MemoryMap, NumEntries |-> bd.NumEntries, RT |-> x]
      BY <2>2, FieldsExcept DEF BdInv
    <3> QED BY <3>1 DEF BdInv, Fields
  <2> QED BY <1>1, <2>1, <2>2
<1>7. CASE \/ FirmwareEvent \/ AllocateBootMemory \/ AcquirePreliminaryMap \/ LoadSegment
           \/ KernelLoaded \/ ExitStatus \/ ExitBootServices
  BY <1>7, <1>1 DEF FirmwareEvent, AllocateBootMemory, AcquirePreliminaryMap, LoadSegment,
                    KernelLoaded, ExitStatus, ExitBootServices
<1>8. CASE SetCr3 \/ DoRelocations \/ JumpToKernel \/ Gone \/ UNCHANGED vars
  BY <1>8, <1>1 DEF SetCr3, DoRelocations, JumpToKernel, Gone, vars
<1> QED BY <1>2, <1>3, <1>4, <1>5, <1>6, <1>7, <1>8

\* The boot page tables stay what step 4 made them.
LEMMA PagedNext ==
    ASSUME PagedInv, [Next]_vars
    PROVE  PagedInv'
<1>1. CASE \/ FirmwareEvent \/ AllocateBootMemory \/ AcquirePreliminaryMap \/ LoadSegment
           \/ KernelLoaded
  <2>1. BdInv' /\ bd'.paddr_base = bd.paddr_base /\ bd'.mmio_base = bd.mmio_base
    BY <1>1, BasesKept DEF PagedInv
  <2>2. \/ phase' \notin Tables
        \/ /\ phase' = phase /\ prelim' = prelim /\ machine' = machine /\ data' = data
           /\ free_memory' = free_memory /\ phdrs' = phdrs /\ boot' = boot /\ bd' = bd
    BY <1>1, Zenon DEF FirmwareEvent, AllocateBootMemory, AcquirePreliminaryMap, LoadSegment,
                KernelLoaded, Tables, world, memory, paging
  <2> QED BY <2>1, <2>2 DEF PagedInv, PagingInv
<1>2. CASE PrepareBootPageTables
  <2> DEFINE base == KERNEL_BASE - PaddrSize(prelim)
             R == RangesOf(prelim, data, free_memory, machine.n_pages, phdrs, base)
  <2>1. BootRanges(base) = R
    BY DEF BootRanges, RangesOf, FREE_PAGES
  <2>2. /\ bd' = [bd EXCEPT !.paddr_base = base, !.mmio_base = base - MmioSize(prelim)]
        /\ \/ phase' = "exit"
           \/ ~Remap(R) /\ boot' = Translated(R)
        /\ prelim' = prelim /\ machine' = machine /\ data' = data
        /\ free_memory' = free_memory /\ phdrs' = phdrs
    BY <1>2, <2>1 DEF PrepareBootPageTables, world, memory
  <2>3. BdInv' /\ bd'.paddr_base = base /\ bd'.mmio_base = base - MmioSize(prelim)
    <3> DEFINE low == base - MmioSize(prelim)
    <3>1. bd' = [bd EXCEPT !.paddr_base = base, !.mmio_base = low]
      BY <2>2
    <3> HIDE DEF base, low
    <3>2. bd' = [paddr_base |-> base, mmio_base |-> low,
                 MemoryMap |-> bd.MemoryMap, NumEntries |-> bd.NumEntries, RT |-> bd.RT]
      BY <3>1, FieldsExcept DEF PagedInv, BdInv
    <3>3. BdInv' /\ bd'.paddr_base = base /\ bd'.mmio_base = low
      BY <3>2 DEF BdInv, Fields
    <3> QED BY <3>3 DEF low
  <2>4. PagingInv'
    BY <2>2, <2>3 DEF PagingInv, Paged, Tables
  <2> QED BY <2>3, <2>4 DEF PagedInv
<1>3. CASE \/ ExitStatus \/ AcquireFinalMap \/ ExitBootServices \/ InitMmap
           \/ MergeEntry \/ EntriesMerged \/ SetVirtualAddressMap \/ SetCr3
           \/ DoRelocations \/ JumpToKernel \/ Gone \/ UNCHANGED vars
  <2>1. BdInv' /\ bd'.paddr_base = bd.paddr_base /\ bd'.mmio_base = bd.mmio_base
    BY <1>3, BasesKept, Zenon DEF PagedInv
  <2>2. /\ UNCHANGED <<machine, image, ram, pool, memory, prelim, phdrs, tables>>
        /\ UNCHANGED boot
        /\ \/ phase' = phase \/ phase' \in Given
           \/ phase \in Tables /\ phase' \in Tables
    BY <1>3, Later
  <2>3. Given \cap Tables = {}
    BY DEF Given, Tables
  <2>4. phase' \in Tables => phase \in Tables
    BY <2>2, <2>3
  <2> QED BY <2>1, <2>2, <2>4 DEF PagedInv, PagingInv, Paged, memory
<1> QED BY <1>1, <1>2, <1>3, Steps, Zenon

\* The ranges of step 4, one by one, and what they translate.
LEMMA BootPages ==
    ASSUME OwnersInv, PagedInv, phase \in Tables
    PROVE  /\ \A i \in 1 .. Len(prelim) : IsLoader(prelim[i]) =>
                 \A f \in Holds(prelim[i]) :
                    Reads(f, f) /\ boot[f].rw = (prelim[i].Type = "EfiLoaderData")
           /\ Writes(bd.paddr_base + data, data)
           /\ \A v \in free_memory .. free_memory + machine.n_pages - 1 :
                 Writes(bd.paddr_base + v, v)
           /\ \A i \in 1 .. Len(phdrs) : \A v \in Pages(KernelRange(phdrs[i])) :
                 Reads(v, phdrs[i].ppage + (v - phdrs[i].vpage)) /\ boot[v].rw = phdrs[i].writable
           /\ \A v \in DOMAIN boot :
                 \/ v \in {bd.paddr_base + data}
                          \cup bd.paddr_base + free_memory
                               .. bd.paddr_base + free_memory + machine.n_pages - 1
                 \/ \E i \in 1 .. Len(prelim) : IsLoader(prelim[i]) /\ v \in Holds(prelim[i])
                 \/ \E i \in 1 .. Len(phdrs) : v \in Pages(KernelRange(phdrs[i]))
<1> DEFINE base == KERNEL_BASE - PaddrSize(prelim)
           n == machine.n_pages
           R == RangesOf(prelim, data, free_memory, n, phdrs, base)
           k == Len(prelim)
<1>1. /\ World /\ RamInv /\ Headers(phdrs, image.phdrs)
      /\ Preliminary(prelim, machine, Pages4)
      /\ BootMemory(ram, pool, new_stack, data, free_memory, machine.n_pages)
  BY DEF OwnersInv, HeadersInv, PrelimInv, MemoryInv, MemoryOn, PrelimOn, LoadedOn
<1>2. bd.paddr_base = base /\ ~Remap(R) /\ boot = Translated(R)
  BY DEF PagedInv, PagingInv, Paged
<1>3. prelim \in Seq(Descriptor)
  BY <1>1, WorldFacts, PrelimFacts
<1>4. phdrs \in Seq(Phdr) /\ n \in Nat /\ data \in Nat /\ free_memory \in Nat
  BY <1>1, RamFacts DEF Headers, BootMemory
<1>5. base \in Int
  BY <1>3, PaddrSizeType, BootLoaderAssumption DEF VPage
<1> HIDE DEF n, base
<1>6. /\ R \in Seq(Run) /\ Len(R) = k + 2 + Len(phdrs)
      /\ \A i \in 1 .. k : R[i] = IdentityRange(prelim[i])
      /\ R[k + 1] = PageRange(data, base + data, 1, TRUE)
      /\ R[k + 2] = PageRange(free_memory, base + free_memory, n, TRUE)
      /\ \A i \in 1 .. Len(phdrs) : R[k + 2 + i] = KernelRange(phdrs[i])
  <2>1. n \in Int /\ data \in Int /\ free_memory \in Int
    BY <1>4
  <2>2. RangesAre(RangesOf(prelim, data, free_memory, n, phdrs, base),
                  prelim, data, free_memory, n, phdrs, base)
    BY <1>3, <1>4, <1>5, <2>1, RangesOfProperties
  <2>3. RangesAre(R, prelim, data, free_memory, n, phdrs, base)
    BY <2>2
  <2> HIDE DEF R
  <2> QED BY <2>3 DEF RangesAre
<1> HIDE DEF R
<1>7. k \in Nat /\ Len(phdrs) \in Nat /\ DOMAIN R = 1 .. k + 2 + Len(phdrs)
  BY <1>3, <1>4, <1>6
<1> HIDE DEF k
<1>8. ASSUME NEW i \in 1 .. k + 2 + Len(phdrs), NEW v \in Pages(R[i])
      PROVE  Reads(v, R[i].ppage + (v - R[i].vpage)) /\ boot[v].rw = R[i].rw
  BY <1>2, <1>7, TranslatedAsRange DEF Reads
<1>9. ASSUME NEW i \in 1 .. k, IsLoader(prelim[i]), NEW f \in Holds(prelim[i])
      PROVE  Reads(f, f) /\ boot[f].rw = (prelim[i].Type = "EfiLoaderData")
  <2>1. /\ R[i].ppage = prelim[i].PhysicalStart /\ R[i].vpage = prelim[i].PhysicalStart
        /\ R[i].n = prelim[i].NumberOfPages /\ R[i].rw = (prelim[i].Type = "EfiLoaderData")
    <3>1. R[i] = IdentityRange(prelim[i])
      BY <1>6
    <3>2. R[i] = [ppage |-> prelim[i].PhysicalStart, vpage |-> prelim[i].PhysicalStart,
                  n |-> prelim[i].NumberOfPages, rw |-> prelim[i].Type = "EfiLoaderData"]
      BY <1>9, <3>1 DEF IdentityRange, PageRange
    <3> QED BY <3>2
  <2>2. f \in Pages(R[i])
    BY <2>1 DEF Pages, Holds
  <2>3. i \in 1 .. k + 2 + Len(phdrs)
    BY <1>7
  <2>4. Reads(f, R[i].ppage + (f - R[i].vpage)) /\ boot[f].rw = R[i].rw
    BY <1>8, <2>2, <2>3
  <2>5. prelim[i] \in Descriptor
    BY <1>3, <1>7 DEF k
  <2>6. prelim[i].PhysicalStart \in Nat
    BY <2>5 DEF Descriptor
  <2>7. prelim[i].PhysicalStart + (f - prelim[i].PhysicalStart) = f
    BY <2>6 DEF Holds
  <2> QED BY <2>1, <2>4, <2>7
<1>10. k + 1 \in 1 .. k + 2 + Len(phdrs) /\ k + 2 \in 1 .. k + 2 + Len(phdrs)
       /\ \A i \in 1 .. Len(phdrs) : k + 2 + i \in 1 .. k + 2 + Len(phdrs)
  BY <1>7
<1>11. Writes(base + data, data)
  <2>1. R[k + 1].ppage = data /\ R[k + 1].vpage = base + data /\ R[k + 1].n = 1
        /\ R[k + 1].rw = TRUE
    BY <1>6 DEF PageRange
  <2>2. base + data \in Pages(R[k + 1]) /\ data + ((base + data) - (base + data)) = data
    BY <1>4, <1>5, <2>1 DEF Pages
  <2>3. Reads(base + data, data + ((base + data) - (base + data)))
        /\ boot[base + data].rw = TRUE
    BY <1>8, <1>10, <2>1, <2>2
  <2> QED BY <2>2, <2>3 DEF Writes
<1>12. ASSUME NEW v \in free_memory .. free_memory + n - 1
       PROVE  Writes(base + v, v)
  <2>1. R[k + 2].ppage = free_memory /\ R[k + 2].vpage = base + free_memory /\ R[k + 2].n = n
        /\ R[k + 2].rw = TRUE
    BY <1>6 DEF PageRange
  <2>2. base + v \in Pages(R[k + 2])
        /\ free_memory + ((base + v) - (base + free_memory)) = v
    <3>1. Pages(R[k + 2]) = base + free_memory .. base + free_memory + n - 1
      BY <2>1 DEF Pages
    <3>2. v \in Int /\ free_memory <= v /\ v <= free_memory + n - 1
      BY <1>4
    <3>3. base + v \in base + free_memory .. base + free_memory + n - 1
          /\ free_memory + ((base + v) - (base + free_memory)) = v
      BY <1>4, <1>5, <3>2
    <3> QED BY <3>1, <3>3
  <2>3. Reads(base + v, free_memory + ((base + v) - (base + free_memory)))
        /\ boot[base + v].rw = TRUE
    BY <1>8, <1>10, <2>1, <2>2
  <2> QED BY <2>2, <2>3 DEF Writes
<1>13. ASSUME NEW i \in 1 .. Len(phdrs), NEW v \in Pages(KernelRange(phdrs[i]))
       PROVE  Reads(v, phdrs[i].ppage + (v - phdrs[i].vpage)) /\ boot[v].rw = phdrs[i].writable
  <2>1. R[k + 2 + i] = KernelRange(phdrs[i]) /\ k + 2 + i \in 1 .. k + 2 + Len(phdrs)
    BY <1>6, <1>10
  <2>2. Reads(v, KernelRange(phdrs[i]).ppage + (v - KernelRange(phdrs[i]).vpage))
        /\ boot[v].rw = KernelRange(phdrs[i]).rw
    BY <1>8, <2>1
  <2> QED BY <2>2 DEF KernelRange, PageRange
<1>14. ASSUME NEW v \in DOMAIN boot
       PROVE  \/ v \in {base + data} \cup base + free_memory .. base + free_memory + n - 1
              \/ \E i \in 1 .. k : IsLoader(prelim[i]) /\ v \in Holds(prelim[i])
              \/ \E i \in 1 .. Len(phdrs) : v \in Pages(KernelRange(phdrs[i]))
  <2>1. PICK i \in DOMAIN R : v \in Pages(R[i])
    BY <1>2 DEF Translated, AllPages
  <2>2. CASE i \in 1 .. k
    <3>1. R[i] = IdentityRange(prelim[i]) /\ prelim[i] \in Descriptor
      BY <1>3, <1>6, <2>2 DEF k
    <3>2. prelim[i].PhysicalStart \in Nat
      BY <3>1 DEF Descriptor
    <3>3. v \in prelim[i].PhysicalStart .. prelim[i].PhysicalStart
                 + (IF IsLoader(prelim[i]) THEN prelim[i].NumberOfPages ELSE 0) - 1
      BY <2>1, <3>1 DEF IdentityRange, PageRange, Pages
    <3>4. IsLoader(prelim[i])
      BY <3>2, <3>3
    <3> QED BY <2>2, <3>3, <3>4 DEF Holds
  <2>3. CASE i = k + 1
    <3>1. v \in base + data .. base + data + 1 - 1
      BY <1>6, <2>1, <2>3 DEF PageRange, Pages
    <3>2. v = base + data
      BY <1>4, <1>5, <3>1
    <3> QED BY <3>2
  <2>4. CASE i = k + 2
    <3>1. v \in base + free_memory .. base + free_memory + n - 1
      BY <1>6, <2>1, <2>4 DEF PageRange, Pages
    <3> QED BY <3>1
  <2>5. CASE i \in k + 3 .. k + 2 + Len(phdrs)
    <3>1. i - (k + 2) \in 1 .. Len(phdrs) /\ k + 2 + (i - (k + 2)) = i
      BY <1>7, <2>5
    <3>2. R[i] = KernelRange(phdrs[i - (k + 2)])
      BY <1>6, <3>1
    <3> QED BY <2>1, <3>1, <3>2
  <2>6. i \in 1 .. k \/ i = k + 1 \/ i = k + 2 \/ i \in k + 3 .. k + 2 + Len(phdrs)
    BY <1>7
  <2> QED BY <2>2, <2>3, <2>4, <2>5, <2>6
<1>15. \A i \in 1 .. k : IsLoader(prelim[i]) =>
          \A f \in Holds(prelim[i]) :
             Reads(f, f) /\ boot[f].rw = (prelim[i].Type = "EfiLoaderData")
  BY <1>9
<1>16. \A i \in 1 .. Len(phdrs) : \A v \in Pages(KernelRange(phdrs[i])) :
          Reads(v, phdrs[i].ppage + (v - phdrs[i].vpage)) /\ boot[v].rw = phdrs[i].writable
  BY <1>13
<1> QED BY <1>2, <1>11, <1>12, <1>14, <1>15, <1>16 DEF k, n

\* The first segment holds the ELF header and is at the kernel's base.
LEMMA FirstSegment ==
    ASSUME OwnersInv, phase \in LoadedOn
    PROVE  /\ 1 \in 1 .. Len(phdrs) /\ phdrs[1].vpage = KERNEL_BASE
           /\ KERNEL_BASE \in Pages(KernelRange(phdrs[1]))
<1>1. /\ World /\ Headers(phdrs, image.phdrs) /\ Len(phdrs) = Len(image.phdrs)
      /\ image.phdrs[1].p_type = "PT_LOAD" /\ image.phdrs[1].first
  BY DEF OwnersInv, HeadersInv
<1>2. Linked(image)
  BY <1>1, WorldFacts
<1>3. image.phdrs \in Seq(FilePhdr) /\ image.phdrs # << >>
  BY <1>2 DEF Linked, Image
<1>4. 1 \in 1 .. Len(image.phdrs) /\ 1 \in DOMAIN image.phdrs
  BY <1>3
<1>5. image.phdrs[1].vpage = 0 /\ image.phdrs[1].offset = 0 /\ image.phdrs[1].p_memsz > 0
      /\ image.phdrs[1].p_memsz \in Nat
  <2> DEFINE h == image.phdrs[1]
  <2>1. h.p_type = "PT_LOAD" /\ h.first => h.vpage = 0 /\ h.offset = 0 /\ h.p_memsz > 0
    BY <1>2, <1>4 DEF Linked
  <2>2. h \in FilePhdr
    BY <1>3, <1>4
  <2>3. h.p_memsz \in Nat
    BY <2>2 DEF FilePhdr
  <2>4. h.p_type = "PT_LOAD" /\ h.first
    BY <1>1, Zenon
  <2> HIDE DEF h
  <2>5. h.vpage = 0 /\ h.offset = 0 /\ h.p_memsz > 0
    BY <2>1, <2>4, Zenon
  <2> QED BY <2>3, <2>5 DEF h
<1>6. /\ phdrs[1].p_type = "PT_LOAD" /\ phdrs[1].vpage = 0 + KERNEL_BASE
      /\ phdrs[1].offset = 0 /\ phdrs[1].p_memsz = image.phdrs[1].p_memsz
  BY <1>1, <1>4, <1>5 DEF Headers, Alike
<1>7. KERNEL_BASE \in Nat
  BY BootLoaderAssumption, PagingAssumption DEF VPage
<1>8. NUM_PAGES(0, phdrs[1].p_memsz) \in Nat /\ NUM_PAGES(0, phdrs[1].p_memsz) > 0
  <2>1. 0 \in 0 .. PAGE_SIZE - 1
    BY PagingAssumption
  <2> QED BY <1>5, <1>6, <2>1, SegmentPages
<1>9. Pages(KernelRange(phdrs[1])) = KERNEL_BASE .. KERNEL_BASE + NUM_PAGES(0, phdrs[1].p_memsz) - 1
  BY <1>6, <1>7 DEF Pages, KernelRange, PageRange
<1> QED BY <1>1, <1>4, <1>6, <1>7, <1>8, <1>9

\* Steps 8 and 9 find what they need.
LEMMA SwitchFinds ==
    ASSUME OwnersInv, PagedInv, phase \in Tables
    PROVE  SwitchWorks
<1>1. /\ World /\ phase \in LoadedOn
      /\ Preliminary(prelim, machine, Pages4)
      /\ BootMemory(ram, pool, new_stack, data, free_memory, machine.n_pages)
  BY DEF OwnersInv, PrelimInv, MemoryInv, MemoryOn, PrelimOn, LoadedOn
<1>2. Machine(machine)
  BY <1>1, WorldFacts
<1>3. ASSUME NEW f \in LoaderCode PROVE Reads(f, f)
  <2>1. PICK i \in 1 .. Len(prelim) : prelim[i].Type = "EfiLoaderCode" /\ f \in Holds(prelim[i])
    BY <1>1, <1>2, PrelimFacts DEF LoaderCode
  <2>2. IsLoader(prelim[i])
    BY <2>1 DEF IsLoader
  <2> QED BY <2>1, <2>2, BootPages
<1>4. ASSUME NEW f \in Pages4 PROVE Writes(f, f)
  <2>1. PICK i \in 1 .. Len(prelim) : prelim[i].Type = "EfiLoaderData" /\ f \in Holds(prelim[i])
    BY <1>1, <1>2, PrelimFacts
  <2>2. IsLoader(prelim[i])
    BY <2>1 DEF IsLoader
  <2> QED BY <2>1, <2>2, BootPages DEF Writes
<1>5. new_stack \in Pages4 /\ data \in Pages4
  <2>1. data \in Nat
    BY <1>1 DEF BootMemory
  <2> QED BY <2>1 DEF Pages4, LoaderPages
<1>6. Writes(Handed.self, data)
  BY BootPages DEF Handed
<1>7. Reads(KERNEL_BASE, phdrs[1].ppage)
  <2>1. /\ 1 \in 1 .. Len(phdrs) /\ phdrs[1].vpage = KERNEL_BASE
        /\ KERNEL_BASE \in Pages(KernelRange(phdrs[1]))
    BY <1>1, FirstSegment
  <2>2. Reads(KERNEL_BASE, phdrs[1].ppage + (KERNEL_BASE - KERNEL_BASE))
    BY <2>1, BootPages
  <2>3. phdrs \in Seq(Phdr)
    BY DEF OwnersInv, HeadersInv, Headers
  <2>4. phdrs[1] \in Phdr
    BY <2>1, <2>3
  <2>5. phdrs[1].ppage \in Nat /\ KERNEL_BASE \in Nat
    BY <2>4, BootLoaderAssumption, PagingAssumption DEF Phdr, VPage
  <2>6. phdrs[1].ppage + (KERNEL_BASE - KERNEL_BASE) = phdrs[1].ppage
    BY <2>5
  <2> QED BY <2>2, <2>6
<1> QED BY <1>3, <1>4, <1>5, <1>6, <1>7 DEF SwitchWorks, Writes

\* The loop of do_relocations goes over the relocations there are.
LEMMA RelasInImage ==
    ASSUME World
    PROVE  /\ Relas = DOMAIN image.relas
           /\ \A k \in Relas : k \in Nat
<1>1. Linked(image)
  BY WorldFacts
<1>2. image.relas \in Seq(Rela) /\ image.dynamic \in Seq(Dyn)
  BY <1>1 DEF Linked, Image
<1> DEFINE n == Len(image.relas)
           T == Tagged("DT_RELASZ")
<1>3. n \in Nat /\ DOMAIN image.relas = 1 .. n
  BY <1>2
<1>4. T \subseteq DOMAIN image.dynamic /\ \A k \in T : image.dynamic[k].d_tag = "DT_RELASZ"
  BY DEF Tagged
<1>5. T # {} => Max(T) \in T
  <2>1. Len(image.dynamic) \in Nat /\ DOMAIN image.dynamic = 1 .. Len(image.dynamic)
    BY <1>2
  <2>2. IsFiniteSet(1 .. Len(image.dynamic))
    BY <2>1, FS_Interval
  <2>3. T \in SUBSET (1 .. Len(image.dynamic))
    BY <1>4, <2>1
  <2>4. T \in SUBSET Nat
    <3> HIDE DEF T
    <3> QED BY <2>1, <2>3
  <2>5. IsFiniteSet(T)
    <3> DEFINE U == 1 .. Len(image.dynamic)
    <3>1. IsFiniteSet(U) /\ T \in SUBSET U
      BY <2>2, <2>3
    <3> HIDE DEF T, U
    <3> QED BY <3>1, FS_Subset
  <2> HIDE DEF T
  <2> QED BY <2>4, <2>5, MaxProperties
<1>6. T # {} => DynVal("DT_RELASZ") = n
  <2> SUFFICES ASSUME T # {} PROVE DynVal("DT_RELASZ") = n
    OBVIOUS
  <2>1. Max(T) \in DOMAIN image.dynamic /\ image.dynamic[Max(T)].d_tag = "DT_RELASZ"
    <3> HIDE DEF T
    <3> QED BY <1>4, <1>5
  <2>2. image.dynamic[Max(T)].d_val = n
    <3> DEFINE i == Max(T)
    <3> HIDE DEF i
    <3>1. i \in DOMAIN image.dynamic /\ image.dynamic[i].d_tag = "DT_RELASZ"
      BY <2>1 DEF i
    <3>2. image.dynamic[i].d_val = n
      BY <1>1, <3>1 DEF Linked
    <3> QED BY <3>2 DEF i
  <2> QED BY <2>2 DEF DynVal
<1>7. T = {} => DynVal("DT_RELASZ") = 0
  BY DEF DynVal
<1>8. n # 0 => Tagged("DT_RELA") # {} /\ T # {}
  <2> SUFFICES ASSUME n # 0 PROVE Tagged("DT_RELA") # {} /\ T # {}
    OBVIOUS
  <2>1. image.relas # << >>
    BY <1>2
  <2>2. {"DT_RELA", "DT_RELASZ"} \subseteq {image.dynamic[k].d_tag : k \in DOMAIN image.dynamic}
    BY <1>1, <2>1 DEF Linked
  <2> QED BY <2>2 DEF Tagged
<1> HIDE DEF T, n
<1>9. Relas = 1 .. n
  <2>1. CASE n = 0
    <3>1. DynVal("DT_RELASZ") = 0
      BY <1>6, <1>7, <2>1
    <3>2. 1 .. 0 = {}
      OBVIOUS
    <3> QED BY <2>1, <3>1, <3>2 DEF Relas
  <2>2. CASE n # 0
    BY <1>6, <1>8, <2>2 DEF Relas
  <2> QED BY <2>1, <2>2
<1> QED BY <1>3, <1>9

\* Step 10 can write every word it relocates.
LEMMA RelocatesWritable ==
    ASSUME OwnersInv, PagedInv, phase \in Tables, NEW k \in Obstacles
    PROVE  ~image.relas[k].relative
<1>1. /\ World /\ Headers(phdrs, image.phdrs) /\ Len(phdrs) = Len(image.phdrs)
  BY DEF OwnersInv, HeadersInv, LoadedOn
<1>2. Linked(image) /\ k \in DOMAIN image.relas
  BY <1>1, WorldFacts, RelasInImage DEF Obstacles
<1>3. image.phdrs \in Seq(FilePhdr) /\ image.relas \in Seq(Rela)
  BY <1>2 DEF Linked, Image
<1> SUFFICES ASSUME image.relas[k].relative PROVE FALSE
  OBVIOUS
<1> DEFINE w == image.relas[k].vpage
<1>4. w \in Nat
  <2>1. image.relas[k] \in Rela
    BY <1>2, <1>3
  <2> QED BY <2>1 DEF Rela
<1>5. PICK i \in DOMAIN image.phdrs :
          /\ image.phdrs[i].p_type = "PT_LOAD" /\ image.phdrs[i].writable
          /\ w \in image.phdrs[i].vpage .. image.phdrs[i].vpage
                   + NUM_PAGES(image.phdrs[i].offset, image.phdrs[i].p_memsz) - 1
  BY <1>2 DEF Linked
<1>6. i \in 1 .. Len(phdrs) /\ image.phdrs[i] \in FilePhdr
  BY <1>1, <1>3
<1>7. /\ phdrs[i].p_type = "PT_LOAD" /\ phdrs[i].writable = image.phdrs[i].writable
      /\ phdrs[i].vpage = image.phdrs[i].vpage + KERNEL_BASE
      /\ phdrs[i].offset = image.phdrs[i].offset /\ phdrs[i].p_memsz = image.phdrs[i].p_memsz
  BY <1>1, <1>5, <1>6 DEF Headers, Alike
<1> DEFINE h == image.phdrs[i]
           n == NUM_PAGES(h.offset, h.p_memsz)
<1>8. n \in Nat /\ h.vpage \in Nat
  <2>1. h.offset \in 0 .. PAGE_SIZE - 1 /\ h.p_memsz \in Nat /\ h.vpage \in Nat
    BY <1>6 DEF FilePhdr
  <2> QED BY <2>1, SegmentPages
<1>9. KERNEL_BASE \in Nat
  BY BootLoaderAssumption, PagingAssumption DEF VPage
<1>10. w \in h.vpage .. h.vpage + n - 1
  BY <1>5
<1>11. Pages(KernelRange(phdrs[i])) = h.vpage + KERNEL_BASE .. h.vpage + KERNEL_BASE + n - 1
  BY <1>7 DEF Pages, KernelRange, PageRange
<1> HIDE DEF n, h, w
<1>12. KERNEL_BASE + w \in Pages(KernelRange(phdrs[i]))
  BY <1>4, <1>8, <1>9, <1>10, <1>11
<1>13. KERNEL_BASE + w \in DOMAIN boot /\ boot[KERNEL_BASE + w].rw = image.phdrs[i].writable
  BY <1>6, <1>7, <1>12, BootPages DEF Reads
<1>14. boot[KERNEL_BASE + w].rw
  BY <1>5, <1>13, Zenon
<1> QED BY <1>13, <1>14, Zenon DEF Obstacles, w

\* No page fault, and no relocation is left out.
FaultInv ==
    /\ NeverFaults
    /\ phase \in {"jump", "kernel"} => relocated = DOMAIN image.relas

\* Neither the switch nor a relocation faults.
LEMMA FaultNext ==
    ASSUME OwnersInv, PagedInv, FaultInv, [Next]_vars
    PROVE  FaultInv'
<1>1. CASE SetCr3
  <2>1. phase \in Tables
    BY <1>1 DEF SetCr3, Tables
  <2>2. phase' = "relocate"
    BY <1>1, <2>1, SwitchFinds DEF SetCr3
  <2> QED BY <2>2 DEF FaultInv, NeverFaults
<1>2. CASE DoRelocations
  <2>1. phase \in Tables /\ World /\ image' = image
    BY <1>2 DEF DoRelocations, Tables, OwnersInv, world
  <2>2. CASE phase' = "halt"
    BY <2>2 DEF FaultInv, NeverFaults
  <2>3. CASE /\ Obstacles # {}
             /\ phase' = IF image.relas[Min(Obstacles)].relative THEN "fault" ELSE "halt"
    <3>1. Obstacles \in SUBSET Nat
      BY <2>1, RelasInImage DEF Obstacles
    <3>2. Min(Obstacles) \in Obstacles
      BY <2>3, <3>1, MinProperties
    <3>3. ~image.relas[Min(Obstacles)].relative
      BY <2>1, <3>2, RelocatesWritable
    <3>4. phase' = "halt"
      BY <2>3, <3>3, Zenon
    <3> QED BY <3>4 DEF FaultInv, NeverFaults
  <2>4. CASE relocated' = Relas /\ phase' = "jump"
    BY <2>1, <2>4, RelasInImage DEF FaultInv, NeverFaults
  <2> QED BY <1>2, <2>2, <2>3, <2>4, Zenon DEF DoRelocations
<1>3. CASE JumpToKernel
  BY <1>3 DEF JumpToKernel, FaultInv, NeverFaults, world
<1>4. CASE \/ FirmwareEvent \/ AllocateBootMemory \/ AcquirePreliminaryMap \/ LoadSegment
           \/ KernelLoaded \/ PrepareBootPageTables
  <2>1. phase' # "fault" /\ phase' \notin {"jump", "kernel"}
    <3>1. CASE FirmwareEvent
      BY <3>1 DEF FirmwareEvent, BootServices
    <3>2. CASE KernelLoaded
      BY <3>2 DEF KernelLoaded
    <3>3. CASE AllocateBootMemory \/ AcquirePreliminaryMap \/ LoadSegment \/ PrepareBootPageTables
      BY <3>3 DEF AllocateBootMemory, AcquirePreliminaryMap, LoadSegment, PrepareBootPageTables
    <3> QED BY <1>4, <3>1, <3>2, <3>3
  <2> QED BY <2>1 DEF FaultInv, NeverFaults
<1>5. CASE \/ ExitStatus \/ AcquireFinalMap \/ ExitBootServices \/ InitMmap
           \/ MergeEntry \/ EntriesMerged \/ SetVirtualAddressMap
  <2>1. phase' # "fault" /\ phase' \notin {"jump", "kernel"}
    BY <1>5 DEF ExitStatus, AcquireFinalMap, ExitBootServices, InitMmap, MergeEntry,
                EntriesMerged, SetVirtualAddressMap
  <2> QED BY <2>1 DEF FaultInv, NeverFaults
<1>6. CASE Gone \/ UNCHANGED vars
  BY <1>6 DEF Gone, vars, FaultInv, NeverFaults
<1> QED BY <1>1, <1>2, <1>3, <1>4, <1>5, <1>6, Steps, Zenon

\* The inductive invariant so far.
LoaderInv == OwnersInv /\ PagedInv /\ FaultInv

\* The loader starts with nothing of its own.
LEMMA LoaderInit ==
    ASSUME Init
    PROVE  LoaderInv
<1>1. PagedInv
  <2>1. BdInv
    BY DEF Init, BdInv, Fields
  <2>2. PagingInv
    BY DEF Init, PagingInv, Tables
  <2> QED BY <2>1, <2>2 DEF PagedInv
<1>2. FaultInv
  BY DEF Init, FaultInv, NeverFaults
<1> QED BY <1>1, <1>2, OwnersInit DEF LoaderInv

\* Every step keeps all three parts.
LEMMA LoaderNext ==
    ASSUME LoaderInv, [Next]_vars
    PROVE  LoaderInv'
<1>1. OwnersInv /\ PagedInv /\ FaultInv
  BY DEF LoaderInv
<1>2. OwnersInv' /\ PagedInv' /\ FaultInv'
  BY <1>1, OwnersNext, PagedNext, FaultNext
<1> QED BY <1>2 DEF LoaderInv

\* The steps of both programs are, for the loader, its own.
LEMMA BootRefines ==
    /\ BootInit => Init
    /\ [BootNext]_<<vars, kernel>> => [Next]_vars
<1>1. BootInit => Init
  BY DEF BootInit
<1>2. ASSUME BootNext PROVE [Next]_vars
  <2>1. CASE LoaderStep
    BY <2>1 DEF LoaderStep, Next
  <2>2. CASE FirmwareStep
    BY <2>2 DEF FirmwareStep, Next
  <2>3. CASE EnterKernel
    BY <2>3 DEF EnterKernel, Next, Loader
  <2>4. CASE KernelStep
    BY <2>4 DEF KernelStep
  <2>5. CASE NoKernel
    BY <2>5 DEF NoKernel
  <2> QED BY <1>2, <2>1, <2>2, <2>3, <2>4, <2>5, Zenon DEF BootNext
<1>3. UNCHANGED <<vars, kernel>> => UNCHANGED vars
  OBVIOUS
<1> QED BY <1>1, <1>2, <1>3, Zenon

\* Steps 8 to 10 find the loader's code, the stack, bootloader_data at its old and
\* at its new address, the ELF headers and every word that is relocated, whatever
\* the firmware did: SetCr3 and DoRelocations never fault, with the loader alone
\* and with the kernel behind it.
THEOREM LoaderNeverFaults ==
    /\ Spec => []NeverFaults
    /\ BootSpec => []NeverFaults
<1>1. LoaderInv => NeverFaults
  BY DEF LoaderInv, FaultInv
<1>2. Spec => []NeverFaults
  BY <1>1, LoaderInit, LoaderNext, PTL DEF Spec
<1>3. BootSpec => []NeverFaults
  BY <1>1, LoaderInit, LoaderNext, BootRefines, PTL DEF BootSpec
<1> QED BY <1>2, <1>3

\* do_relocations leaves no relocation of the kernel out, and jump_to_kernel is
\* reached in no other way.
THEOREM LoaderRelocates ==
    /\ Spec => []RelocatedAtEntry
    /\ BootSpec => []RelocatedAtEntry
<1>1. LoaderInv => RelocatedAtEntry
  BY DEF LoaderInv, FaultInv, RelocatedAtEntry
<1>2. Spec => []RelocatedAtEntry
  BY <1>1, LoaderInit, LoaderNext, PTL DEF Spec
<1>3. BootSpec => []RelocatedAtEntry
  BY <1>1, LoaderInit, LoaderNext, BootRefines, PTL DEF BootSpec
<1> QED BY <1>2, <1>3
-----------------------------------------------------------------------------
(***************************************************************************)
(* The size of the memory mapped I/O.                                      *)
(***************************************************************************)
\* That of the entries S of a map.
MmioPart(map, i) == {i} \X (0 .. MmioPages(map[i]) - 1)
MmioPairs(map, S) == UNION {MmioPart(map, i) : i \in S}
MmioSum(map, S) == Cardinality(MmioPairs(map, S))

\* It is a number, and no smaller for more entries.
LEMMA MmioSumType ==
    ASSUME NEW map, NEW S, IsFiniteSet(S), \A i \in S : MmioPages(map[i]) \in Nat
    PROVE  /\ IsFiniteSet(MmioPairs(map, S)) /\ MmioSum(map, S) \in Nat
           /\ \A T \in SUBSET S : MmioSum(map, T) \in Nat /\ MmioSum(map, T) <= MmioSum(map, S)
<1>1. ASSUME NEW i \in S PROVE IsFiniteSet(MmioPart(map, i))
  <2> DEFINE p == MmioPages(map[i])
             T == 0 .. p - 1
  <2>1. IsFiniteSet(T)
    <3>1. p \in Nat
      OBVIOUS
    <3> HIDE DEF p
    <3> QED BY <3>1, FS_Interval
  <2>2. IsFiniteSet({i})
    BY FS_Singleton
  <2> HIDE DEF T
  <2>3. IsFiniteSet({i} \X T)
    BY <2>1, <2>2, FS_Product
  <2> QED BY <2>3 DEF MmioPart, p, T
<1> DEFINE family == {MmioPart(map, i) : i \in S}
           g == [i \in S |-> MmioPart(map, i)]
<1>2. g \in Surjection(S, family)
  BY DEF Surjection
<1>3. \A T \in family : IsFiniteSet(T)
  BY <1>1
<1>4. IsFiniteSet(family)
  <2> HIDE DEF g, family
  <2> QED BY <1>2, FS_Surjection
<1>5. IsFiniteSet(UNION family)
  <2> HIDE DEF family
  <2> QED BY <1>3, <1>4, FS_UNION
<1>6. IsFiniteSet(MmioPairs(map, S))
  BY <1>5 DEF MmioPairs
<1>7. MmioSum(map, S) \in Nat
  BY <1>6, FS_CardinalityType DEF MmioSum
<1>8. ASSUME NEW T \in SUBSET S
      PROVE  MmioSum(map, T) \in Nat /\ MmioSum(map, T) <= MmioSum(map, S)
  <2>1. MmioPairs(map, T) \subseteq MmioPairs(map, S)
    BY DEF MmioPairs
  <2>2. IsFiniteSet(MmioPairs(map, T)) /\ MmioSum(map, T) <= MmioSum(map, S)
    BY <1>6, <2>1, FS_Subset DEF MmioSum
  <2> QED BY <2>2, FS_CardinalityType DEF MmioSum
<1> QED BY <1>6, <1>7, <1>8

\* Entry by entry.
LEMMA MmioSumAdd ==
    ASSUME NEW map, NEW S, IsFiniteSet(S), NEW k, k \notin S,
           \A i \in S \cup {k} : MmioPages(map[i]) \in Nat
    PROVE  MmioSum(map, S \cup {k}) = MmioSum(map, S) + MmioPages(map[k])
<1> DEFINE A == MmioPairs(map, S)
           p == MmioPages(map[k])
           T == 0 .. p - 1
           B == MmioPart(map, k)
<1>1. MmioPairs(map, S \cup {k}) = A \cup B
  BY DEF MmioPairs
<1>2. A \cap B = {}
  <2>1. \A x \in A : x[1] \in S
    BY DEF MmioPairs, MmioPart
  <2>2. \A x \in B : x[1] = k
    BY DEF MmioPart
  <2> QED BY <2>1, <2>2
<1>3. IsFiniteSet(A)
  <2>1. \A i \in S : MmioPages(map[i]) \in Nat
    OBVIOUS
  <2> QED BY <2>1, MmioSumType
<1>4. IsFiniteSet(B) /\ Cardinality(B) = p
  <2>1. p \in Nat
    OBVIOUS
  <2> HIDE DEF p
  <2>2. IsFiniteSet(T) /\ Cardinality(T) = p
    <3>1. 0 \in Int /\ p - 1 \in Int /\ (0 > p - 1 => p = 0) /\ (p - 1) - 0 + 1 = p
      BY <2>1
    <3>2. IsFiniteSet(T) /\ Cardinality(T) = IF 0 > p - 1 THEN 0 ELSE (p - 1) - 0 + 1
      BY <3>1, FS_Interval
    <3> QED BY <3>1, <3>2
  <2>3. IsFiniteSet({k}) /\ Cardinality({k}) = 1
    BY FS_Singleton
  <2> HIDE DEF T
  <2>4. IsFiniteSet({k} \X T) /\ Cardinality({k} \X T) = 1 * p
    BY <2>2, <2>3, FS_Product
  <2> QED BY <2>1, <2>4 DEF MmioPart, p, T
<1>5. Cardinality(A) \in Nat /\ Cardinality(B) \in Nat
  BY <1>3, <1>4, FS_CardinalityType
<1> HIDE DEF A, B
<1>6. Cardinality(A \cup B) = Cardinality(A) + Cardinality(B) - Cardinality(A \cap B)
  BY <1>3, <1>4, FS_Union
<1>7. Cardinality(A \cap B) = 0
  BY <1>2, FS_EmptySet
<1>8. Cardinality(A \cup B) = Cardinality(A) + Cardinality(B)
  BY <1>5, <1>6, <1>7
<1> QED BY <1>1, <1>4, <1>8 DEF MmioSum, A

\* Only the numbers count.
LEMMA MmioSumSame ==
    ASSUME NEW a, NEW b, NEW S, \A i \in S : MmioPages(a[i]) = MmioPages(b[i])
    PROVE  MmioSum(a, S) = MmioSum(b, S)
<1>1. \A i \in S : MmioPart(a, i) = MmioPart(b, i)
  BY DEF MmioPart
<1>2. MmioPairs(a, S) = MmioPairs(b, S)
  BY <1>1 DEF MmioPairs
<1> QED BY <1>2 DEF MmioSum

\* MmioSize is the sum over a whole map.
LEMMA MmioSizeIsSum ==
    ASSUME NEW map \in Seq(Descriptor)
    PROVE  /\ MmioSize(map) = MmioSum(map, 1 .. Len(map))
           /\ \A k \in 0 .. Len(map) : MmioSize(SubSeq(map, 1, k)) = MmioSum(map, 1 .. k)
           /\ \A i \in 1 .. Len(map) : MmioPages(map[i]) \in Nat
<1>1. MmioSize(map) = MmioSum(map, 1 .. Len(map))
  <2>1. DOMAIN map = 1 .. Len(map)
    OBVIOUS
  <2> QED BY <2>1 DEF MmioSize, MmioSum, MmioPairs, MmioPart
<1>2. ASSUME NEW k \in 0 .. Len(map) PROVE MmioSize(SubSeq(map, 1, k)) = MmioSum(map, 1 .. k)
  <2> DEFINE s == SubSeq(map, 1, k)
  <2>1. k \in Nat /\ \A i \in 1 .. k : map[i] \in Descriptor
    OBVIOUS
  <2>2. Len(s) = k /\ DOMAIN s = 1 .. k /\ \A i \in 1 .. k : s[i] = map[i]
    BY <2>1, SubSeqProperties
  <2> HIDE DEF s
  <2>3. MmioSize(s) = MmioSum(s, 1 .. k)
    BY <2>2 DEF MmioSize, MmioSum, MmioPairs, MmioPart
  <2>4. MmioSum(s, 1 .. k) = MmioSum(map, 1 .. k)
    BY <2>2, MmioSumSame
  <2> QED BY <2>3, <2>4 DEF s
<1>3. ASSUME NEW i \in 1 .. Len(map) PROVE MmioPages(map[i]) \in Nat
  <2>1. map[i] \in Descriptor
    OBVIOUS
  <2> QED BY <2>1 DEF Descriptor, MmioPages
<1> QED BY <1>1, <1>2, <1>3

\* The I/O behind other entries has the size it has alone.
LEMMA MmioSizeBehind ==
    ASSUME NEW map \in Seq(Descriptor), NEW io \in Seq(Descriptor), NEW n \in Nat,
           Len(map) = n + Len(io),
           \A i \in 1 .. n : map[i].Type \notin MmioType,
           \A j \in 1 .. Len(io) : map[n + j] = io[j]
    PROVE  MmioSize(map) = MmioSize(io)
<1> DEFINE k == Len(map)
           m == Len(io)
           A == MmioPairs(io, 1 .. m)
           B == MmioPairs(map, 1 .. k)
           g == [x \in A |-> <<n + x[1], x[2]>>]
<1>1. k \in Nat /\ m \in Nat /\ k = n + m
  OBVIOUS
<1>2. \A x \in A : \E j \in 1 .. m : \E p \in 0 .. MmioPages(io[j]) - 1 : x = <<j, p>>
  BY DEF MmioPairs, MmioPart
<1>3. \A y \in B : \E i \in 1 .. k : \E p \in 0 .. MmioPages(map[i]) - 1 : y = <<i, p>>
  BY DEF MmioPairs, MmioPart
<1>4. \A j \in 1 .. m : \A p \in 0 .. MmioPages(io[j]) - 1 : <<j, p>> \in A
  BY DEF MmioPairs, MmioPart
<1>5. \A i \in 1 .. k : \A p \in 0 .. MmioPages(map[i]) - 1 : <<i, p>> \in B
  BY DEF MmioPairs, MmioPart
<1>6. \A j \in 1 .. m : n + j \in 1 .. k /\ MmioPages(map[n + j]) = MmioPages(io[j])
  BY <1>1
<1>7. \A i \in 1 .. n : MmioPages(map[i]) = 0
  BY DEF MmioPages
<1> HIDE DEF A, B, k, m
<1>8. g \in [A -> B]
  <2> SUFFICES ASSUME NEW x \in A PROVE <<n + x[1], x[2]>> \in B
    OBVIOUS
  <2>1. PICK j \in 1 .. m : \E p \in 0 .. MmioPages(io[j]) - 1 : x = <<j, p>>
    BY <1>2
  <2>2. PICK p \in 0 .. MmioPages(io[j]) - 1 : x = <<j, p>>
    BY <2>1
  <2> QED BY <1>5, <1>6, <2>2
<1>9. \A x, y \in A : g[x] = g[y] => x = y
  <2> SUFFICES ASSUME NEW x \in A, NEW y \in A, g[x] = g[y] PROVE x = y
    OBVIOUS
  <2>1. PICK j \in 1 .. m : \E p \in 0 .. MmioPages(io[j]) - 1 : x = <<j, p>>
    BY <1>2
  <2>2. PICK p \in 0 .. MmioPages(io[j]) - 1 : x = <<j, p>>
    BY <2>1
  <2>3. PICK i \in 1 .. m : \E q \in 0 .. MmioPages(io[i]) - 1 : y = <<i, q>>
    BY <1>2
  <2>4. PICK q \in 0 .. MmioPages(io[i]) - 1 : y = <<i, q>>
    BY <2>3
  <2>5. n + j = n + i /\ p = q
    BY <2>2, <2>4
  <2>6. i = j
    BY <1>1, <2>5
  <2> QED BY <2>2, <2>4, <2>5, <2>6
<1>10. \A y \in B : \E x \in A : g[x] = y
  <2> SUFFICES ASSUME NEW y \in B PROVE \E x \in A : g[x] = y
    OBVIOUS
  <2>1. PICK i \in 1 .. k : \E p \in 0 .. MmioPages(map[i]) - 1 : y = <<i, p>>
    BY <1>3
  <2>2. PICK p \in 0 .. MmioPages(map[i]) - 1 : y = <<i, p>>
    BY <2>1
  <2>3. i \notin 1 .. n
    <3> SUFFICES ASSUME i \in 1 .. n PROVE FALSE
      OBVIOUS
    <3>1. MmioPages(map[i]) = 0
      BY <1>7
    <3> QED BY <2>2, <3>1
  <2> DEFINE j == i - n
  <2>4. j \in 1 .. m /\ n + j = i
    BY <1>1, <2>3
  <2> HIDE DEF j
  <2>5. <<j, p>> \in A
    BY <1>4, <1>6, <2>2, <2>4
  <2>6. g[<<j, p>>] = y
    BY <2>2, <2>4, <2>5
  <2> QED BY <2>5, <2>6
<1> HIDE DEF g
<1>11. g \in Bijection(A, B)
  BY <1>8, <1>9, <1>10 DEF Bijection, Injection, Surjection, IsInjective
<1>12. ExistsBijection(A, B)
  BY <1>11 DEF ExistsBijection
<1>13. IsFiniteSet(A)
  <2>1. \A i \in 1 .. m : MmioPages(io[i]) \in Nat
    BY MmioSizeIsSum DEF m
  <2>2. IsFiniteSet(1 .. m)
    BY <1>1, FS_Interval
  <2> HIDE DEF m
  <2> QED BY <2>1, <2>2, MmioSumType DEF A
<1>14. Cardinality(B) = Cardinality(A)
  BY <1>12, <1>13, FS_Bijection
<1>15. MmioSize(map) = Cardinality(B) /\ MmioSize(io) = Cardinality(A)
  BY MmioSizeIsSum DEF MmioSum, A, B, k, m
<1> QED BY <1>14, <1>15
-----------------------------------------------------------------------------
(***************************************************************************)
(* Merging the memory map.                                                 *)
(***************************************************************************)
\* The entries in use: those merged so far, and those from x on.
Entries(k, x, n) == 1 .. k \cup x .. n

\* The type the map ends up with for a frame of RAM.
Claim(r, f) == IF f = 0 THEN "EfiUnusableMemory" ELSE Reclaimed(r[f]).Type

\* The entries do not meet, hold all of RAM, and say of each frame what is the
\* case; those that hold no RAM are I/O.
EntriesApart(M, E) ==
    \A i, j \in E : i # j => Holds(M[i]) \cap Holds(M[j]) = {}
Complete(M, E, r) == \A f \in DOMAIN r : \E i \in E : f \in Holds(M[i])
True(M, E, x, r) ==
    \A i \in E : \A f \in Holds(M[i]) :
       /\ f \in DOMAIN r =>
             /\ M[i].runtime = r[f].runtime
             /\ M[i].Type = IF i < x THEN Claim(r, f) ELSE r[f].Type
       /\ f \notin DOMAIN r => M[i].Type \in MmioType
Unmergeable(M, k) == \A i \in 1 .. k - 1 : ~Mergeable(M[i + 1], M[i])

Merged(M, k, x, n, r, size) ==
    /\ EntriesApart(M, Entries(k, x, n))
    /\ Complete(M, Entries(k, x, n), r)
    /\ True(M, Entries(k, x, n), x, r)
    /\ Unmergeable(M, k)
    /\ MmioSum(M, Entries(k, x, n)) = size

\* Reclaiming an entry changes its type only, and never that of I/O.
LEMMA ReclaimedFields ==
    ASSUME NEW d \in Descriptor
    PROVE  /\ Reclaimed(d) \in Descriptor
           /\ Reclaimed(d).PhysicalStart = d.PhysicalStart
           /\ Reclaimed(d).NumberOfPages = d.NumberOfPages
           /\ Reclaimed(d).runtime = d.runtime
           /\ Holds(Reclaimed(d)) = Holds(d)
           /\ MmioPages(Reclaimed(d)) = MmioPages(d)
           /\ d.Type \in MmioType => Reclaimed(d).Type = d.Type
           /\ \A m \in Region : m.Type = d.Type => Reclaimed(m).Type = Reclaimed(d).Type
<1> DEFINE c == "EfiConventionalMemory"
           e == [d EXCEPT !.Type = c]
           Kept4 == {"EfiReservedMemoryType", "EfiLoaderCode", "EfiLoaderData",
                     "EfiRuntimeServicesCode", "EfiRuntimeServicesData",
                     "EfiUnusableMemory"} \cup MmioType
<1>1. c \in MemoryType /\ c \notin MmioType
  BY DEF MemoryType, MmioType
<1>2. /\ e \in Descriptor /\ e.Type = c /\ e.PhysicalStart = d.PhysicalStart
      /\ e.NumberOfPages = d.NumberOfPages /\ e.runtime = d.runtime
  BY <1>1 DEF Descriptor
<1>3. ASSUME NEW m \in Region PROVE [m EXCEPT !.Type = c].Type = c
  BY DEF Region
<1>4. Reclaimed(d) = IF d.Type \in Kept4 THEN d ELSE e
  BY DEF Reclaimed
<1>5. \A m \in Region : Reclaimed(m) = IF m.Type \in Kept4 THEN m ELSE [m EXCEPT !.Type = c]
  BY DEF Reclaimed
<1>6. d.Type \in MmioType => d.Type \in Kept4
  OBVIOUS
<1> HIDE DEF Kept4, e, c
<1>7. ASSUME NEW m \in Region, m.Type = d.Type PROVE Reclaimed(m).Type = Reclaimed(d).Type
  BY <1>2, <1>3, <1>4, <1>5, <1>7
<1>8. CASE d.Type \in Kept4
  <2>1. Reclaimed(d) = d
    BY <1>4, <1>8
  <2> QED BY <1>7, <2>1
<1>9. CASE d.Type \notin Kept4
  <2>1. Reclaimed(d) = e
    BY <1>4, <1>9
  <2>2. Holds(e) = Holds(d)
    BY <1>2 DEF Holds
  <2>3. MmioPages(e) = 0 /\ MmioPages(d) = 0
    BY <1>1, <1>2, <1>6, <1>9 DEF MmioPages
  <2> QED BY <1>2, <1>6, <1>7, <1>9, <2>1, <2>2, <2>3
<1> QED BY <1>8, <1>9

\* One entry more goes into the last one.
LEMMA MergeIntoLast ==
    ASSUME NEW M \in Seq(Descriptor), NEW k \in Nat, NEW x \in Nat, NEW n \in Nat,
           NEW r, NEW size, NEW N,
           r \in [DOMAIN r -> Region],
           1 <= k, k < x, x <= n, n <= Len(M), Merged(M, k, x, n, r, size),
           0 \in Holds(M[1]), Mergeable(Reclaimed(M[x]), M[k]),
           N \in Seq(Descriptor), Len(N) = Len(M),
           \A i \in 1 .. Len(M) : i \notin {k, x} => N[i] = M[i],
           N[k].Type = M[k].Type, N[k].runtime = M[k].runtime,
           N[k].PhysicalStart = M[k].PhysicalStart,
           N[k].NumberOfPages = M[k].NumberOfPages + Reclaimed(M[x]).NumberOfPages
    PROVE  Merged(N, k, x + 1, n, r, size) /\ 0 \in Holds(N[1])
<1> DEFINE d == Reclaimed(M[x])
           p == M[k]
           e == N[k]
           E == Entries(k, x, n)
           F == Entries(k, x + 1, n)
<1>1. /\ k \in 1 .. Len(M) /\ x \in 1 .. Len(M) /\ k # x
      /\ p \in Descriptor /\ M[x] \in Descriptor
  OBVIOUS
<1>2. /\ d \in Descriptor /\ d.PhysicalStart = M[x].PhysicalStart
      /\ d.NumberOfPages = M[x].NumberOfPages /\ d.runtime = M[x].runtime
      /\ Holds(d) = Holds(M[x]) /\ MmioPages(d) = MmioPages(M[x])
      /\ M[x].Type \in MmioType => d.Type = M[x].Type
      /\ \A m \in Region : m.Type = M[x].Type => Reclaimed(m).Type = d.Type
  BY <1>1, ReclaimedFields
<1>3. d.Type = p.Type /\ d.runtime = p.runtime
      /\ d.PhysicalStart = p.PhysicalStart + p.NumberOfPages
  BY DEF Mergeable
<1>4. /\ p.PhysicalStart \in Nat /\ p.NumberOfPages \in Nat
      /\ d.PhysicalStart \in Nat /\ d.NumberOfPages \in Nat
  BY <1>1, <1>2 DEF Descriptor
<1>5. /\ e.Type = p.Type /\ e.runtime = p.runtime
      /\ e.PhysicalStart = p.PhysicalStart
      /\ e.NumberOfPages = p.NumberOfPages + d.NumberOfPages
  OBVIOUS
<1> HIDE DEF d, p, e
<1>7. /\ N \in Seq(Descriptor) /\ Len(N) = Len(M)
      /\ N[k] = e /\ \A i \in 1 .. Len(M) : i \notin {k, x} => N[i] = M[i]
  BY DEF e
<1> HIDE DEF E, F
<1>8. /\ k \in E /\ x \in E /\ x \notin F /\ k \in F
      /\ F \subseteq E /\ E = F \cup {x} /\ E \subseteq 1 .. Len(M)
  BY DEF E, F, Entries
<1>9. \A i \in F : i # k => N[i] = M[i] /\ i \in E /\ i # x
  BY <1>7, <1>8
<1>10. Holds(N[k]) = Holds(p) \cup Holds(M[x])
  <2>1. Holds(e) = Holds(p) \cup Holds(d)
    <3>1. \A a, b, c \in Nat : a .. a + (b + c) - 1 = a .. a + b - 1 \cup a + b .. a + b + c - 1
      OBVIOUS
    <3>2. /\ Holds(p) = p.PhysicalStart .. p.PhysicalStart + p.NumberOfPages - 1
          /\ Holds(d) = d.PhysicalStart .. d.PhysicalStart + d.NumberOfPages - 1
          /\ Holds(e) = e.PhysicalStart .. e.PhysicalStart + e.NumberOfPages - 1
      BY DEF Holds
    <3> DEFINE a == p.PhysicalStart
               b == p.NumberOfPages
               c == d.NumberOfPages
    <3>3. Holds(p) = a .. a + b - 1 /\ Holds(d) = a + b .. a + b + c - 1
          /\ Holds(e) = a .. a + (b + c) - 1
      BY <1>3, <1>5, <3>2
    <3>4. a \in Nat /\ b \in Nat /\ c \in Nat
      BY <1>4
    <3> HIDE DEF a, b, c
    <3> QED BY <3>1, <3>3, <3>4
  <2> QED BY <1>2, <1>7, <2>1
<1>11. /\ EntriesApart(M, E) /\ Complete(M, E, r) /\ True(M, E, x, r)
       /\ Unmergeable(M, k) /\ MmioSum(M, E) = size
  BY DEF Merged, E
<1>12. EntriesApart(N, F)
  <2> SUFFICES ASSUME NEW i \in F, NEW j \in F, i # j PROVE Holds(N[i]) \cap Holds(N[j]) = {}
    BY DEF EntriesApart
  <2>1. \A a, b \in E : a # b => Holds(M[a]) \cap Holds(M[b]) = {}
    BY <1>11 DEF EntriesApart
  <2>2. Holds(M[k]) = Holds(p)
    BY DEF p
  <2>3. CASE i # k /\ j # k
    BY <1>9, <2>1, <2>3
  <2>4. CASE i = k
    <3>1. N[j] = M[j] /\ j \in E /\ j # k /\ j # x
      BY <1>9, <2>4
    <3>2. Holds(M[k]) \cap Holds(M[j]) = {} /\ Holds(M[x]) \cap Holds(M[j]) = {}
      BY <1>8, <2>1, <3>1
    <3> QED BY <1>10, <2>2, <2>4, <3>1, <3>2
  <2>5. CASE j = k
    <3>1. N[i] = M[i] /\ i \in E /\ i # k /\ i # x
      BY <1>9, <2>5
    <3>2. Holds(M[k]) \cap Holds(M[i]) = {} /\ Holds(M[x]) \cap Holds(M[i]) = {}
      BY <1>8, <2>1, <3>1
    <3> QED BY <1>10, <2>2, <2>5, <3>1, <3>2
  <2> QED BY <2>3, <2>4, <2>5
<1>13. Complete(N, F, r)
  <2> SUFFICES ASSUME NEW f \in DOMAIN r PROVE \E i \in F : f \in Holds(N[i])
    BY DEF Complete
  <2>1. PICK i \in E : f \in Holds(M[i])
    BY <1>11 DEF Complete
  <2>2. CASE i = k \/ i = x
    <3>1. f \in Holds(N[k])
      BY <1>10, <2>1, <2>2 DEF p
    <3> QED BY <1>8, <3>1
  <2>3. CASE i # k /\ i # x
    <3>1. i \in F /\ N[i] = M[i]
      BY <1>8, <1>9, <2>3
    <3> QED BY <2>1, <3>1
  <2> QED BY <2>2, <2>3
<1>14. True(N, F, x + 1, r)
  <2> SUFFICES ASSUME NEW i \in F, NEW f \in Holds(N[i])
               PROVE  /\ f \in DOMAIN r =>
                            /\ N[i].runtime = r[f].runtime
                            /\ N[i].Type = IF i < x + 1 THEN Claim(r, f) ELSE r[f].Type
                      /\ f \notin DOMAIN r => N[i].Type \in MmioType
    BY DEF True
  <2>1. \A a \in E : \A g \in Holds(M[a]) :
           /\ g \in DOMAIN r =>
                 /\ M[a].runtime = r[g].runtime
                 /\ M[a].Type = IF a < x THEN Claim(r, g) ELSE r[g].Type
           /\ g \notin DOMAIN r => M[a].Type \in MmioType
    BY <1>11 DEF True
  <2>2. CASE i # k
    <3>1. N[i] = M[i] /\ i \in E /\ i # x /\ i \in Nat
      BY <1>8, <1>9, <2>2
    <3>2. (i < x) <=> (i < x + 1)
      BY <3>1
    <3> QED BY <2>1, <3>1, <3>2
  <2>3. CASE i = k /\ f \in Holds(M[k])
    <3>1. N[i].Type = M[k].Type /\ N[i].runtime = M[k].runtime
      BY <1>5, <1>7, <2>3 DEF p
    <3>2. i < x + 1 /\ k < x
      BY <2>3
    <3> QED BY <1>8, <2>1, <2>3, <3>1, <3>2
  <2>4. CASE i = k /\ f \in Holds(M[x])
    <3>1. N[i].Type = d.Type /\ N[i].runtime = M[x].runtime
      BY <1>2, <1>3, <1>5, <1>7, <2>4
    <3>2. i < x + 1 /\ ~(x < x)
      BY <2>4
    <3>3. f \in DOMAIN r => M[x].runtime = r[f].runtime /\ M[x].Type = r[f].Type
      BY <1>8, <2>1, <2>4, <3>2
    <3>4. f \notin DOMAIN r => M[x].Type \in MmioType
      BY <1>8, <2>1, <2>4
    <3>5. f # 0
      <4>1. 1 \in E /\ 1 # x
        BY <1>8 DEF E, Entries
      <4>2. Holds(M[1]) \cap Holds(M[x]) = {}
        BY <1>8, <1>11, <4>1 DEF EntriesApart
      <4> QED BY <2>4, <4>2
    <3>6. f \in DOMAIN r => d.Type = Claim(r, f)
      <4> SUFFICES ASSUME f \in DOMAIN r PROVE d.Type = Claim(r, f)
        OBVIOUS
      <4>1. r[f] \in Region /\ r[f].Type = M[x].Type
        BY <3>3
      <4>2. Reclaimed(r[f]).Type = d.Type
        BY <1>2, <4>1
      <4> QED BY <3>5, <4>2 DEF Claim
    <3>7. f \notin DOMAIN r => d.Type \in MmioType
      BY <1>2, <3>4
    <3> QED BY <3>1, <3>2, <3>3, <3>6, <3>7
  <2> QED BY <1>10, <2>2, <2>3, <2>4 DEF p
<1>15. Unmergeable(N, k)
  <2> SUFFICES ASSUME NEW i \in 1 .. k - 1 PROVE ~Mergeable(N[i + 1], N[i])
    BY DEF Unmergeable
  <2>1. ~Mergeable(M[i + 1], M[i])
    BY <1>11 DEF Unmergeable
  <2>2. i \in 1 .. Len(M) /\ i \notin {k, x} /\ i + 1 \in 1 .. Len(M) /\ i + 1 # x
    OBVIOUS
  <2>3. N[i] = M[i]
    BY <1>7, <2>2
  <2>4. /\ N[i + 1].Type = M[i + 1].Type /\ N[i + 1].runtime = M[i + 1].runtime
        /\ N[i + 1].PhysicalStart = M[i + 1].PhysicalStart
    <3>1. CASE i + 1 = k
      BY <1>5, <1>7, <3>1 DEF p
    <3>2. CASE i + 1 # k
      BY <1>7, <2>2, <3>2
    <3> QED BY <3>1, <3>2
  <2> QED BY <2>1, <2>3, <2>4 DEF Mergeable
<1>16. MmioSum(N, F) = size
  <2> DEFINE G == F \ {k}
  <2>1. G \cup {k} = F /\ F \cup {x} = E /\ k \notin G /\ x \notin F
    BY <1>8
  <2>2. IsFiniteSet(1 .. Len(M))
    <3>1. 1 \in Int /\ Len(M) \in Int
      OBVIOUS
    <3> QED BY <3>1, FS_Interval
  <2>3. IsFiniteSet(F) /\ IsFiniteSet(G) /\ IsFiniteSet(E)
    BY <1>8, <2>2, FS_Subset
  <2>4. /\ \A i \in 1 .. Len(M) : MmioPages(M[i]) \in Nat
        /\ \A i \in 1 .. Len(M) : MmioPages(N[i]) \in Nat
    BY <1>7, MmioSizeIsSum
  <2>5. \A i \in G : N[i] = M[i] /\ i \in 1 .. Len(M)
    BY <1>8, <1>9
  <2> HIDE DEF G
  <2>6. MmioSum(N, G) = MmioSum(M, G)
    <3>1. \A i \in G : MmioPages(N[i]) = MmioPages(M[i])
      BY <2>5
    <3> QED BY <3>1, MmioSumSame
  <2>7. MmioSum(N, F) = MmioSum(N, G) + MmioPages(N[k])
    <3>1. \A i \in G \cup {k} : MmioPages(N[i]) \in Nat
      BY <1>1, <2>4, <2>5
    <3>2. MmioSum(N, G \cup {k}) = MmioSum(N, G) + MmioPages(N[k])
      BY <2>1, <2>3, <3>1, MmioSumAdd
    <3> QED BY <2>1, <3>2
  <2>8. MmioSum(M, F) = MmioSum(M, G) + MmioPages(M[k])
    <3>1. \A i \in G \cup {k} : MmioPages(M[i]) \in Nat
      BY <1>1, <2>4, <2>5
    <3>2. MmioSum(M, G \cup {k}) = MmioSum(M, G) + MmioPages(M[k])
      BY <2>1, <2>3, <3>1, MmioSumAdd
    <3> QED BY <2>1, <3>2
  <2>9. MmioSum(M, E) = MmioSum(M, F) + MmioPages(M[x])
    <3>1. \A i \in F \cup {x} : MmioPages(M[i]) \in Nat
      BY <1>1, <1>8, <2>4
    <3>2. MmioSum(M, F \cup {x}) = MmioSum(M, F) + MmioPages(M[x])
      BY <2>1, <2>3, <3>1, MmioSumAdd
    <3> QED BY <2>1, <3>2
  <2>10. MmioPages(N[k]) = MmioPages(M[k]) + MmioPages(M[x])
    <3>1. MmioPages(e) = MmioPages(p) + MmioPages(d)
      BY <1>3, <1>4, <1>5 DEF MmioPages
    <3> QED BY <1>2, <1>7, <3>1 DEF p
  <2>11. MmioSum(M, G) \in Nat /\ MmioPages(M[k]) \in Nat /\ MmioPages(M[x]) \in Nat
    BY <1>1, <2>3, <2>4, <2>5, MmioSumType
  <2> QED BY <1>11, <2>6, <2>7, <2>8, <2>9, <2>10, <2>11
<1>17. 0 \in Holds(N[1])
  <2>1. CASE k = 1
    BY <1>10, <2>1 DEF p
  <2>2. CASE k # 1
    <3>1. 1 \in 1 .. Len(M) /\ 1 \notin {k, x}
      BY <2>2
    <3> QED BY <1>7, <3>1
  <2> QED BY <2>1, <2>2
<1>18. Merged(N, k, x + 1, n, r, size)
  BY <1>12, <1>13, <1>14, <1>15, <1>16 DEF Merged, F
<1> QED BY <1>17, <1>18

\* The next entry becomes a merged one of its own.
LEMMA MergeNext ==
    ASSUME NEW M \in Seq(Descriptor), NEW k \in Nat, NEW x \in Nat, NEW n \in Nat,
           NEW r, NEW size, NEW N, NEW l, NEW y, l = k + 1, y = x + 1,
           k < x, x <= n, n <= Len(M), Merged(M, k, x, n, r, size),
           N \in Seq(Descriptor), Len(N) = Len(M),
           \A i \in 1 .. Len(M) : i \notin {l, x} => N[i] = M[i],
           Holds(N[l]) = Holds(M[x]), N[l].runtime = M[x].runtime,
           MmioPages(N[l]) = MmioPages(M[x]),
           M[x].Type \in MmioType => N[l].Type = M[x].Type,
           \A f \in Holds(M[x]) : f \in DOMAIN r => N[l].Type = Claim(r, f),
           k > 0 => ~Mergeable(N[l], M[k])
    PROVE  Merged(N, l, y, n, r, size)
<1> DEFINE E == Entries(k, x, n)
           F == Entries(l, y, n)
<1>1. l \in Nat /\ l \in 1 .. Len(M) /\ x \in 1 .. Len(M) /\ l <= x
  OBVIOUS
<1>2. \A i \in 1 .. Len(M) : i \notin {l, x} => N[i] = M[i]
  OBVIOUS
<1>3. /\ x \in E /\ l \in F /\ E \subseteq 1 .. Len(M) /\ F \subseteq 1 .. Len(M)
      /\ F \ {l} = E \ {x} /\ \A i \in F \ {l} : i # x /\ i \in Nat
  BY DEF E, F, Entries
<1> HIDE DEF E, F
<1>4. \A i \in F : i # l => N[i] = M[i] /\ i \in E /\ i # x
  BY <1>2, <1>3
<1>5. /\ EntriesApart(M, E) /\ Complete(M, E, r) /\ True(M, E, x, r)
      /\ Unmergeable(M, k) /\ MmioSum(M, E) = size
  BY DEF Merged, E
<1>6. EntriesApart(N, F)
  <2> SUFFICES ASSUME NEW i \in F, NEW j \in F, i # j PROVE Holds(N[i]) \cap Holds(N[j]) = {}
    BY DEF EntriesApart
  <2>1. \A a, b \in E : a # b => Holds(M[a]) \cap Holds(M[b]) = {}
    BY <1>5 DEF EntriesApart
  <2>2. Holds(N[l]) = Holds(M[x])
    OBVIOUS
  <2> DEFINE a == IF i = l THEN x ELSE i
             b == IF j = l THEN x ELSE j
  <2>3. a \in E /\ b \in E /\ a # b
    BY <1>3, <1>4
  <2>4. Holds(N[i]) = Holds(M[a]) /\ Holds(N[j]) = Holds(M[b])
    BY <1>4, <2>2
  <2> HIDE DEF a, b
  <2> QED BY <2>1, <2>3, <2>4
<1>7. Complete(N, F, r)
  <2> SUFFICES ASSUME NEW f \in DOMAIN r PROVE \E i \in F : f \in Holds(N[i])
    BY DEF Complete
  <2>1. PICK i \in E : f \in Holds(M[i])
    BY <1>5 DEF Complete
  <2>2. CASE i = x
    BY <1>3, <2>1, <2>2
  <2>3. CASE i # x
    <3>1. i \in F /\ i # l
      BY <1>3, <2>3
    <3> QED BY <1>4, <2>1, <3>1
  <2> QED BY <2>2, <2>3
<1>8. True(N, F, y, r)
  <2> SUFFICES ASSUME NEW i \in F, NEW f \in Holds(N[i])
               PROVE  /\ f \in DOMAIN r =>
                            /\ N[i].runtime = r[f].runtime
                            /\ N[i].Type = IF i < y THEN Claim(r, f) ELSE r[f].Type
                      /\ f \notin DOMAIN r => N[i].Type \in MmioType
    BY DEF True
  <2>1. \A a \in E : \A g \in Holds(M[a]) :
           /\ g \in DOMAIN r =>
                 /\ M[a].runtime = r[g].runtime
                 /\ M[a].Type = IF a < x THEN Claim(r, g) ELSE r[g].Type
           /\ g \notin DOMAIN r => M[a].Type \in MmioType
    BY <1>5 DEF True
  <2>2. CASE i # l
    <3>1. N[i] = M[i] /\ i \in E /\ i # x /\ i \in Nat
      BY <1>3, <1>4, <2>2
    <3>2. (i < x) <=> (i < y)
      BY <3>1
    <3> QED BY <2>1, <3>1, <3>2
  <2>3. CASE i = l
    <3>1. f \in Holds(M[x]) /\ i < y
      BY <1>1, <2>3
    <3>2. f \in DOMAIN r => N[i].Type = Claim(r, f)
      BY <2>3, <3>1
    <3>3. f \in DOMAIN r => N[i].runtime = r[f].runtime
      BY <1>3, <2>1, <2>3, <3>1
    <3>4. f \notin DOMAIN r => N[i].Type \in MmioType
      BY <1>3, <2>1, <2>3, <3>1
    <3> QED BY <3>1, <3>2, <3>3, <3>4
  <2> QED BY <2>2, <2>3
<1>9. Unmergeable(N, l)
  <2> SUFFICES ASSUME NEW i \in 1 .. k PROVE ~Mergeable(N[i + 1], N[i])
    BY DEF Unmergeable
  <2>1. i \in 1 .. Len(M) /\ i \notin {l, x} /\ i + 1 \in 1 .. Len(M)
    OBVIOUS
  <2>2. N[i] = M[i]
    BY <1>2, <2>1
  <2>3. CASE i = k
    BY <2>2, <2>3
  <2>4. CASE i # k
    <3>1. ~Mergeable(M[i + 1], M[i])
      BY <1>5, <2>4 DEF Unmergeable
    <3>2. i + 1 \notin {l, x}
      BY <1>1, <2>4
    <3>3. N[i + 1] = M[i + 1]
      BY <1>2, <2>1, <3>2
    <3> QED BY <2>2, <3>1, <3>3
  <2> QED BY <2>3, <2>4
<1>10. MmioSum(N, F) = size
  <2> DEFINE G == F \ {l}
  <2>1. G \cup {l} = F /\ G \cup {x} = E /\ l \notin G /\ x \notin G
    BY <1>3
  <2>2. IsFiniteSet(1 .. Len(M))
    <3>1. 1 \in Int /\ Len(M) \in Int
      OBVIOUS
    <3> QED BY <3>1, FS_Interval
  <2>3. IsFiniteSet(G)
    BY <1>3, <2>1, <2>2, FS_Subset
  <2>4. /\ \A i \in 1 .. Len(M) : MmioPages(M[i]) \in Nat
        /\ \A i \in 1 .. Len(M) : MmioPages(N[i]) \in Nat
    BY MmioSizeIsSum
  <2>5. \A i \in G : N[i] = M[i] /\ i \in 1 .. Len(M)
    BY <1>3, <1>4
  <2> HIDE DEF G
  <2>6. MmioSum(N, G) = MmioSum(M, G)
    <3>1. \A i \in G : MmioPages(N[i]) = MmioPages(M[i])
      BY <2>5
    <3> QED BY <3>1, MmioSumSame
  <2>7. MmioSum(N, G \cup {l}) = MmioSum(N, G) + MmioPages(N[l])
    <3>1. \A i \in G \cup {l} : MmioPages(N[i]) \in Nat
      BY <1>1, <2>4, <2>5
    <3> QED BY <2>1, <2>3, <3>1, MmioSumAdd
  <2>8. MmioSum(M, G \cup {x}) = MmioSum(M, G) + MmioPages(M[x])
    <3>1. \A i \in G \cup {x} : MmioPages(M[i]) \in Nat
      BY <1>1, <2>4, <2>5
    <3> QED BY <2>1, <2>3, <3>1, MmioSumAdd
  <2> QED BY <1>5, <2>1, <2>6, <2>7, <2>8
<1> QED BY <1>6, <1>7, <1>8, <1>9, <1>10 DEF Merged, F

\* The entries of the firmware's map, before any is merged.
LEMMA MapMerged ==
    ASSUME World, RamInv, NEW G, G = MapOf(ram, machine.mmio),
           NEW M \in Seq(Descriptor), Len(G) <= Len(M), \A i \in 1 .. Len(G) : M[i] = G[i]
    PROVE  /\ Len(G) \in Nat
           /\ Merged(M, 0, 1, Len(G), ram, MmioSize(machine.mmio))
<1> DEFINE io == machine.mmio
           n == Stretches(ram)
           m == Len(io)
           l == Len(G)
           E == Entries(0, 1, l)
<1>1. Machine(machine) /\ RamKept(machine.ram, ram, pool)
  BY WorldFacts DEF RamInv
<1>2. /\ DOMAIN ram = DOMAIN machine.ram /\ DOMAIN ram \subseteq Nat
      /\ IsFiniteSet(DOMAIN ram) /\ ram \in [DOMAIN ram -> Region] /\ io \in Seq(Descriptor)
  BY RamFacts
<1>3. /\ n \in Nat /\ l = n + m /\ G \in Seq(Descriptor)
      /\ \A j \in 1 .. n :
            \A f \in Holds(G[j]) : /\ f \in DOMAIN ram
                                   /\ ram[f].Type = G[j].Type
                                   /\ ram[f].runtime = G[j].runtime
      /\ \A f \in DOMAIN ram : \E j \in 1 .. n : f \in Holds(G[j])
      /\ \A i, j \in 1 .. n : i < j => Holds(G[i]) \cap Holds(G[j]) = {}
      /\ \A j \in 1 .. m : G[n + j] = io[j]
      /\ \A j \in 1 .. n : G[j].NumberOfPages > 0
  <2>1. n = Stretches(ram) /\ G = MapOf(ram, io)
    OBVIOUS
  <2> HIDE DEF n, io, m, l
  <2>2. MapOfIs(ram, io, n, G)
    BY <1>2, <2>1, MapOfProperties
  <2> QED BY <2>2 DEF m, l, MapOfIs
<1>4. m \in Nat /\ l \in Nat /\ DOMAIN io = 1 .. m
  BY <1>2, <1>3
<1>5. /\ \A j \in 1 .. m : io[j].Type \in MmioType /\ io[j] \in Descriptor
      /\ \A j \in 1 .. m : \A f \in DOMAIN ram : f < io[j].PhysicalStart
      /\ \A i, j \in 1 .. m : i < j =>
            io[i].PhysicalStart + io[i].NumberOfPages <= io[j].PhysicalStart
  BY <1>1, <1>2, <1>4 DEF Machine
<1>6. \A f \in DOMAIN ram : ram[f].Type \notin MmioType
  <2> SUFFICES ASSUME NEW f \in DOMAIN ram PROVE ram[f].Type \notin MmioType
    OBVIOUS
  <2>1. machine.ram[f].Type \notin MmioType
    BY <1>1, <1>2 DEF Machine
  <2>2. \/ ram[f] = machine.ram[f]
        \/ ram[f].Type \in {"EfiBootServicesData"} \cup Loaders \cup {"EfiConventionalMemory"}
    BY <1>1, <1>2 DEF RamKept
  <2> QED BY <2>1, <2>2 DEF Loaders, MmioType
<1>7. E = 1 .. l
  BY <1>4 DEF E, Entries
<1> HIDE DEF io, n, m, l, E
<1>8. \A j \in 1 .. m : \A f \in Holds(io[j]) : f \notin DOMAIN ram
  <2> SUFFICES ASSUME NEW j \in 1 .. m, NEW f \in Holds(io[j]), f \in DOMAIN ram PROVE FALSE
    OBVIOUS
  <2>1. io[j].PhysicalStart <= f /\ f < io[j].PhysicalStart /\ io[j].PhysicalStart \in Nat
        /\ f \in Nat
    BY <1>2, <1>5 DEF Holds, Descriptor
  <2> QED BY <2>1
<1>9. \A i, j \in 1 .. m : i < j => Holds(io[i]) \cap Holds(io[j]) = {}
  <2> SUFFICES ASSUME NEW i \in 1 .. m, NEW j \in 1 .. m, i < j,
                      NEW f \in Holds(io[i]) \cap Holds(io[j])
               PROVE  FALSE
    OBVIOUS
  <2>1. io[i].PhysicalStart + io[i].NumberOfPages <= io[j].PhysicalStart
    BY <1>5
  <2>2. /\ io[i].PhysicalStart \in Nat /\ io[i].NumberOfPages \in Nat
        /\ io[j].PhysicalStart \in Nat /\ io[j].NumberOfPages \in Nat
    BY <1>5 DEF Descriptor
  <2>3. /\ f \in io[i].PhysicalStart .. io[i].PhysicalStart + io[i].NumberOfPages - 1
        /\ f \in io[j].PhysicalStart .. io[j].PhysicalStart + io[j].NumberOfPages - 1
    BY DEF Holds
  <2> QED BY <2>1, <2>2, <2>3
<1>10. \A i \in 1 .. l : M[i] = G[i] /\ (i \in 1 .. n \/ \E j \in 1 .. m : i = n + j /\ M[i] = io[j])
  <2> SUFFICES ASSUME NEW i \in 1 .. l, i \notin 1 .. n
               PROVE  \E j \in 1 .. m : i = n + j /\ M[i] = io[j]
    BY DEF l
  <2>1. i - n \in 1 .. m /\ i = n + (i - n)
    BY <1>3, <1>4
  <2>2. G[n + (i - n)] = io[i - n]
    BY <1>3, <2>1
  <2>3. M[i] = G[i]
    BY DEF l
  <2> QED BY <2>1, <2>2, <2>3
<1>11. \A i \in 1 .. n : i \in 1 .. l /\ M[i] = G[i]
  BY <1>3, <1>4 DEF l
<1>12. \A i, j \in 1 .. l : i < j => Holds(M[i]) \cap Holds(M[j]) = {}
  <2> SUFFICES ASSUME NEW i \in 1 .. l, NEW j \in 1 .. l, i < j
               PROVE  Holds(M[i]) \cap Holds(M[j]) = {}
    OBVIOUS
  <2>1. CASE i \in 1 .. n /\ j \in 1 .. n
    BY <1>3, <1>11, <2>1
  <2>2. CASE i \in 1 .. n /\ j \notin 1 .. n
    <3>1. PICK b \in 1 .. m : M[j] = io[b]
      BY <1>10, <2>2
    <3>2. \A f \in Holds(M[i]) : f \in DOMAIN ram
      BY <1>3, <1>11, <2>2
    <3> QED BY <1>8, <3>1, <3>2
  <2>3. CASE i \notin 1 .. n
    <3>1. j \notin 1 .. n /\ i \in Int /\ j \in Int
      BY <1>3, <2>3
    <3>2. PICK a \in 1 .. m : i = n + a /\ M[i] = io[a]
      BY <1>10, <2>3
    <3>3. PICK b \in 1 .. m : j = n + b /\ M[j] = io[b]
      BY <1>10, <3>1
    <3>4. a < b
      BY <1>3, <3>2, <3>3
    <3> QED BY <1>9, <3>2, <3>3, <3>4
  <2> QED BY <2>1, <2>2, <2>3
<1>13. EntriesApart(M, E)
  <2> SUFFICES ASSUME NEW i \in 1 .. l, NEW j \in 1 .. l, i # j
               PROVE  Holds(M[i]) \cap Holds(M[j]) = {}
    BY <1>7 DEF EntriesApart
  <2>1. CASE i < j
    BY <1>12, <2>1
  <2>2. CASE j < i
    BY <1>12, <2>2
  <2>3. i < j \/ j < i
    OBVIOUS
  <2> QED BY <2>1, <2>2, <2>3
<1>14. Complete(M, E, ram)
  <2> SUFFICES ASSUME NEW f \in DOMAIN ram PROVE \E i \in 1 .. l : f \in Holds(M[i])
    BY <1>7 DEF Complete
  <2>1. PICK j \in 1 .. n : f \in Holds(G[j])
    BY <1>3
  <2> QED BY <1>11, <2>1
<1>15. True(M, E, 1, ram)
  <2> SUFFICES ASSUME NEW i \in 1 .. l, NEW f \in Holds(M[i])
               PROVE  /\ f \in DOMAIN ram =>
                            M[i].runtime = ram[f].runtime /\ M[i].Type = ram[f].Type
                      /\ f \notin DOMAIN ram => M[i].Type \in MmioType
    BY <1>7 DEF True
  <2>1. CASE i \in 1 .. n
    BY <1>3, <1>11, <2>1
  <2>2. CASE i \notin 1 .. n
    <3>1. PICK b \in 1 .. m : M[i] = io[b]
      BY <1>10, <2>2
    <3> QED BY <1>5, <1>8, <3>1
  <2> QED BY <2>1, <2>2
<1>16. Unmergeable(M, 0)
  BY DEF Unmergeable
<1>17. MmioSum(M, E) = MmioSize(io)
  <2>1. \A i \in 1 .. l : MmioPages(M[i]) = MmioPages(G[i])
    BY <1>10
  <2>2. MmioSum(M, 1 .. l) = MmioSum(G, 1 .. l)
    BY <2>1, MmioSumSame
  <2>3. MmioSize(G) = MmioSum(G, 1 .. l)
    BY <1>3, MmioSizeIsSum DEF l
  <2>4. \A j \in 1 .. n : G[j].Type \notin MmioType
    <3> SUFFICES ASSUME NEW j \in 1 .. n PROVE G[j].Type \notin MmioType
      OBVIOUS
    <3>1. G[j] \in Descriptor /\ G[j].NumberOfPages > 0
      BY <1>3, <1>4, <1>11 DEF l
    <3>2. G[j].PhysicalStart \in Holds(G[j])
      <4>1. \A a, b \in Nat : b > 0 => a \in a .. a + b - 1
        OBVIOUS
      <4>2. G[j].PhysicalStart \in Nat /\ G[j].NumberOfPages \in Nat
        BY <3>1 DEF Descriptor
      <4> QED BY <3>1, <4>1, <4>2 DEF Holds
    <3> QED BY <1>3, <1>6, <3>2
  <2>5. MmioSize(G) = MmioSize(io)
    <3>1. \A j \in 1 .. Len(io) : G[n + j] = io[j]
      BY <1>3 DEF m
    <3>2. Len(G) = n + Len(io)
      BY <1>3 DEF l, m
    <3> QED BY <1>2, <1>3, <2>4, <3>1, <3>2, MmioSizeBehind
  <2> QED BY <1>7, <2>2, <2>3, <2>5
<1> QED BY <1>4, <1>13, <1>14, <1>15, <1>16, <1>17 DEF Merged, E, l, io
-----------------------------------------------------------------------------
(***************************************************************************)
(* The memory map in bootloader_data.                                      *)
(***************************************************************************)
\* It accounts for the frames r of machine m, with the first k entries merged
\* and those from x on still to come.
Account(b, k, x, r, m) ==
    /\ b.MemoryMap \in Seq(Descriptor) /\ Len(b.MemoryMap) = CAPACITY
    /\ b.NumEntries \in Nat /\ b.NumEntries <= CAPACITY
    /\ Merged(b.MemoryMap, k, x, b.NumEntries, r, MmioSize(m.mmio))

\* Its first entry is the null page, which init_mmap insists on.
NullPage(b, r) ==
    /\ 1 <= b.NumEntries /\ 0 \in Holds(b.MemoryMap[1])
    /\ 0 \in DOMAIN r => r[0].Type = "EfiBootServicesCode"

\* I/O follows one another from mmio_base on, runtime memory is in the window.
Assigned(b) ==
    \A i \in 1 .. b.NumEntries :
       /\ b.MemoryMap[i].Type \in MmioType =>
             b.MemoryMap[i].VirtualStart = b.mmio_base + MmioSum(b.MemoryMap, 1 .. i - 1)
       /\ b.MemoryMap[i].Type \notin MmioType /\ b.MemoryMap[i].runtime =>
             b.MemoryMap[i].VirtualStart = b.MemoryMap[i].PhysicalStart + b.paddr_base

Entered == {"switch", "relocate", "jump", "kernel"}
Done == {"set_virtual"} \cup Entered

CursorInv == cursor = [next |-> cursor.next, NewLength |-> cursor.NewLength]
FetchedInv ==
    (phase = "exit_bs" /\ current) \/ phase = "init_mmap" => Account(bd, 0, 1, ram, machine)
MergeInv ==
    phase = "merge" =>
       /\ cursor.next \in Nat /\ cursor.NewLength \in Nat
       /\ 1 <= cursor.NewLength /\ cursor.NewLength < cursor.next
       /\ cursor.next <= bd.NumEntries + 1
       /\ Account(bd, cursor.NewLength, cursor.next, ram, machine) /\ NullPage(bd, ram)
DoneInv ==
    phase \in Done =>
       /\ Account(bd, bd.NumEntries, bd.NumEntries + 1, ram, machine)
       /\ NullPage(bd, ram) /\ Assigned(bd)
RTInv == phase \in Entered => bd.RT = bd.paddr_base + machine.RT
MapInv == CursorInv /\ FetchedInv /\ MergeInv /\ DoneInv /\ RTInv

\* Where no part of it is said anything of, nothing is to be shown.
LEMMA MapElsewhere ==
    ASSUME MapInv, cursor' = cursor, phase' \notin {"exit_bs", "init_mmap", "merge"} \cup Done
    PROVE  MapInv'
  BY DEF MapInv, CursorInv, FetchedInv, MergeInv, DoneInv, RTInv, Done

\* Step 5: the map as the firmware has it, padded to the capacity.
LEMMA MapAcquireFinalMap ==
    ASSUME OwnersInv, BdInv, MapInv, AcquireFinalMap
    PROVE  MapInv'
<1> DEFINE G == GetMemoryMap(ram)
           l == Len(G)
           P == [i \in 1 .. CAPACITY - l |-> ZeroDescriptor]
           M == G \o P
<1>1. /\ phase' = "exit_bs" /\ cursor' = cursor /\ ram' = ram /\ machine' = machine
      /\ l <= CAPACITY /\ bd' = [bd EXCEPT !.MemoryMap = M, !.NumEntries = l]
  BY DEF AcquireFinalMap, FinalMap, world, firmware
<1>2. World /\ RamInv
  BY DEF OwnersInv
<1>3. G = MapOf(ram, machine.mmio)
  BY <1>2, GetMemoryMapIsMapOf
<1>4. G \in Seq(Descriptor) /\ l \in Nat
  <2>1. /\ DOMAIN ram \subseteq Nat /\ IsFiniteSet(DOMAIN ram) /\ ram \in [DOMAIN ram -> Region]
        /\ machine.mmio \in Seq(Descriptor)
    BY <1>2, RamFacts
  <2> DEFINE n == Stretches(ram)
  <2>2. n = Stretches(ram)
    OBVIOUS
  <2> HIDE DEF G, n
  <2>3. MapOfIs(ram, machine.mmio, n, G)
    BY <1>3, <2>1, <2>2, MapOfProperties
  <2>4. G \in Seq(Descriptor)
    BY <2>3 DEF MapOfIs
  <2> QED BY <2>4
<1>5. P \in Seq(Descriptor) /\ Len(P) = CAPACITY - l
  <2>1. CAPACITY - l \in Nat
    BY <1>1, <1>4, BootLoaderAssumption
  <2>2. ZeroDescriptor \in Descriptor
    BY DEF ZeroDescriptor, Descriptor, MemoryType
  <2> HIDE DEF l
  <2> QED BY <2>1, <2>2
<1> HIDE DEF P, G, l
<1>6. M \in Seq(Descriptor) /\ Len(M) = l + (CAPACITY - l)
      /\ \A i \in 1 .. l : M[i] = G[i]
  <2>1. /\ M \in Seq(Descriptor) /\ Len(M) = Len(G) + Len(P)
        /\ \A i \in 1 .. Len(G) + Len(P) : M[i] = IF i <= Len(G) THEN G[i] ELSE P[i - Len(G)]
    BY <1>4, <1>5, ConcatProperties
  <2>2. Len(G) = l /\ Len(P) \in Nat
    BY <1>5 DEF l
  <2>3. \A i \in 1 .. l : i \in 1 .. l + Len(P) /\ i <= l
    BY <1>4, <2>2
  <2> QED BY <1>5, <2>1, <2>2, <2>3
<1> HIDE DEF M
<1>7. Len(M) = CAPACITY /\ l <= Len(M)
  BY <1>1, <1>4, <1>6, BootLoaderAssumption
<1>8. Merged(M, 0, 1, l, ram, MmioSize(machine.mmio))
  BY <1>2, <1>3, <1>6, <1>7, MapMerged DEF l
<1>9. bd'.MemoryMap = M /\ bd'.NumEntries = l
  <2>1. bd' = [paddr_base |-> bd.paddr_base, mmio_base |-> bd.mmio_base,
               MemoryMap |-> M, NumEntries |-> l, RT |-> bd.RT]
    BY <1>1, FieldsExcept DEF BdInv
  <2> QED BY <2>1
<1>10. Account(bd', 0, 1, ram', machine')
  BY <1>1, <1>4, <1>6, <1>7, <1>8, <1>9 DEF Account
<1> QED BY <1>1, <1>10 DEF MapInv, CursorInv, FetchedInv, MergeInv, DoneInv, RTInv, Done, Entered

\* Step 7: the null page, the first entry.
LEMMA MapInitMmap ==
    ASSUME OwnersInv, BdInv, MapInv, InitMmap
    PROVE  MapInv'
<1>1. phase = "init_mmap" /\ ram' = ram /\ machine' = machine
  BY DEF InitMmap, firmware, world
<1>2. CASE phase' = "halt"
  <2>1. cursor' = cursor
    BY <1>2 DEF InitMmap
  <2> QED BY <1>2, <2>1, MapElsewhere DEF Done, Entered
<1>3. CASE phase' # "halt"
  <2> DEFINE M == bd.MemoryMap
             t == "EfiUnusableMemory"
             N == [M EXCEPT ![1].Type = t]
             n == bd.NumEntries
             size == MmioSize(machine.mmio)
  <2>1. /\ StartsWithNullPage /\ bd' = [bd EXCEPT !.MemoryMap[1].Type = t]
        /\ cursor' = [next |-> 2, NewLength |-> 1] /\ phase' = "merge"
    BY <1>3 DEF InitMmap
  <2>2. Account(bd, 0, 1, ram, machine)
    BY <1>1 DEF MapInv, FetchedInv
  <2>3. M \in Seq(Descriptor) /\ Len(M) = CAPACITY /\ n \in Nat /\ n <= CAPACITY
        /\ Merged(M, 0, 1, n, ram, size) /\ CAPACITY \in Nat
    BY <2>2, BootLoaderAssumption DEF Account
  <2>4. /\ n # 0 /\ M[1].Type = "EfiBootServicesCode" /\ M[1].PhysicalStart = 0
        /\ M[1].NumberOfPages = 1
    BY <2>1 DEF StartsWithNullPage
  <2>5. bd'.MemoryMap = N /\ bd'.NumEntries = n
    <3>1. bd' = [bd EXCEPT !.MemoryMap = N]
      BY <2>1 DEF BdInv, Fields
    <3> HIDE DEF N
    <3> QED BY <3>1, MemoryMapExcept
  <2>6. 1 <= n /\ 1 \in 1 .. Len(M) /\ M[1] \in Descriptor
    BY <2>3, <2>4
  <2> DEFINE e == [M[1] EXCEPT !.Type = t]
  <2>7. /\ e \in Descriptor /\ e.Type = t /\ e.runtime = M[1].runtime
        /\ e.PhysicalStart = 0 /\ e.NumberOfPages = 1
    <3>1. t \in MemoryType
      BY DEF MemoryType
    <3> DEFINE d == M[1]
    <3>2. d \in Descriptor /\ d.PhysicalStart = 0 /\ d.NumberOfPages = 1
      BY <2>4, <2>6
    <3> HIDE DEF d, M
    <3>3. [d EXCEPT !.Type = t] \in Descriptor
      BY <3>1, <3>2 DEF Descriptor
    <3>4. /\ [d EXCEPT !.Type = t].Type = t
          /\ [d EXCEPT !.Type = t].runtime = d.runtime
          /\ [d EXCEPT !.Type = t].PhysicalStart = d.PhysicalStart
          /\ [d EXCEPT !.Type = t].NumberOfPages = d.NumberOfPages
      BY <3>2 DEF Descriptor
    <3> QED BY <3>2, <3>3, <3>4 DEF d
  <2> HIDE DEF M, n, size
  <2>8. N = [M EXCEPT ![1] = e]
    OBVIOUS
  <2> HIDE DEF N, e
  <2>9. N \in Seq(Descriptor) /\ Len(N) = Len(M) /\ N[1] = e
        /\ \A i \in 1 .. Len(M) : i # 1 => N[i] = M[i]
    BY <2>3, <2>6, <2>7, <2>8
  <2>10. Holds(M[1]) = {0} /\ Holds(e) = {0}
    <3>1. 0 .. 0 + 1 - 1 = {0}
      OBVIOUS
    <3> QED BY <2>4, <2>7, <3>1 DEF Holds
  <2>11. MmioPages(e) = MmioPages(M[1]) /\ M[1].Type \notin MmioType
    BY <2>4, <2>7 DEF MmioPages, MmioType
  <2>12. Merged(N, 1, 2, n, ram, size)
    <3>1. \A f \in Holds(M[1]) : f \in DOMAIN ram => e.Type = Claim(ram, f)
      BY <2>7, <2>10 DEF Claim
    <3>2. \A i \in 1 .. Len(M) : i \notin {1, 1} => N[i] = M[i]
      BY <2>9
    <3>3. 0 \in Nat /\ 1 \in Nat /\ 0 < 1 /\ 1 <= n /\ n <= Len(M) /\ n \in Nat
          /\ 1 = 0 + 1 /\ 2 = 1 + 1 /\ ~(0 > 0)
      BY <2>3, <2>6
    <3>4. /\ Holds(N[1]) = Holds(M[1]) /\ N[1].runtime = M[1].runtime
          /\ MmioPages(N[1]) = MmioPages(M[1])
          /\ M[1].Type \in MmioType => N[1].Type = M[1].Type
          /\ \A f \in Holds(M[1]) : f \in DOMAIN ram => N[1].Type = Claim(ram, f)
      BY <2>7, <2>9, <2>10, <2>11, <3>1
    <3> QED BY <2>3, <2>9, <3>2, <3>3, <3>4, MergeNext
  <2>13. 0 \in DOMAIN ram => ram[0].Type = "EfiBootServicesCode"
    <3>1. True(M, Entries(0, 1, n), 1, ram) /\ 1 \in Entries(0, 1, n)
      BY <2>3, <2>6 DEF Merged, Entries
    <3>2. 0 \in DOMAIN ram => M[1].Type = ram[0].Type
      BY <2>10, <3>1 DEF True
    <3> QED BY <2>4, <3>2
  <2>14. Account(bd', 1, 2, ram', machine') /\ NullPage(bd', ram')
    BY <1>1, <2>3, <2>5, <2>6, <2>9, <2>10, <2>12, <2>13 DEF Account, NullPage, size
  <2>15. cursor'.next = 2 /\ cursor'.NewLength = 1
    BY <2>1
  <2>16. 2 <= bd'.NumEntries + 1
    BY <2>3, <2>5, <2>6
  <2> QED BY <2>1, <2>14, <2>15, <2>16
          DEF MapInv, CursorInv, FetchedInv, MergeInv, DoneInv, RTInv, Done, Entered
<1> QED BY <1>2, <1>3

\* One iteration of the loop.
LEMMA MapMergeEntry ==
    ASSUME OwnersInv, BdInv, MapInv, MergeEntry
    PROVE  MapInv'
<1> DEFINE M == bd.MemoryMap
           k == cursor.NewLength
           x == cursor.next
           n == bd.NumEntries
           size == MmioSize(machine.mmio)
           d == Reclaimed(M[x])
           q == M[k].NumberOfPages + d.NumberOfPages
<1>1. /\ phase = "merge" /\ phase' = "merge" /\ ram' = ram /\ machine' = machine
      /\ x <= n
  BY DEF MergeEntry, firmware, world
<1>2. /\ k \in Nat /\ x \in Nat /\ 1 <= k /\ k < x /\ Account(bd, k, x, ram, machine)
      /\ NullPage(bd, ram) /\ cursor = [next |-> x, NewLength |-> k]
  BY <1>1 DEF MapInv, MergeInv, CursorInv
<1>3. /\ M \in Seq(Descriptor) /\ Len(M) = CAPACITY /\ n \in Nat /\ n <= Len(M)
      /\ Merged(M, k, x, n, ram, size) /\ CAPACITY \in Nat
  BY <1>2, BootLoaderAssumption DEF Account
<1>4. ram \in [DOMAIN ram -> Region]
  BY RamFacts DEF OwnersInv
<1>5. 1 <= n /\ 0 \in Holds(M[1]) /\ (0 \in DOMAIN ram => ram[0].Type = "EfiBootServicesCode")
  BY <1>2 DEF NullPage
<1>6. /\ k \in 1 .. Len(M) /\ x \in 1 .. Len(M) /\ k + 1 \in 1 .. Len(M) /\ k # x
      /\ M[k] \in Descriptor /\ M[x] \in Descriptor
  BY <1>1, <1>2, <1>3
<1>7. /\ d \in Descriptor /\ d.PhysicalStart = M[x].PhysicalStart
      /\ d.NumberOfPages = M[x].NumberOfPages /\ d.runtime = M[x].runtime
      /\ Holds(d) = Holds(M[x]) /\ MmioPages(d) = MmioPages(M[x])
      /\ M[x].Type \in MmioType => d.Type = M[x].Type
      /\ \A m \in Region : m.Type = M[x].Type => Reclaimed(m).Type = d.Type
  BY <1>6, ReclaimedFields
<1>8. M[k].NumberOfPages \in Nat /\ d.NumberOfPages \in Nat
  BY <1>6, <1>7 DEF Descriptor
<1>9. CASE /\ Mergeable(d, M[k])
           /\ bd' = [bd EXCEPT !.MemoryMap[x] = d, !.MemoryMap[k].NumberOfPages = q]
           /\ cursor' = [cursor EXCEPT !.next = @ + 1]
  <2> DEFINE A == [M EXCEPT ![x] = d]
             e == [M[k] EXCEPT !.NumberOfPages = q]
             N == [A EXCEPT ![k] = e]
  <2>1. bd'.MemoryMap = N /\ bd'.NumEntries = n
    <3> HIDE DEF d, q
    <3>1. bd' = [bd EXCEPT !.MemoryMap = [bd.MemoryMap EXCEPT ![x] = d, ![k].NumberOfPages = q]]
      BY <1>9 DEF BdInv, Fields
    <3>2. [M EXCEPT ![x] = d, ![k].NumberOfPages = q] = N
      <4>1. [M EXCEPT ![x] = d, ![k].NumberOfPages = q] = [A EXCEPT ![k] = [A[k] EXCEPT !.NumberOfPages = q]]
        OBVIOUS
      <4> HIDE DEF M
      <4>2. A[k] = M[k]
        BY <1>3, <1>6
      <4> QED BY <4>1, <4>2
    <3> HIDE DEF N
    <3>3. bd' = [bd EXCEPT !.MemoryMap = N]
      BY <3>1, <3>2
    <3> QED BY <3>3, MemoryMapExcept
  <2>2. e \in Descriptor /\ e.Type = M[k].Type /\ e.runtime = M[k].runtime
        /\ e.PhysicalStart = M[k].PhysicalStart /\ e.NumberOfPages = q
    <3> DEFINE p == M[k]
    <3>1. q \in Nat /\ p \in Descriptor
      BY <1>6, <1>8
    <3> HIDE DEF p, q
    <3>2. [p EXCEPT !.NumberOfPages = q] \in Descriptor
      BY <3>1 DEF Descriptor
    <3>3. /\ [p EXCEPT !.NumberOfPages = q].Type = p.Type
          /\ [p EXCEPT !.NumberOfPages = q].runtime = p.runtime
          /\ [p EXCEPT !.NumberOfPages = q].PhysicalStart = p.PhysicalStart
          /\ [p EXCEPT !.NumberOfPages = q].NumberOfPages = q
      BY <3>1 DEF Descriptor
    <3> QED BY <3>2, <3>3 DEF p
  <2> HIDE DEF M, d, e, q
  <2>3. A \in Seq(Descriptor) /\ Len(A) = Len(M) /\ \A i \in 1 .. Len(M) : i # x => A[i] = M[i]
    BY <1>3, <1>6, <1>7
  <2> HIDE DEF A
  <2>4. N \in Seq(Descriptor) /\ Len(N) = Len(M) /\ N[k] = e
        /\ \A i \in 1 .. Len(M) : i # k => N[i] = A[i]
    BY <1>6, <2>2, <2>3
  <2> HIDE DEF N
  <2>5. \A i \in 1 .. Len(M) : i \notin {k, x} => N[i] = M[i]
    BY <2>3, <2>4
  <2>6. /\ N[k].Type = M[k].Type /\ N[k].runtime = M[k].runtime
        /\ N[k].PhysicalStart = M[k].PhysicalStart
        /\ N[k].NumberOfPages = M[k].NumberOfPages + Reclaimed(M[x]).NumberOfPages
    BY <2>2, <2>4 DEF q, d
  <2>7. Mergeable(Reclaimed(M[x]), M[k])
    BY <1>9 DEF d
  <2> HIDE DEF k, x, n, size
  <2>8. Merged(N, k, x + 1, n, ram, size) /\ 0 \in Holds(N[1])
    BY <1>1, <1>2, <1>3, <1>4, <1>5, <2>4, <2>5, <2>6, <2>7, MergeIntoLast
  <2>9. cursor' = [next |-> x + 1, NewLength |-> k]
    <3>1. cursor' = [cursor EXCEPT !.next = x + 1]
      BY <1>9 DEF x
    <3> QED BY <1>2, <3>1
  <2>10. Account(bd', k, x + 1, ram', machine') /\ NullPage(bd', ram')
    BY <1>1, <1>3, <1>5, <2>1, <2>4, <2>8 DEF Account, NullPage, size
  <2>11. cursor'.next = x + 1 /\ cursor'.NewLength = k
    BY <2>9
  <2>12. /\ x + 1 \in Nat /\ k < x + 1 /\ x + 1 <= bd'.NumEntries + 1
    BY <1>1, <1>2, <1>3, <2>1
  <2> QED BY <1>1, <1>2, <2>9, <2>10, <2>11, <2>12
          DEF MapInv, CursorInv, FetchedInv, MergeInv, DoneInv, RTInv, Done, Entered
<1>10. CASE /\ ~Mergeable(d, M[k])
            /\ bd' = [bd EXCEPT !.MemoryMap[x] = d, !.MemoryMap[k + 1] = d]
            /\ cursor' = [next |-> x + 1, NewLength |-> k + 1]
  <2> DEFINE A == [M EXCEPT ![x] = d]
             l == k + 1
             N == [A EXCEPT ![l] = d]
  <2>1. bd'.MemoryMap = N /\ bd'.NumEntries = n
    <3> HIDE DEF d
    <3>1. bd' = [bd EXCEPT !.MemoryMap = [bd.MemoryMap EXCEPT ![x] = d, ![k + 1] = d]]
      BY <1>10 DEF BdInv, Fields
    <3>2. [M EXCEPT ![x] = d, ![k + 1] = d] = N
      OBVIOUS
    <3> HIDE DEF N
    <3>3. bd' = [bd EXCEPT !.MemoryMap = N]
      BY <3>1, <3>2
    <3> QED BY <3>3, MemoryMapExcept
  <2>2. l \in 1 .. Len(M) /\ l = k + 1
    BY <1>6
  <2> HIDE DEF M, d, l
  <2>3. A \in Seq(Descriptor) /\ Len(A) = Len(M) /\ \A i \in 1 .. Len(M) : i # x => A[i] = M[i]
    BY <1>3, <1>6, <1>7
  <2> HIDE DEF A
  <2>4. N \in Seq(Descriptor) /\ Len(N) = Len(M) /\ N[l] = d
        /\ \A i \in 1 .. Len(M) : i # l => N[i] = A[i]
    BY <1>7, <2>2, <2>3
  <2> HIDE DEF N
  <2>5. \A i \in 1 .. Len(M) : i \notin {l, x} => N[i] = M[i]
    BY <2>3, <2>4
  <2>6. \A f \in Holds(M[x]) : f \in DOMAIN ram => N[l].Type = Claim(ram, f)
    <3> SUFFICES ASSUME NEW f \in Holds(M[x]), f \in DOMAIN ram PROVE d.Type = Claim(ram, f)
      BY <2>4
    <3>1. /\ EntriesApart(M, Entries(k, x, n)) /\ True(M, Entries(k, x, n), x, ram)
          /\ 1 \in Entries(k, x, n) /\ x \in Entries(k, x, n) /\ 1 # x
      BY <1>1, <1>2, <1>3 DEF Merged, Entries
    <3>2. f # 0
      BY <1>5, <3>1 DEF EntriesApart
    <3>3. M[x].Type = ram[f].Type
      <4>1. ~(x < x)
        BY <1>2
      <4> QED BY <3>1, <4>1 DEF True
    <3>4. ram[f] \in Region
      BY <1>4
    <3>5. Reclaimed(ram[f]).Type = d.Type
      BY <1>7, <3>3, <3>4
    <3> QED BY <3>2, <3>5 DEF Claim
  <2>7. /\ Holds(N[l]) = Holds(M[x]) /\ N[l].runtime = M[x].runtime
        /\ MmioPages(N[l]) = MmioPages(M[x])
        /\ M[x].Type \in MmioType => N[l].Type = M[x].Type
        /\ k > 0 => ~Mergeable(N[l], M[k])
    BY <1>7, <1>10, <2>4
  <2> DEFINE y == x + 1
  <2>8. y = x + 1
    OBVIOUS
  <2> HIDE DEF k, x, n, size, y
  <2>9. Merged(N, l, y, n, ram, size)
    BY <1>1, <1>2, <1>3, <2>2, <2>4, <2>5, <2>6, <2>7, <2>8, MergeNext
  <2>10. 0 \in Holds(N[1])
    <3>1. 1 # l /\ 1 # x /\ 1 \in 1 .. Len(M)
      BY <1>2, <1>6, <2>2
    <3>2. N[1] = M[1]
      BY <2>5, <3>1
    <3> QED BY <1>5, <3>2
  <2>11. Account(bd', l, y, ram', machine') /\ NullPage(bd', ram')
    BY <1>1, <1>3, <1>5, <2>1, <2>4, <2>9, <2>10 DEF Account, NullPage, size
  <2>12. cursor' = [next |-> y, NewLength |-> l] /\ cursor'.next = y /\ cursor'.NewLength = l
    BY <1>10, <2>2, <2>8 DEF k, x
  <2>13. y \in Nat /\ l \in Nat /\ 1 <= l /\ l < y /\ y <= bd'.NumEntries + 1
    BY <1>1, <1>2, <1>3, <2>1, <2>2, <2>8
  <2> QED BY <1>1, <2>11, <2>12, <2>13
          DEF MapInv, CursorInv, FetchedInv, MergeInv, DoneInv, RTInv, Done, Entered
<1> QED BY <1>9, <1>10 DEF MergeEntry

\* Physical memory ends behind the RAM and where RoomBelowKernel takes it to end,
\* for the preliminary map has a stretch of the loader, one of the firmware and
\* the I/O.
LEMMA PaddrSizeCovers ==
    ASSUME NEW map, NEW m, NEW L, Machine(m), RoomBelowKernel(m), Preliminary(map, m, L), L # {}
    PROVE  /\ PaddrSize(map) \in Nat /\ MmioSize(m.mmio) \in Nat
           /\ MmioSize(map) = MmioSize(m.mmio)
           /\ \A f \in DOMAIN m.ram : f < PaddrSize(map)
           /\ PaddrSize(map) + MmioSize(m.mmio) < KERNEL_BASE
           /\ PaddrSize(map) + PaddrSize(map) <= KERNEL_BASE
<1>1. PICK r : /\ RamKept(m.ram, r, {})
               /\ \A f \in L :
                     f \in DOMAIN r /\ r[f].Type = "EfiLoaderData" /\ r[f].runtime = FALSE
               /\ map = MapOf(r, m.mmio)
  BY DEF Preliminary
<1> DEFINE n == Stretches(r)
           io == m.mmio
           k == Len(io)
           l == Len(map)
           size == PaddrSize(map)
<1>2. /\ DOMAIN r = DOMAIN m.ram /\ DOMAIN r \subseteq Nat /\ IsFiniteSet(DOMAIN r)
      /\ r \in [DOMAIN r -> Region] /\ io \in Seq(Descriptor) /\ io # << >>
  BY <1>1 DEF Machine, RamKept
<1>3. MapOfIs(r, io, n, map)
  <2>1. n = Stretches(r)
    OBVIOUS
  <2> HIDE DEF n
  <2> QED BY <1>1, <1>2, <2>1, MapOfProperties
<1> HIDE DEF n
<1>4. /\ n \in Nat /\ l = n + k /\ map \in Seq(Descriptor) /\ k \in Nat /\ k >= 1
      /\ DOMAIN io = 1 .. k
  BY <1>2, <1>3 DEF MapOfIs
<1>5. /\ \A j \in 1 .. n : map[j].NumberOfPages > 0
      /\ \A j \in 1 .. n : \A f \in Holds(map[j]) :
            f \in DOMAIN r /\ r[f].Type = map[j].Type /\ r[f].runtime = map[j].runtime
      /\ \A f \in DOMAIN r : \E j \in 1 .. n : f \in Holds(map[j])
      /\ \A i, j \in 1 .. n : i < j =>
            map[i].PhysicalStart < map[j].PhysicalStart /\ Holds(map[i]) \cap Holds(map[j]) = {}
      /\ \A j \in 1 .. k : map[n + j] = io[j]
  BY <1>3 DEF MapOfIs
<1>6. \A j \in 1 .. n : map[j] \in Descriptor /\ map[j].PhysicalStart \in Nat
                        /\ map[j].NumberOfPages \in Nat
  <2> SUFFICES ASSUME NEW j \in 1 .. n
               PROVE  map[j] \in Descriptor /\ map[j].PhysicalStart \in Nat
                      /\ map[j].NumberOfPages \in Nat
    OBVIOUS
  <2>1. j \in 1 .. Len(map)
    BY <1>4
  <2>2. map[j] \in Descriptor
    BY <1>4, <2>1
  <2> QED BY <2>2 DEF Descriptor
<1>7. \A j \in 1 .. k : /\ io[j].Type \in MmioType /\ io[j] \in Descriptor
                        /\ io[j].PhysicalStart \in Nat /\ io[j].NumberOfPages \in Nat
                        /\ \A f \in DOMAIN r : f < io[j].PhysicalStart
  <2> SUFFICES ASSUME NEW j \in 1 .. k
               PROVE  /\ io[j].Type \in MmioType /\ io[j] \in Descriptor
                      /\ io[j].PhysicalStart \in Nat /\ io[j].NumberOfPages \in Nat
                      /\ \A f \in DOMAIN r : f < io[j].PhysicalStart
    OBVIOUS
  <2>1. io[j].Type \in MmioType /\ \A f \in DOMAIN r : f < io[j].PhysicalStart
    BY <1>2, <1>4 DEF Machine
  <2>2. io[j] \in Descriptor
    BY <1>2, <1>4
  <2> QED BY <2>1, <2>2 DEF Descriptor
<1>8. n >= 2
  <2>1. PICK f \in L : f \in DOMAIN r /\ r[f].runtime = FALSE
    BY <1>1
  <2> DEFINE t == m.RT
  <2>2. t \in DOMAIN r /\ r[t].runtime = TRUE
    <3>1. /\ t \in DOMAIN m.ram /\ m.ram[t].runtime /\ m.ram[t].Type # "EfiConventionalMemory"
          /\ m.ram[t] \in Region
      BY DEF Machine
    <3>2. r[t] = m.ram[t]
      BY <1>1, <3>1 DEF RamKept
    <3>3. r[t].runtime \in BOOLEAN
      BY <3>1, <3>2 DEF Region
    <3>4. m.ram[t].runtime = TRUE
      BY <3>1, <3>2, <3>3
    <3> QED BY <1>2, <3>1, <3>2, <3>4
  <2>3. PICK i \in 1 .. n : f \in Holds(map[i])
    BY <1>5, <2>1
  <2>4. PICK j \in 1 .. n : t \in Holds(map[j])
    BY <1>5, <2>2
  <2>5. map[i].runtime = FALSE /\ map[j].runtime = TRUE
    BY <1>5, <2>1, <2>2, <2>3, <2>4
  <2>6. i # j
    BY <2>5
  <2> QED BY <1>4, <2>6
<1>9. size = map[l - 1].PhysicalStart + map[l - 1].NumberOfPages
  <2>1. ~(Len(map) < 3)
    BY <1>4, <1>8
  <2> QED BY <2>1 DEF PaddrSize
<1> DEFINE Sizes == {f + 1 : f \in DOMAIN m.ram}
                    \cup {io[i].PhysicalStart + io[i].NumberOfPages : i \in 1 .. k - 1}
<1>10. \A x \in Sizes : x + MmioSize(io) < KERNEL_BASE /\ x + x <= KERNEL_BASE
  BY DEF RoomBelowKernel
<1>11. size \in Nat /\ size \in Sizes /\ \A f \in DOMAIN r : f < size
  <2> HIDE DEF size
  <2>1. CASE k >= 2
    <3>1. k - 1 \in 1 .. k - 1 /\ k - 1 \in 1 .. k /\ n + (k - 1) = l - 1
      BY <1>4, <2>1
    <3>2. map[l - 1] = io[k - 1]
      BY <1>5, <3>1
    <3> DEFINE a == io[k - 1].PhysicalStart
               b == io[k - 1].NumberOfPages
    <3>3. a \in Nat /\ b \in Nat /\ \A f \in DOMAIN r : f < a
      BY <1>7, <3>1
    <3>4. size = a + b
      BY <1>9, <3>2
    <3>5. size \in Sizes
      BY <3>1, <3>4
    <3> HIDE DEF a, b, Sizes
    <3>6. \A f \in DOMAIN r : f \in Nat
      BY <1>2
    <3> QED BY <3>3, <3>4, <3>5, <3>6
  <2>2. CASE ~(k >= 2)
    <3>1. l - 1 = n /\ n \in 1 .. n
      BY <1>4, <1>8, <2>2
    <3> DEFINE a == map[n].PhysicalStart
               b == map[n].NumberOfPages
    <3>2. a \in Nat /\ b \in Nat /\ b > 0 /\ Holds(map[n]) = a .. a + b - 1 /\ size = a + b
      BY <1>5, <1>6, <1>9, <3>1 DEF Holds
    <3> HIDE DEF a, b
    <3>3. a + b - 1 \in Holds(map[n]) /\ (a + b - 1) + 1 = size /\ a \in Holds(map[n])
      BY <3>2
    <3>4. a + b - 1 \in DOMAIN m.ram
      BY <1>2, <1>5, <3>1, <3>3
    <3>5. size \in Sizes
      BY <3>3, <3>4
    <3>6. \A f \in DOMAIN r : f < size
      <4> SUFFICES ASSUME NEW f \in DOMAIN r PROVE f < size
        OBVIOUS
      <4>1. PICK j \in 1 .. n : f \in Holds(map[j])
        BY <1>5
      <4>2. CASE j = n
        BY <3>2, <4>1, <4>2
      <4>3. CASE j # n
        <5> DEFINE c == map[j].PhysicalStart
                   d == map[j].NumberOfPages
        <5>1. j < n
          BY <1>4, <4>3
        <5>2. c < a /\ Holds(map[j]) \cap Holds(map[n]) = {}
          BY <1>5, <3>1, <5>1 DEF a
        <5>3. c \in Nat /\ d \in Nat /\ Holds(map[j]) = c .. c + d - 1
          BY <1>6 DEF Holds
        <5>4. a \notin c .. c + d - 1 /\ f \in c .. c + d - 1
          BY <3>3, <4>1, <5>2, <5>3
        <5> HIDE DEF c, d
        <5>5. f < a
          BY <3>2, <5>2, <5>3, <5>4
        <5>6. f \in Nat
          BY <5>3, <5>4
        <5> QED BY <3>2, <5>5, <5>6
      <4> QED BY <4>2, <4>3
    <3> QED BY <3>2, <3>5, <3>6
  <2> QED BY <2>1, <2>2
<1>12. MmioSize(io) \in Nat
  <2>1. MmioSize(io) = MmioSum(io, 1 .. k) /\ \A i \in 1 .. k : MmioPages(io[i]) \in Nat
    BY <1>2, MmioSizeIsSum
  <2>2. IsFiniteSet(1 .. k)
    <3>1. 1 \in Int /\ k \in Int
      BY <1>4
    <3> HIDE DEF k
    <3> QED BY <3>1, FS_Interval
  <2> HIDE DEF io, k
  <2> QED BY <2>1, <2>2, MmioSumType
<1>13. MmioSize(map) = MmioSize(io)
  <2>1. \A j \in 1 .. n : map[j].Type \notin MmioType
    <3> SUFFICES ASSUME NEW j \in 1 .. n PROVE map[j].Type \notin MmioType
      OBVIOUS
    <3> DEFINE a == map[j].PhysicalStart
               b == map[j].NumberOfPages
    <3>1. a \in Nat /\ b \in Nat /\ b > 0 /\ Holds(map[j]) = a .. a + b - 1
      BY <1>5, <1>6 DEF Holds
    <3> HIDE DEF a, b
    <3>2. a \in Holds(map[j])
      BY <3>1
    <3>3. a \in DOMAIN m.ram /\ r[a].Type = map[j].Type
      BY <1>2, <1>5, <3>2
    <3>4. m.ram[a].Type \notin MmioType
      BY <3>3 DEF Machine
    <3>5. \/ r[a] = m.ram[a]
          \/ r[a].Type \in {"EfiBootServicesData"} \cup Loaders \cup {"EfiConventionalMemory"}
      BY <1>1, <3>3 DEF RamKept
    <3> QED BY <3>3, <3>4, <3>5 DEF Loaders, MmioType
  <2>2. \A j \in 1 .. Len(io) : map[n + j] = io[j]
    BY <1>5
  <2>3. Len(map) = n + Len(io)
    BY <1>4
  <2> HIDE DEF io
  <2> QED BY <1>2, <1>4, <2>1, <2>2, <2>3, MmioSizeBehind
<1> HIDE DEF size, Sizes, io
<1>14. size + MmioSize(io) < KERNEL_BASE /\ size + size <= KERNEL_BASE
  BY <1>10, <1>11
<1> QED BY <1>2, <1>11, <1>12, <1>13, <1>14 DEF size, io

\* Where the window and the I/O begin: the I/O follows page 0 and the APIC, the
\* window follows the I/O and has room for the frames, and the frames end before
\* it as pages too.
LEMMA BasesRoom ==
    ASSUME OwnersInv, PagedInv, phase \in Tables
    PROVE  /\ bd.paddr_base \in Nat /\ bd.mmio_base \in Nat /\ 0 < bd.mmio_base
           /\ MmioSize(machine.mmio) \in Nat
           /\ bd.mmio_base + MmioSize(machine.mmio) = bd.paddr_base
           /\ KERNEL_BASE \in Nat /\ bd.paddr_base < KERNEL_BASE
           /\ \A f \in DOMAIN ram : f \in Nat /\ bd.paddr_base + f < KERNEL_BASE /\ f < bd.paddr_base
<1> DEFINE size == PaddrSize(prelim)
           io == MmioSize(machine.mmio)
           p == bd.paddr_base
           q == bd.mmio_base
<1>1. Machine(machine) /\ RoomBelowKernel(machine)
  BY WorldFacts DEF OwnersInv
<1>2. Preliminary(prelim, machine, Pages4) /\ Pages4 # {}
  BY DEF OwnersInv, PrelimInv, PrelimOn, LoadedOn, Pages4, LoaderPages
<1>3. /\ size \in Nat /\ io \in Nat /\ MmioSize(prelim) = io
      /\ \A f \in DOMAIN machine.ram : f < size
      /\ size + io < KERNEL_BASE /\ size + size <= KERNEL_BASE
  BY <1>1, <1>2, PaddrSizeCovers
<1>4. p = KERNEL_BASE - size /\ q = KERNEL_BASE - size - MmioSize(prelim)
  BY DEF PagedInv, PagingInv, Paged
<1>5. KERNEL_BASE \in Nat
  BY BootLoaderAssumption DEF VPage
<1>6. DOMAIN ram = DOMAIN machine.ram /\ DOMAIN ram \subseteq Nat /\ machine.RT \in DOMAIN ram
  BY <1>1, RamFacts DEF OwnersInv, Machine
<1> HIDE DEF size, io, p, q
<1>7. 0 < size
  BY <1>3, <1>6
<1>8. /\ p \in Nat /\ q \in Nat /\ 0 < q /\ q + io = p /\ p < KERNEL_BASE
  BY <1>3, <1>4, <1>5, <1>7
<1>9. \A f \in DOMAIN ram : f \in Nat /\ p + f < KERNEL_BASE /\ f < p
  BY <1>3, <1>4, <1>5, <1>6
<1> QED BY <1>3, <1>5, <1>8, <1>9 DEF p, q, io

\* Merging does not look at virtual addresses.
LEMMA MergedSame ==
    ASSUME NEW M, NEW N, NEW k \in Nat, NEW x, NEW y, NEW r, NEW size,
           Merged(M, k, x, x - 1, r, size), x \in Nat, k < x, y = k + 1,
           \A i \in 1 .. k :
              /\ N[i].Type = M[i].Type /\ N[i].runtime = M[i].runtime
              /\ N[i].PhysicalStart = M[i].PhysicalStart
              /\ N[i].NumberOfPages = M[i].NumberOfPages
    PROVE  Merged(N, k, y, k, r, size)
<1> DEFINE E == Entries(k, x, x - 1)
           F == Entries(k, y, k)
<1>1. E = 1 .. k /\ F = 1 .. k
  BY DEF Entries
<1>2. \A i \in 1 .. k : Holds(N[i]) = Holds(M[i]) /\ MmioPages(N[i]) = MmioPages(M[i])
  BY DEF Holds, MmioPages
<1>3. \A i \in 1 .. k : i < x /\ i < y
  OBVIOUS
<1> HIDE DEF E, F
<1>4. EntriesApart(N, F)
  BY <1>1, <1>2 DEF Merged, EntriesApart, E
<1>5. Complete(N, F, r)
  BY <1>1, <1>2 DEF Merged, Complete, E
<1>6. True(N, F, y, r)
  BY <1>1, <1>2, <1>3 DEF Merged, True, E
<1>7. Unmergeable(N, k)
  <2> SUFFICES ASSUME NEW i \in 1 .. k - 1 PROVE ~Mergeable(N[i + 1], N[i])
    BY DEF Unmergeable
  <2>1. i \in 1 .. k /\ i + 1 \in 1 .. k
    OBVIOUS
  <2>2. ~Mergeable(M[i + 1], M[i])
    BY DEF Merged, Unmergeable
  <2> QED BY <2>1, <2>2 DEF Mergeable
<1>8. MmioSum(N, F) = size
  <2>1. MmioSum(M, 1 .. k) = size
    BY <1>1 DEF Merged, E
  <2>2. MmioSum(N, 1 .. k) = MmioSum(M, 1 .. k)
    BY <1>2, MmioSumSame
  <2> QED BY <1>1, <2>1, <2>2
<1> QED BY <1>4, <1>5, <1>6, <1>7, <1>8 DEF Merged, F

\* The end of init_mmap.
LEMMA MapEntriesMerged ==
    ASSUME OwnersInv, PagedInv, MapInv, EntriesMerged
    PROVE  MapInv'
<1> DEFINE M == bd.MemoryMap
           k == cursor.NewLength
           x == cursor.next
           n == bd.NumEntries
           p == bd.paddr_base
           q == bd.mmio_base
           size == MmioSize(machine.mmio)
           NewEntry(i) == [M[i] EXCEPT !.VirtualStart = VirtualStart(M, i)]
           N == [i \in DOMAIN M |-> IF i <= k THEN NewEntry(i) ELSE M[i]]
<1>1. /\ phase = "merge" /\ phase' = "set_virtual" /\ ram' = ram /\ machine' = machine
      /\ cursor' = cursor /\ x > n
      /\ bd' = [bd EXCEPT !.MemoryMap = N, !.NumEntries = k]
  BY DEF EntriesMerged, firmware, world
<1>2. /\ k \in Nat /\ x \in Nat /\ 1 <= k /\ k < x /\ x <= n + 1
      /\ Account(bd, k, x, ram, machine) /\ NullPage(bd, ram)
  BY <1>1 DEF MapInv, MergeInv
<1>3. /\ M \in Seq(Descriptor) /\ Len(M) = CAPACITY /\ n \in Nat /\ n <= Len(M)
      /\ Merged(M, k, x, n, ram, size) /\ CAPACITY \in Nat
  BY <1>2, BootLoaderAssumption DEF Account
<1>4. x - 1 = n /\ k <= n
  BY <1>1, <1>2, <1>3
<1>5. p \in Nat /\ q \in Nat
  BY <1>1, BasesRoom DEF Tables
<1>6. /\ bd'.MemoryMap = N /\ bd'.NumEntries = k
      /\ bd'.paddr_base = p /\ bd'.mmio_base = q
  <2>1. Fields(bd)
    BY DEF PagedInv, BdInv
  <2> HIDE DEF N, k
  <2>2. bd' = [paddr_base |-> bd.paddr_base, mmio_base |-> bd.mmio_base,
               MemoryMap |-> N, NumEntries |-> k, RT |-> bd.RT]
    BY <1>1, <2>1, FieldsExcept
  <2> QED BY <2>2
<1>7. /\ DOMAIN M = 1 .. Len(M) /\ \A i \in 1 .. k : i \in 1 .. Len(M)
      /\ \A i \in 1 .. Len(M) : M[i] \in Descriptor
  BY <1>2, <1>3, <1>4
<1>8. /\ \A i \in 0 .. Len(M) : MmioSize(SubSeq(M, 1, i)) = MmioSum(M, 1 .. i)
      /\ \A i \in 1 .. Len(M) : MmioPages(M[i]) \in Nat
  BY <1>3, MmioSizeIsSum
<1>9. ASSUME NEW i \in 1 .. k
      PROVE  /\ MmioSum(M, 1 .. i - 1) \in Nat
             /\ M[i].Type \in MmioType => VirtualStart(M, i) = q + MmioSum(M, 1 .. i - 1)
             /\ M[i].Type \notin MmioType /\ M[i].runtime =>
                   VirtualStart(M, i) = M[i].PhysicalStart + p
             /\ VirtualStart(M, i) \in Nat
  <2>1. i \in 1 .. Len(M) /\ i - 1 \in 0 .. Len(M)
    BY <1>2, <1>3, <1>7
  <2>2. MmioSize(SubSeq(M, 1, i - 1)) = MmioSum(M, 1 .. i - 1)
    BY <1>8, <2>1
  <2>3. MmioSum(M, 1 .. i - 1) \in Nat
    <3>1. \A j \in 1 .. i - 1 : MmioPages(M[j]) \in Nat
      BY <1>8, <2>1
    <3>2. IsFiniteSet(1 .. i - 1)
      BY FS_Interval
    <3> HIDE DEF M
    <3> QED BY <3>1, <3>2, MmioSumType
  <2>4. M[i].PhysicalStart \in Nat /\ M[i].VirtualStart \in Nat /\ M[i].runtime \in BOOLEAN
    BY <1>7, <2>1 DEF Descriptor
  <2> DEFINE v == VirtualStart(M, i)
             d == M[i]
             s == MmioSum(M, 1 .. i - 1)
  <2>5. v = CASE d.Type \in MmioType -> q + MmioSize(SubSeq(M, 1, i - 1))
              [] d.Type \notin MmioType /\ d.runtime -> d.PhysicalStart + p
              [] OTHER -> d.VirtualStart
    BY DEF VirtualStart
  <2> HIDE DEF v, d, s
  <2>6. d.Type \in MmioType => v = q + s
    BY <2>2, <2>5 DEF s
  <2>7. d.Type \notin MmioType /\ d.runtime => v = d.PhysicalStart + p
    BY <2>5, Zenon
  <2>8. d.Type \notin MmioType /\ ~d.runtime => v = d.VirtualStart
    BY <2>5, Zenon
  <2>9. CASE d.Type \in MmioType
    <3>1. v \in Nat
      BY <1>5, <2>3, <2>6, <2>9 DEF s
    <3> QED BY <2>3, <2>6, <2>9, <3>1 DEF v, d, s
  <2>10. CASE d.Type \notin MmioType /\ d.runtime
    <3>1. v = d.PhysicalStart + p
      BY <2>7, <2>10, Zenon
    <3>2. v \in Nat
      BY <1>5, <2>4, <3>1 DEF d
    <3>3. d.Type \notin MmioType
      BY <2>10, Zenon
    <3> QED BY <2>3, <3>1, <3>2, <3>3 DEF v, d, s
  <2>11. CASE d.Type \notin MmioType /\ ~d.runtime
    <3>1. v \in Nat
      <4>1. v = d.VirtualStart
        BY <2>8, <2>11, Zenon
      <4> QED BY <2>4, <4>1 DEF d
    <3> QED BY <2>3, <2>11, <3>1, Zenon DEF v, d, s
  <2> QED BY <2>9, <2>10, <2>11, Zenon
<1>10. ASSUME NEW i \in 1 .. k
       PROVE  /\ NewEntry(i) \in Descriptor /\ NewEntry(i).VirtualStart = VirtualStart(M, i)
              /\ NewEntry(i).Type = M[i].Type /\ NewEntry(i).runtime = M[i].runtime
              /\ NewEntry(i).PhysicalStart = M[i].PhysicalStart
              /\ NewEntry(i).NumberOfPages = M[i].NumberOfPages
  <2> DEFINE d == M[i]
             v == VirtualStart(M, i)
  <2>1. d \in Descriptor /\ v \in Nat
    BY <1>7, <1>9
  <2>2. NewEntry(i) = [d EXCEPT !.VirtualStart = v]
    OBVIOUS
  <2> HIDE DEF d, v, NewEntry
  <2>3. [d EXCEPT !.VirtualStart = v] \in Descriptor
    BY <2>1 DEF Descriptor
  <2>4. /\ [d EXCEPT !.VirtualStart = v].VirtualStart = v
        /\ [d EXCEPT !.VirtualStart = v].Type = d.Type
        /\ [d EXCEPT !.VirtualStart = v].runtime = d.runtime
        /\ [d EXCEPT !.VirtualStart = v].PhysicalStart = d.PhysicalStart
        /\ [d EXCEPT !.VirtualStart = v].NumberOfPages = d.NumberOfPages
    BY <2>1 DEF Descriptor
  <2> QED BY <2>2, <2>3, <2>4 DEF d, v
<1> HIDE DEF NewEntry
<1>11. /\ N \in Seq(Descriptor) /\ Len(N) = Len(M) /\ \A i \in 1 .. k : N[i] = NewEntry(i)
  <2>1. \A i \in 1 .. Len(M) : N[i] = IF i <= k THEN NewEntry(i) ELSE M[i]
    BY <1>7
  <2>2. DOMAIN N = 1 .. Len(M)
    BY <1>7
  <2>3. \A i \in 1 .. k : i <= k /\ i \in 1 .. Len(M)
    BY <1>7
  <2>4. \A i \in 1 .. Len(M) : i <= k => i \in 1 .. k
    BY <1>2
  <2> HIDE DEF N, k, M
  <2>5. \A i \in 1 .. Len(M) : N[i] \in Descriptor
    BY <1>7, <1>10, <2>1, <2>4
  <2>6. N = [i \in 1 .. Len(M) |-> N[i]]
    BY <2>2 DEF N
  <2>7. N \in Seq(Descriptor) /\ Len(N) = Len(M)
    <3>1. Len(M) \in Nat
      BY <1>3
    <3>2. N \in [1 .. Len(M) -> Descriptor]
      BY <2>5, <2>6
    <3> QED BY <3>1, <3>2, SeqDef, LenProperties
  <2> QED BY <2>1, <2>3, <2>7
<1>12. \A i \in 1 .. k :
          /\ N[i].Type = M[i].Type /\ N[i].runtime = M[i].runtime
          /\ N[i].PhysicalStart = M[i].PhysicalStart
          /\ N[i].NumberOfPages = M[i].NumberOfPages
          /\ N[i].VirtualStart = VirtualStart(M, i)
          /\ MmioPages(N[i]) = MmioPages(M[i]) /\ Holds(N[i]) = Holds(M[i])
  BY <1>10, <1>11 DEF MmioPages, Holds
<1> HIDE DEF N, M, k, x, n, p, q, size
<1>13. Merged(N, k, k + 1, k, ram, size)
  <2>1. Merged(M, k, x, x - 1, ram, size)
    BY <1>3, <1>4
  <2> DEFINE y == k + 1
  <2>2. y = k + 1
    OBVIOUS
  <2> HIDE DEF y
  <2>3. Merged(N, k, y, k, ram, size)
    BY <1>2, <1>12, <2>1, <2>2, MergedSame
  <2> QED BY <2>2, <2>3
<1>14. Account(bd', bd'.NumEntries, bd'.NumEntries + 1, ram', machine')
  BY <1>1, <1>2, <1>3, <1>4, <1>6, <1>11, <1>13 DEF Account, size
<1>15. NullPage(bd', ram')
  BY <1>1, <1>2, <1>6, <1>12 DEF NullPage, M
<1>16. Assigned(bd')
  <2> SUFFICES ASSUME NEW i \in 1 .. k
               PROVE  /\ N[i].Type \in MmioType =>
                            N[i].VirtualStart = q + MmioSum(N, 1 .. i - 1)
                      /\ N[i].Type \notin MmioType /\ N[i].runtime =>
                            N[i].VirtualStart = N[i].PhysicalStart + p
    BY <1>6 DEF Assigned
  <2>1. MmioSum(N, 1 .. i - 1) = MmioSum(M, 1 .. i - 1)
    <3>1. \A j \in 1 .. i - 1 : j \in 1 .. k
      BY <1>2
    <3> QED BY <1>12, <3>1, MmioSumSame
  <2> QED BY <1>9, <1>12, <2>1, Zenon
<1> QED BY <1>1, <1>14, <1>15, <1>16
        DEF MapInv, CursorInv, FetchedInv, MergeInv, DoneInv, RTInv, Done, Entered

\* Step 7 ends with the new address of the runtime services table.
LEMMA MapSetVirtualAddressMap ==
    ASSUME OwnersInv, PagedInv, MapInv, SetVirtualAddressMap
    PROVE  MapInv'
<1>1. /\ phase = "set_virtual" /\ ram' = ram /\ machine' = machine /\ cursor' = cursor
  BY DEF SetVirtualAddressMap, firmware, world
<1>2. CASE phase' = "halt"
  BY <1>1, <1>2, MapElsewhere DEF Done, Entered
<1>3. CASE phase' = "switch" /\ bd' = [bd EXCEPT !.RT = bd.paddr_base + machine.RT]
  <2> DEFINE t == bd.paddr_base + machine.RT
  <2>1. Fields(bd)
    BY DEF PagedInv, BdInv
  <2>2. bd' = [bd EXCEPT !.RT = t]
    BY <1>3
  <2> HIDE DEF t
  <2>3. /\ bd'.MemoryMap = bd.MemoryMap /\ bd'.NumEntries = bd.NumEntries
        /\ bd'.paddr_base = bd.paddr_base /\ bd'.mmio_base = bd.mmio_base /\ bd'.RT = t
    <3>1. bd' = [paddr_base |-> bd.paddr_base, mmio_base |-> bd.mmio_base,
                 MemoryMap |-> bd.MemoryMap, NumEntries |-> bd.NumEntries, RT |-> t]
      BY <2>1, <2>2, FieldsExcept
    <3> QED BY <3>1
  <2>4. /\ Account(bd, bd.NumEntries, bd.NumEntries + 1, ram, machine)
        /\ NullPage(bd, ram) /\ Assigned(bd)
    BY <1>1 DEF MapInv, DoneInv, Done
  <2>5. Account(bd', bd'.NumEntries, bd'.NumEntries + 1, ram', machine')
    BY <1>1, <2>3, <2>4 DEF Account
  <2>6. NullPage(bd', ram') /\ Assigned(bd')
    BY <1>1, <2>3, <2>4 DEF NullPage, Assigned
  <2>7. bd'.RT = bd'.paddr_base + machine'.RT
    BY <1>1, <2>3 DEF t
  <2> QED BY <1>1, <1>3, <2>5, <2>6, <2>7
          DEF MapInv, CursorInv, FetchedInv, MergeInv, DoneInv, RTInv, Done, Entered
<1> QED BY <1>2, <1>3 DEF SetVirtualAddressMap

\* The other steps leave the map alone, or go where nothing is said of it.
LEMMA MapNext ==
    ASSUME OwnersInv, PagedInv, MapInv, [Next]_vars
    PROVE  MapInv'
<1>1. CASE AcquireFinalMap
  BY <1>1, MapAcquireFinalMap DEF PagedInv
<1>2. CASE InitMmap
  BY <1>2, MapInitMmap DEF PagedInv
<1>3. CASE MergeEntry
  BY <1>3, MapMergeEntry DEF PagedInv
<1>4. CASE EntriesMerged
  BY <1>4, MapEntriesMerged
<1>5. CASE SetVirtualAddressMap
  BY <1>5, MapSetVirtualAddressMap
<1>6. CASE ExitBootServices
  <2>1. /\ phase = "exit_bs" /\ phase' = "init_mmap" /\ bd' = bd /\ ram' = ram
        /\ machine' = machine /\ cursor' = cursor
    BY <1>6 DEF ExitBootServices, firmware, world
  <2>2. current
    BY <1>6, Zenon DEF ExitBootServices
  <2>3. Account(bd, 0, 1, ram, machine)
    BY <2>1, <2>2, Zenon DEF MapInv, FetchedInv
  <2>4. Account(bd', 0, 1, ram', machine')
    BY <2>1, <2>3
  <2> QED BY <2>1, <2>4 DEF MapInv, CursorInv, FetchedInv, MergeInv, DoneInv, RTInv, Done, Entered
<1>7. CASE FirmwareEvent
  <2>1. /\ phase \in BootServices /\ phase' = phase /\ current' = FALSE /\ cursor' = cursor
    BY <1>7 DEF FirmwareEvent
  <2>2. phase' \notin {"init_mmap", "merge"} \cup Done
    BY <2>1 DEF BootServices, Done, Entered
  <2>3. ~current'
    BY <2>1, Zenon
  <2>4. FetchedInv' /\ MergeInv' /\ DoneInv' /\ RTInv'
    <3>1. FetchedInv'
      BY <2>2, <2>3, Zenon DEF FetchedInv
    <3>2. MergeInv' /\ DoneInv' /\ RTInv'
      BY <2>2 DEF MergeInv, DoneInv, RTInv, Done
    <3> QED BY <3>1, <3>2
  <2>5. CursorInv'
    BY <2>1 DEF MapInv, CursorInv
  <2> QED BY <2>4, <2>5 DEF MapInv
<1>8. CASE \/ ExitStatus \/ AllocateBootMemory \/ AcquirePreliminaryMap \/ LoadSegment
           \/ KernelLoaded \/ PrepareBootPageTables
  <2>1. cursor' = cursor /\ phase' \notin {"exit_bs", "init_mmap", "merge"} \cup Done
    <3>1. CASE ExitStatus \/ AllocateBootMemory \/ AcquirePreliminaryMap \/ LoadSegment
      BY <3>1 DEF ExitStatus, AllocateBootMemory, AcquirePreliminaryMap, LoadSegment, Done, Entered
    <3>2. CASE KernelLoaded
      BY <3>2 DEF KernelLoaded, Done, Entered
    <3>3. CASE PrepareBootPageTables
      BY <3>3 DEF PrepareBootPageTables, Done, Entered
    <3> QED BY <1>8, <3>1, <3>2, <3>3
  <2> QED BY <2>1, MapElsewhere
<1>9. CASE \/ SetCr3 \/ DoRelocations \/ JumpToKernel
  <2>1. /\ phase \in Entered /\ phase' \in {"fault", "halt"} \cup (Entered \ {"switch"})
        /\ bd' = bd /\ ram' = ram /\ machine' = machine /\ cursor' = cursor
    <3>1. CASE SetCr3
      BY <3>1 DEF SetCr3, firmware, world, Entered
    <3>2. CASE DoRelocations
      <4>1. phase' \in {"fault", "halt", "jump"}
        BY <3>2, Zenon DEF DoRelocations
      <4> QED BY <3>2, <4>1 DEF DoRelocations, firmware, world, Entered
    <3>3. CASE JumpToKernel
      BY <3>3 DEF JumpToKernel, firmware, world, Entered
    <3> QED BY <1>9, <3>1, <3>2, <3>3
  <2>2. CASE phase' \in {"fault", "halt"}
    BY <2>1, <2>2, MapElsewhere DEF Done, Entered
  <2>3. CASE phase' \in Entered
    <3>1. /\ Account(bd, bd.NumEntries, bd.NumEntries + 1, ram, machine)
          /\ NullPage(bd, ram) /\ Assigned(bd) /\ bd.RT = bd.paddr_base + machine.RT
      BY <2>1 DEF MapInv, DoneInv, RTInv, Done
    <3>2. CursorInv' /\ DoneInv' /\ RTInv'
      BY <2>1, <3>1 DEF MapInv, CursorInv, DoneInv, RTInv
    <3>3. FetchedInv' /\ MergeInv'
      BY <2>3 DEF FetchedInv, MergeInv, Entered
    <3> QED BY <3>2, <3>3 DEF MapInv
  <2> QED BY <2>1, <2>2, <2>3
<1>10. CASE Gone \/ UNCHANGED vars
  <2>1. /\ phase' = phase /\ bd' = bd /\ ram' = ram /\ machine' = machine /\ cursor' = cursor
        /\ current' = current
    BY <1>10 DEF Gone, vars, world, firmware
  <2>2. CursorInv' /\ MergeInv' /\ DoneInv' /\ RTInv'
    BY <2>1 DEF MapInv, CursorInv, MergeInv, DoneInv, RTInv
  <2>3. FetchedInv'
    <3>1. FetchedInv
      BY DEF MapInv
    <3> QED BY <2>1, <3>1, Zenon DEF FetchedInv
  <2> QED BY <2>2, <2>3 DEF MapInv
<1> QED BY <1>1, <1>2, <1>3, <1>4, <1>5, <1>6, <1>7, <1>8, <1>9, <1>10, Steps, Zenon

\* The inductive invariant: who owns which frame, what the boot page tables
\* translate, and what the memory map says.
BootLoaderInv == LoaderInv /\ MapInv

\* It holds at the start.
LEMMA BootLoaderInit ==
    ASSUME Init
    PROVE  BootLoaderInv
<1>1. CursorInv
  BY DEF Init, CursorInv
<1>2. FetchedInv /\ MergeInv /\ DoneInv /\ RTInv
  BY DEF Init, FetchedInv, MergeInv, DoneInv, RTInv, Done, Entered
<1> QED BY <1>1, <1>2, LoaderInit DEF BootLoaderInv, MapInv

\* Every step keeps it.
LEMMA BootLoaderNext ==
    ASSUME BootLoaderInv, [Next]_vars
    PROVE  BootLoaderInv'
<1>1. LoaderInv'
  BY LoaderNext DEF BootLoaderInv
<1>2. MapInv'
  BY MapNext DEF BootLoaderInv, LoaderInv
<1> QED BY <1>1, <1>2 DEF BootLoaderInv

\* What the loader uses is RAM of its own that holds nothing of the runtime
\* services.
LEMMA InUseOwned ==
    ASSUME OwnersInv, phase \in Tables
    PROVE  \A f \in InUse : /\ f \in DOMAIN ram /\ ram[f].Type \in Loaders
                            /\ ram[f].runtime = FALSE
<1>1. Owned(ram, pool, Pages4)
  BY DEF OwnersInv, MemoryInv, MemoryOn, PrelimOn, LoadedOn, BootMemory, Pages4
<1>2. Owned(ram, pool, tables)
  BY DEF OwnersInv, TablesInv, TablesApart
<1>3. phdrs \in Seq(Phdr) /\ \A k \in 1 .. Len(phdrs) : Owned(ram, pool, SegmentFrames(phdrs[k]))
  BY DEF OwnersInv, HeadersInv, Headers, SegmentsInv, MemoryOn, PrelimOn, LoadedOn, Segments
<1>4. ASSUME NEW f \in InUse
      PROVE  \/ f \in Pages4 \/ f \in tables
             \/ \E k \in 1 .. Len(phdrs) : f \in SegmentFrames(phdrs[k])
  <2>1. CASE f \in Pages4 \/ f \in tables
    BY <2>1
  <2>2. CASE f \in KernelSegments
    <3>1. DOMAIN phdrs = 1 .. Len(phdrs)
      BY <1>3
    <3>2. PICK k \in 1 .. Len(phdrs) :
             f \in KernelRange(phdrs[k]).ppage .. KernelRange(phdrs[k]).ppage
                                                 + KernelRange(phdrs[k]).n - 1
      BY <2>2, <3>1 DEF KernelSegments
    <3>3. KernelRange(phdrs[k]).ppage = phdrs[k].ppage
      BY DEF KernelRange, PageRange
    <3> QED BY <3>2, <3>3 DEF SegmentFrames
  <2> QED BY <1>4, <2>1, <2>2 DEF InUse, FREE_PAGES, Pages4, LoaderPages
<1> QED BY <1>1, <1>2, <1>3, <1>4 DEF Owned

\* Init_mmap leaves a map with each frame of RAM in exactly one entry, free if the
\* firmware had it free or for boot services and in no other case, the loader's
\* frames among the loader's, and no two neighbours it should have merged:
\* whatever the firmware allocated meanwhile, for every machine and every kernel,
\* and still when the kernel starts.
THEOREM LoaderMapAccountsForRam ==
    /\ Spec => []MapAccountsForRam
    /\ BootSpec => []MapAccountsForRam
<1> DEFINE M == bd.MemoryMap
           n == bd.NumEntries
           Taken == {"EfiReservedMemoryType", "EfiLoaderCode", "EfiLoaderData",
                     "EfiRuntimeServicesCode", "EfiRuntimeServicesData",
                     "EfiUnusableMemory"} \cup MmioType
           Left == {"EfiConventionalMemory", "EfiPalCode",
                    "EfiBootServicesCode", "EfiBootServicesData",
                    "EfiACPIReclaimMemory", "EfiACPIMemoryNVS"}
<1>1. ASSUME BootLoaderInv PROVE MapAccountsForRam
  <2> SUFFICES ASSUME phase \in {"set_virtual", "jump"} PROVE MapAccountsForRam
    BY DEF MapAccountsForRam
  <2>1. OwnersInv /\ phase \in Tables /\ phase \in Done
    BY <1>1 DEF BootLoaderInv, LoaderInv, Tables, Done, Entered
  <2>2. Account(bd, n, n + 1, ram, machine) /\ NullPage(bd, ram)
    BY <1>1, <2>1 DEF BootLoaderInv, MapInv, DoneInv
  <2>3. /\ M \in Seq(Descriptor) /\ Len(M) = CAPACITY /\ n \in Nat /\ n <= CAPACITY
        /\ CAPACITY \in Nat
    BY <2>2, BootLoaderAssumption DEF Account
  <2>4. /\ EntriesApart(M, 1 .. n) /\ Complete(M, 1 .. n, ram) /\ True(M, 1 .. n, n + 1, ram)
        /\ Unmergeable(M, n)
    <3>1. Entries(n, n + 1, n) = 1 .. n
      BY <2>3 DEF Entries
    <3> QED BY <2>2, <3>1 DEF Account, Merged
  <2>5. ram \in [DOMAIN ram -> Region] /\ DOMAIN ram \subseteq Nat
    BY <2>1, RamFacts DEF OwnersInv
  <2>6. \A i \in 1 .. n : /\ M[i].PhysicalStart \in Nat /\ M[i].NumberOfPages \in Nat
                          /\ i < n + 1
    <3> SUFFICES ASSUME NEW i \in 1 .. n
                 PROVE  M[i].PhysicalStart \in Nat /\ M[i].NumberOfPages \in Nat
      BY <2>3
    <3>1. i \in 1 .. Len(M)
      BY <2>3
    <3>2. M[i] \in Descriptor
      BY <2>3, <3>1
    <3> QED BY <3>2 DEF Descriptor
  <2> HIDE DEF M, n
  <2>7. \A f \in DOMAIN ram : \A i \in 1 .. n : i \in EntriesOf(f) <=> f \in Holds(M[i])
    <3> SUFFICES ASSUME NEW f \in DOMAIN ram, NEW i \in 1 .. n
                 PROVE  i \in EntriesOf(f) <=> f \in Holds(M[i])
      OBVIOUS
    <3>1. i \in EntriesOf(f) <=> IN_RANGE(M[i].PhysicalStart, M[i].NumberOfPages, f)
      BY DEF EntriesOf, M, n
    <3>2. f \in Nat /\ M[i].PhysicalStart \in Nat /\ M[i].NumberOfPages \in Nat
      BY <2>5, <2>6
    <3> QED BY <3>1, <3>2 DEF IN_RANGE, Holds
  <2>8. \A f : EntriesOf(f) \subseteq 1 .. n
    BY DEF EntriesOf, n
  <2>9. ASSUME NEW f \in DOMAIN ram, f # 0
        PROVE  \E i \in 1 .. n :
                  /\ EntriesOf(f) = {i} /\ M[i].runtime = ram[f].runtime
                  /\ M[i].Type = Reclaimed(ram[f]).Type
    <3>1. PICK i \in 1 .. n : f \in Holds(M[i])
      BY <2>4 DEF Complete
    <3>2. \A j \in 1 .. n : f \in Holds(M[j]) => j = i
      BY <2>4, <3>1 DEF EntriesApart
    <3>3. EntriesOf(f) = {i}
      BY <2>7, <2>8, <3>1, <3>2
    <3>4. M[i].runtime = ram[f].runtime /\ M[i].Type = Claim(ram, f)
      BY <2>4, <2>6, <3>1 DEF True
    <3>5. Claim(ram, f) = Reclaimed(ram[f]).Type
      BY <2>9 DEF Claim
    <3> QED BY <3>3, <3>4, <3>5
  <2>10. \A d \in Region : /\ Reclaimed(d).Type = "EfiConventionalMemory" <=> d.Type \in Left
                           /\ d.Type \in Loaders => Reclaimed(d).Type = d.Type
    <3> SUFFICES ASSUME NEW d \in Region
                 PROVE  /\ Reclaimed(d).Type = "EfiConventionalMemory" <=> d.Type \in Left
                        /\ d.Type \in Loaders => Reclaimed(d).Type = d.Type
      OBVIOUS
    <3>1. d.Type \in MemoryType
      BY DEF Region
    <3>2. CASE d.Type \in Taken
      <4>1. Reclaimed(d) = d
        BY <3>2 DEF Reclaimed
      <4>2. d.Type \notin Left
        BY <3>2 DEF MmioType
      <4>3. d.Type # "EfiConventionalMemory"
        BY <3>2 DEF MmioType
      <4> QED BY <4>1, <4>2, <4>3
    <3>3. CASE d.Type \notin Taken
      <4>1. Reclaimed(d) = [d EXCEPT !.Type = "EfiConventionalMemory"]
        BY <3>3 DEF Reclaimed
      <4>2. Reclaimed(d).Type = "EfiConventionalMemory"
        BY <4>1 DEF Region
      <4>3. d.Type \in Left /\ d.Type \notin Loaders
        BY <3>1, <3>3 DEF MemoryType, MmioType, Loaders
      <4> QED BY <4>2, <4>3
    <3> QED BY <3>2, <3>3
  <2>11. \A f \in DOMAIN ram \ {0} :
            \E i \in 1 .. bd.NumEntries :
               /\ EntriesOf(f) = {i}
               /\ bd.MemoryMap[i].runtime = ram[f].runtime
               /\ bd.MemoryMap[i].Type = "EfiConventionalMemory" <=> ram[f].Type \in Left
    <3> SUFFICES ASSUME NEW f \in DOMAIN ram, f # 0
                 PROVE  \E i \in 1 .. n :
                           /\ EntriesOf(f) = {i} /\ M[i].runtime = ram[f].runtime
                           /\ M[i].Type = "EfiConventionalMemory" <=> ram[f].Type \in Left
      BY DEF M, n
    <3>1. ram[f] \in Region
      BY <2>5
    <3> QED BY <2>9, <2>10, <3>1
  <2>12. \A f \in InUse : \A i \in EntriesOf(f) :
            bd.MemoryMap[i].Type \in {"EfiLoaderCode", "EfiLoaderData"}
    <3> SUFFICES ASSUME NEW f \in InUse, NEW i \in EntriesOf(f) PROVE M[i].Type \in Loaders
      BY DEF Loaders, M
    <3>1. f \in DOMAIN ram /\ ram[f].Type \in Loaders
      BY <2>1, InUseOwned
    <3>2. f # 0
      BY <2>2, <3>1 DEF NullPage, Loaders
    <3>3. ram[f] \in Region
      BY <2>5, <3>1
    <3> QED BY <2>9, <2>10, <3>1, <3>2, <3>3
  <2>13. \A i \in 2 .. bd.NumEntries - 1 : ~Mergeable(bd.MemoryMap[i + 1], bd.MemoryMap[i])
    BY <2>3, <2>4 DEF Unmergeable, M, n
  <2>14. Len(bd.MemoryMap) <= CAPACITY
    BY <2>3 DEF M
  <2> QED BY <2>11, <2>12, <2>13, <2>14 DEF MapAccountsForRam
<1>2. Spec => []MapAccountsForRam
  BY <1>1, BootLoaderInit, BootLoaderNext, PTL DEF Spec
<1>3. BootSpec => []MapAccountsForRam
  BY <1>1, BootLoaderInit, BootLoaderNext, BootRefines, PTL DEF BootSpec
<1> QED BY <1>2, <1>3
-----------------------------------------------------------------------------
(***************************************************************************)
(* The handover.                                                           *)
(***************************************************************************)
\* The c-th call of map_range that the kernel is going to make, and its pages.
HandedRange(c) == MapRangeCall(Handed, Handed.mmio_base - 1, c)
HandedCall(c) == Pages(HandedRange(c))

\* The calls by what they map: I/O, the frames of the window, the kernel.
IoCall(c, i) ==
    i \in 1 .. bd.NumEntries /\ c = 3 + i /\ bd.MemoryMap[i].Type \in MmioType
WindowFrame(c, f) ==
    \/ c = 1 /\ f = data
    \/ c = 2 /\ f \in free_memory .. free_memory + machine.n_pages - 1
    \/ \E i \in 1 .. bd.NumEntries :
          /\ c = 3 + i /\ bd.MemoryMap[i].Type \notin MmioType
          /\ f \in Holds(bd.MemoryMap[i])
          /\ f \in DOMAIN ram /\ ram[f].runtime = TRUE
KernelCall(c, i) == i \in 1 .. Len(phdrs) /\ c = 3 + bd.NumEntries + i

\* What is in *bootloader_data then.
LEMMA HandedFields ==
    ASSUME BootLoaderInv, phase \in Entered
    PROVE  /\ Handed \in Handover
           /\ Handed.self = bd.paddr_base + data
           /\ Handed.free_memory = bd.paddr_base + free_memory
           /\ Handed.n_pages = machine.n_pages
           /\ Handed.paddr_base = bd.paddr_base /\ Handed.mmio_base = bd.mmio_base
           /\ Handed.RT = bd.paddr_base + machine.RT /\ machine.RT \in DOMAIN ram
           /\ Len(Handed.MemoryMap) = bd.NumEntries /\ bd.NumEntries \in Nat
           /\ DOMAIN Handed.MemoryMap = 1 .. bd.NumEntries
           /\ \A i \in 1 .. bd.NumEntries : Handed.MemoryMap[i] = bd.MemoryMap[i]
           /\ Handed.phdrs = phdrs /\ phdrs \in Seq(Phdr)
           /\ data \in Nat /\ free_memory \in Nat /\ machine.n_pages \in Nat
<1> DEFINE M == bd.MemoryMap
           n == bd.NumEntries
           S == SubSeq(M, 1, n)
<1>1. OwnersInv /\ PagedInv /\ MapInv /\ phase \in Tables /\ phase \in Done
  BY DEF BootLoaderInv, LoaderInv, Entered, Tables, Done
<1>2. bd.paddr_base \in Nat /\ bd.mmio_base \in Nat /\ 0 < bd.mmio_base
      /\ bd.mmio_base + MmioSize(machine.mmio) = bd.paddr_base /\ MmioSize(machine.mmio) \in Nat
  BY <1>1, BasesRoom
<1>3. /\ phdrs \in Seq(Phdr)
      /\ BootMemory(ram, pool, new_stack, data, free_memory, machine.n_pages)
  BY <1>1 DEF OwnersInv, HeadersInv, Headers, MemoryInv, MemoryOn, PrelimOn, LoadedOn
<1>4. data \in Nat /\ free_memory \in Nat
  BY <1>3 DEF BootMemory
<1>5. /\ machine.n_pages \in Nat /\ DOMAIN ram = DOMAIN machine.ram /\ DOMAIN ram \subseteq Nat
      /\ machine.RT \in DOMAIN machine.ram
  BY <1>1, RamFacts, WorldFacts DEF OwnersInv, Machine
<1>6. bd.RT = bd.paddr_base + machine.RT
  BY <1>1 DEF MapInv, RTInv
<1>7. /\ M \in Seq(Descriptor) /\ Len(M) = CAPACITY /\ n \in Nat /\ n <= CAPACITY
      /\ CAPACITY \in Nat
  BY <1>1, BootLoaderAssumption DEF MapInv, DoneInv, Account
<1>8. S \in Seq(Descriptor) /\ Len(S) = n /\ \A i \in 1 .. n : S[i] = M[i]
  <2>1. \A i \in 1 .. n : M[i] \in Descriptor
    BY <1>7
  <2> HIDE DEF M, n
  <2>2. n \in Int /\ 1 \in Int
    BY <1>7
  <2>3. /\ S \in Seq(Descriptor) /\ Len(S) = IF 1 <= n THEN n - 1 + 1 ELSE 0
        /\ \A i \in 1 .. n - 1 + 1 : S[i] = M[1 + i - 1]
    BY <2>1, <2>2, SubSeqProperties
  <2>4. n - 1 + 1 = n /\ \A i \in 1 .. n : 1 + i - 1 = i
    BY <1>7
  <2> HIDE DEF S
  <2> QED BY <1>7, <2>3, <2>4
<1>9. DOMAIN S = 1 .. n
  <2> HIDE DEF S
  <2> QED BY <1>8
<1> HIDE DEF S
<1>10. /\ Handed.self = bd.paddr_base + data
       /\ Handed.free_memory = bd.paddr_base + free_memory
       /\ Handed.n_pages = machine.n_pages
       /\ Handed.paddr_base = bd.paddr_base /\ Handed.mmio_base = bd.mmio_base
       /\ Handed.RT = bd.RT /\ Handed.MemoryMap = S /\ Handed.phdrs = phdrs
  BY DEF Handed, FREE_PAGES, S
<1>11. Handed \in Handover
  <2> DEFINE a == bd.paddr_base
             b == bd.mmio_base
             c == a + data
             d == a + free_memory
             e == machine.n_pages
             t == bd.RT
  <2>1. /\ a \in Nat \ {0} /\ b \in Nat \ {0} /\ c \in Nat /\ d \in Nat /\ e \in Nat /\ t \in Nat
    BY <1>2, <1>4, <1>5, <1>6
  <2>2. Handed = [self |-> c, free_memory |-> d, n_pages |-> e, paddr_base |-> a,
                  mmio_base |-> b, RT |-> t, MemoryMap |-> S, phdrs |-> phdrs]
    BY DEF Handed, FREE_PAGES, S
  <2> HIDE DEF a, b, c, d, e, t
  <2> QED BY <1>3, <1>8, <2>1, <2>2 DEF Handover
<1> QED BY <1>3, <1>4, <1>5, <1>6, <1>7, <1>8, <1>9, <1>10, <1>11

\* The calls, one by one.
LEMMA HandedRanges ==
    ASSUME BootLoaderInv, phase \in Entered
    PROVE  /\ HandedRange(1) = PageRange(data, bd.paddr_base + data, 1, TRUE)
           /\ HandedRange(2) = PageRange(free_memory, bd.paddr_base + free_memory,
                                         machine.n_pages, TRUE)
           /\ HandedRange(3) = PageRange(APIC_PADDR, bd.mmio_base - 1, 1, TRUE)
           /\ \A i \in 1 .. bd.NumEntries : HandedRange(3 + i) = RuntimeRange(bd.MemoryMap[i])
           /\ \A i \in 1 .. Len(phdrs) :
                 HandedRange(3 + bd.NumEntries + i) = KernelRange(phdrs[i])
<1> DEFINE b == Handed
           n == bd.NumEntries
           apic == bd.mmio_base - 1
<1>1. /\ b.self = bd.paddr_base + data /\ b.free_memory = bd.paddr_base + free_memory
      /\ b.n_pages = machine.n_pages /\ b.mmio_base = bd.mmio_base
      /\ b.paddr_base = bd.paddr_base
      /\ Len(b.MemoryMap) = n /\ n \in Nat
      /\ \A i \in 1 .. n : b.MemoryMap[i] = bd.MemoryMap[i]
      /\ b.phdrs = phdrs /\ phdrs \in Seq(Phdr)
  BY HandedFields
<1>2. bd.paddr_base \in Nat /\ bd.mmio_base \in Nat /\ data \in Nat /\ free_memory \in Nat
  BY BasesRoom, HandedFields DEF BootLoaderInv, LoaderInv, Entered, Tables
<1> HIDE DEF b, n
<1>3. Len(phdrs) \in Nat
  BY <1>1
<1>4. \A c : HandedRange(c) = MapRangeCall(b, apic, c)
  BY <1>1 DEF HandedRange, b
<1>5. b.self - b.paddr_base = data /\ b.free_memory - b.paddr_base = free_memory
  BY <1>1, <1>2
<1>6. /\ MapRangeCall(b, apic, 1) = PageRange(b.self - b.paddr_base, b.self, 1, TRUE)
      /\ MapRangeCall(b, apic, 2) = PageRange(b.free_memory - b.paddr_base, b.free_memory,
                                              b.n_pages, TRUE)
      /\ MapRangeCall(b, apic, 3) = PageRange(APIC_PADDR, apic, 1, TRUE)
  BY DEF MapRangeCall
<1>7. ASSUME NEW i \in 1 .. n PROVE HandedRange(3 + i) = RuntimeRange(bd.MemoryMap[i])
  <2> DEFINE c == 3 + i
  <2>1. c # 1 /\ c # 2 /\ c # 3 /\ c > 3 /\ c <= 3 + Len(b.MemoryMap) /\ c - 3 = i
    BY <1>1
  <2> HIDE DEF c
  <2>2. MapRangeCall(b, apic, c) = RuntimeRange(b.MemoryMap[c - 3])
    BY <2>1 DEF MapRangeCall
  <2> QED BY <1>1, <1>4, <2>1, <2>2 DEF c
<1>8. ASSUME NEW i \in 1 .. Len(phdrs)
      PROVE  HandedRange(3 + n + i) = KernelRange(phdrs[i])
  <2> DEFINE c == 3 + n + i
  <2>1. c # 1 /\ c # 2 /\ c # 3 /\ ~(c <= 3 + Len(b.MemoryMap)) /\ c - 3 - Len(b.MemoryMap) = i
    BY <1>1, <1>3
  <2> HIDE DEF c
  <2>2. MapRangeCall(b, apic, c) = KernelRange(b.phdrs[c - 3 - Len(b.MemoryMap)])
    BY <2>1 DEF MapRangeCall
  <2> QED BY <1>1, <1>4, <2>1, <2>2 DEF c
<1> QED BY <1>1, <1>4, <1>5, <1>6, <1>7, <1>8 DEF n

\* Their pages.
LEMMA HandedCalls ==
    ASSUME BootLoaderInv, phase \in Entered
    PROVE  /\ NumCalls(Handed) = 3 + bd.NumEntries + Len(phdrs)
           /\ bd.NumEntries \in Nat /\ Len(phdrs) \in Nat
           /\ HandedCall(1) = {bd.paddr_base + data}
           /\ HandedCall(2) = bd.paddr_base + free_memory
                              .. bd.paddr_base + free_memory + machine.n_pages - 1
           /\ HandedCall(3) = {bd.mmio_base - 1}
           /\ \A i \in 1 .. bd.NumEntries :
                 HandedCall(3 + i) = Pages(RuntimeRange(bd.MemoryMap[i]))
           /\ \A i \in 1 .. Len(phdrs) :
                 HandedCall(3 + bd.NumEntries + i) = Pages(KernelRange(phdrs[i]))
<1>1. /\ bd.NumEntries \in Nat /\ Len(Handed.MemoryMap) = bd.NumEntries
      /\ Handed.phdrs = phdrs /\ phdrs \in Seq(Phdr)
  BY HandedFields
<1>2. bd.paddr_base \in Nat /\ bd.mmio_base \in Nat /\ data \in Nat
  BY BasesRoom, HandedFields DEF BootLoaderInv, LoaderInv, Entered, Tables
<1>3. NumCalls(Handed) = 3 + bd.NumEntries + Len(phdrs) /\ Len(phdrs) \in Nat
  BY <1>1 DEF NumCalls
<1>4. \A x \in Int : x .. x + 1 - 1 = {x}
  OBVIOUS
<1>5. HandedCall(1) = {bd.paddr_base + data}
  <2>1. HandedCall(1) = bd.paddr_base + data .. bd.paddr_base + data + 1 - 1
    BY HandedRanges DEF HandedCall, Pages, PageRange
  <2> QED BY <1>2, <1>4, <2>1
<1>6. HandedCall(3) = {bd.mmio_base - 1}
  <2>1. HandedCall(3) = bd.mmio_base - 1 .. bd.mmio_base - 1 + 1 - 1
    BY HandedRanges DEF HandedCall, Pages, PageRange
  <2> QED BY <1>2, <1>4, <2>1
<1>7. HandedCall(2) = bd.paddr_base + free_memory
                      .. bd.paddr_base + free_memory + machine.n_pages - 1
  BY HandedRanges DEF HandedCall, Pages, PageRange
<1>8. /\ \A i \in 1 .. bd.NumEntries : HandedCall(3 + i) = Pages(RuntimeRange(bd.MemoryMap[i]))
      /\ \A i \in 1 .. Len(phdrs) :
            HandedCall(3 + bd.NumEntries + i) = Pages(KernelRange(phdrs[i]))
  BY HandedRanges DEF HandedCall
<1> QED BY <1>1, <1>3, <1>5, <1>6, <1>7, <1>8

\* I/O starts where that of the entries before ends, and stays below the window.
LEMMA IoPages ==
    ASSUME BootLoaderInv, phase \in Entered
    PROVE  /\ \A c, i, v : IoCall(c, i) /\ v \in HandedCall(c) =>
                 /\ v \in Nat /\ v < bd.paddr_base
                 /\ bd.mmio_base + MmioSum(bd.MemoryMap, 1 .. i - 1) <= v
                 /\ v < bd.mmio_base + MmioSum(bd.MemoryMap, 1 .. i)
           /\ \A i, j \in 1 .. bd.NumEntries : i < j =>
                 MmioSum(bd.MemoryMap, 1 .. i) <= MmioSum(bd.MemoryMap, 1 .. j - 1)
           /\ \A i \in 0 .. bd.NumEntries : MmioSum(bd.MemoryMap, 1 .. i) \in Nat
<1> DEFINE M == bd.MemoryMap
           n == bd.NumEntries
           q == bd.mmio_base
           p == bd.paddr_base
           size == MmioSize(machine.mmio)
           Sum(i) == MmioSum(M, 1 .. i)
<1>1. OwnersInv /\ PagedInv /\ MapInv /\ phase \in Tables /\ phase \in Done
  BY DEF BootLoaderInv, LoaderInv, Entered, Tables, Done
<1>2. p \in Nat /\ q \in Nat /\ q + size = p /\ size \in Nat
  BY <1>1, BasesRoom
<1>3. Account(bd, n, n + 1, ram, machine) /\ Assigned(bd)
  BY <1>1 DEF MapInv, DoneInv
<1>4. /\ M \in Seq(Descriptor) /\ n \in Nat /\ n <= Len(M)
      /\ Merged(M, n, n + 1, n, ram, size)
  BY <1>3 DEF Account
<1>5. MmioSum(M, 1 .. n) = size
  <2>1. Entries(n, n + 1, n) = 1 .. n
    BY <1>4 DEF Entries
  <2> QED BY <1>4, <2>1 DEF Merged
<1>6. \A i \in 1 .. n : MmioPages(M[i]) \in Nat /\ M[i] \in Descriptor
  <2>1. \A i \in 1 .. Len(M) : MmioPages(M[i]) \in Nat
    BY <1>4, MmioSizeIsSum
  <2> QED BY <1>4, <2>1
<1>7. IsFiniteSet(1 .. n)
  <2>1. 1 \in Int /\ n \in Int
    BY <1>4
  <2> HIDE DEF n
  <2> QED BY <2>1, FS_Interval
<1> HIDE DEF M, n
<1>8. \A T \in SUBSET (1 .. n) : MmioSum(M, T) \in Nat /\ MmioSum(M, T) <= MmioSum(M, 1 .. n)
  BY <1>6, <1>7, MmioSumType
<1>9. \A i \in 0 .. n : Sum(i) \in Nat /\ Sum(i) <= size
  <2> SUFFICES ASSUME NEW i \in 0 .. n PROVE Sum(i) \in Nat /\ Sum(i) <= size
    OBVIOUS
  <2>1. 1 .. i \in SUBSET (1 .. n)
    BY <1>4
  <2> QED BY <1>5, <1>8, <2>1
<1>10. ASSUME NEW i \in 1 .. n, NEW j \in 1 .. n, i < j PROVE Sum(i) <= Sum(j - 1)
  <2> DEFINE S == 1 .. j - 1
  <2>1. 1 .. i \in SUBSET S /\ \A k \in S : k \in 1 .. n
    BY <1>4, <1>10
  <2>2. IsFiniteSet(S)
    <3> DEFINE k == j - 1
    <3>1. 1 \in Int /\ k \in Int
      BY <1>4
    <3> HIDE DEF k
    <3>2. IsFiniteSet(1 .. k)
      BY <3>1, FS_Interval
    <3> QED BY <3>2 DEF k
  <2> HIDE DEF S
  <2>3. \A T \in SUBSET S : MmioSum(M, T) \in Nat /\ MmioSum(M, T) <= MmioSum(M, S)
    BY <1>6, <2>1, <2>2, MmioSumType
  <2> QED BY <2>1, <2>3 DEF S
<1>11. ASSUME NEW i \in 1 .. n PROVE Sum(i) = Sum(i - 1) + MmioPages(M[i])
  <2> DEFINE S == 1 .. i - 1
  <2>1. i \notin S /\ S \cup {i} = 1 .. i /\ \A k \in S \cup {i} : k \in 1 .. n
    BY <1>4
  <2>2. IsFiniteSet(S)
    <3> DEFINE k == i - 1
    <3>1. 1 \in Int /\ k \in Int
      BY <1>4
    <3> HIDE DEF k
    <3>2. IsFiniteSet(1 .. k)
      BY <3>1, FS_Interval
    <3> QED BY <3>2 DEF k
  <2> HIDE DEF S
  <2>3. MmioSum(M, S \cup {i}) = MmioSum(M, S) + MmioPages(M[i])
    BY <1>6, <2>1, <2>2, MmioSumAdd
  <2> QED BY <2>1, <2>3 DEF S
<1>12. ASSUME NEW c, NEW i, NEW v, IoCall(c, i), v \in HandedCall(c)
       PROVE  /\ v \in Nat /\ v < p /\ q + Sum(i - 1) <= v /\ v < q + Sum(i)
  <2>1. i \in 1 .. n /\ c = 3 + i /\ M[i].Type \in MmioType
    BY <1>12 DEF IoCall, M, n
  <2> DEFINE s == Sum(i - 1)
             t == Sum(i)
             k == M[i].NumberOfPages
             a == M[i].VirtualStart
             l == IF M[i].runtime THEN k ELSE 0
  <2>2. k \in Nat /\ a = q + s /\ MmioPages(M[i]) = k
    <3>1. k \in Nat
      BY <1>6, <2>1 DEF Descriptor
    <3>2. a = q + s
      BY <1>3, <2>1 DEF Assigned, M, n
    <3> QED BY <2>1, <3>1, <3>2 DEF MmioPages
  <2>3. s \in Nat /\ t \in Nat /\ t <= size /\ t = s + k
    <3>1. i \in 0 .. n /\ i - 1 \in 0 .. n
      BY <1>4, <2>1
    <3> HIDE DEF Sum, k
    <3> QED BY <1>9, <1>11, <2>1, <2>2, <3>1
  <2>4. v \in Pages(RuntimeRange(M[i]))
    BY <1>12, <2>1, HandedCalls DEF M, n
  <2>5. v \in a .. a + l - 1
    BY <2>4 DEF Pages, RuntimeRange, PageRange
  <2>6. l \in Nat /\ l <= k
    BY <2>2
  <2> HIDE DEF s, t, k, a, l
  <2>7. v \in Nat /\ q + s <= v /\ v < q + t
    BY <1>2, <2>2, <2>3, <2>5, <2>6
  <2>8. v < p
    BY <1>2, <2>3, <2>7
  <2> QED BY <2>7, <2>8 DEF s, t
<1> QED BY <1>9, <1>10, <1>12 DEF M, n

\* In the window each call has its frames of RAM, and no other has them.
LEMMA WindowPages ==
    ASSUME BootLoaderInv, phase \in Entered
    PROVE  /\ \A c \in 1 .. 3 + bd.NumEntries :
                 \/ c = 3 \/ \E i : IoCall(c, i)
                 \/ \A v \in HandedCall(c) : \E f : WindowFrame(c, f) /\ v = bd.paddr_base + f
           /\ \A c, f : WindowFrame(c, f) => f \in DOMAIN ram
           /\ \A c, d, f : WindowFrame(c, f) /\ WindowFrame(d, f) => c = d
<1> DEFINE M == bd.MemoryMap
           n == bd.NumEntries
           p == bd.paddr_base
           np == machine.n_pages
<1>1. OwnersInv /\ PagedInv /\ MapInv /\ phase \in Tables /\ phase \in Done
  BY DEF BootLoaderInv, LoaderInv, Entered, Tables, Done
<1>2. p \in Nat
  BY <1>1, BasesRoom
<1>3. /\ BootMemory(ram, pool, new_stack, data, free_memory, np)
      /\ data \in Nat /\ free_memory \in Nat /\ np \in Nat
  BY <1>1, HandedFields DEF OwnersInv, MemoryInv, MemoryOn, PrelimOn, LoadedOn
<1>4. /\ Account(bd, n, n + 1, ram, machine) /\ Assigned(bd)
      /\ M \in Seq(Descriptor) /\ n \in Nat /\ n <= Len(M)
  BY <1>1 DEF MapInv, DoneInv, Account
<1>5. EntriesApart(M, 1 .. n) /\ True(M, 1 .. n, n + 1, ram)
  <2>1. Entries(n, n + 1, n) = 1 .. n
    BY <1>4 DEF Entries
  <2> QED BY <1>4, <2>1 DEF Account, Merged
<1>6. \A i \in 1 .. n : /\ M[i].PhysicalStart \in Nat /\ M[i].NumberOfPages \in Nat
                        /\ M[i].runtime \in BOOLEAN
  <2> SUFFICES ASSUME NEW i \in 1 .. n
               PROVE  /\ M[i].PhysicalStart \in Nat /\ M[i].NumberOfPages \in Nat
                      /\ M[i].runtime \in BOOLEAN
    OBVIOUS
  <2>1. i \in 1 .. Len(M)
    BY <1>4
  <2>2. M[i] \in Descriptor
    BY <1>4, <2>1
  <2> QED BY <2>2 DEF Descriptor
<1>7. data \in DOMAIN ram /\ ram[data].runtime = FALSE
      /\ \A f \in free_memory .. free_memory + np - 1 :
            f \in DOMAIN ram /\ ram[f].runtime = FALSE /\ f # data
  <2>1. data \in data .. data + 1
    BY <1>3
  <2>2. /\ Owned(ram, pool, LoaderPages(new_stack, data, free_memory, np))
        /\ data .. data + 1 \cap free_memory .. free_memory + np - 1 = {}
    BY <1>3 DEF BootMemory
  <2> QED BY <2>1, <2>2 DEF Owned, LoaderPages
<1> HIDE DEF M, n, p, np
<1>8. ASSUME NEW i \in 1 .. n, M[i].Type \notin MmioType, NEW v \in HandedCall(3 + i)
      PROVE  \E f \in Holds(M[i]) : f \in DOMAIN ram /\ ram[f].runtime = TRUE /\ v = p + f
  <2>1. v \in Pages(RuntimeRange(M[i]))
    BY <1>8, HandedCalls DEF M, n
  <2> DEFINE k == M[i].NumberOfPages
             a == M[i].VirtualStart
             s == M[i].PhysicalStart
             l == IF M[i].runtime THEN k ELSE 0
  <2>2. v \in a .. a + l - 1
    BY <2>1 DEF Pages, RuntimeRange, PageRange
  <2>3. CASE M[i].runtime = FALSE
    <3>1. l = 0
      BY <2>3
    <3>2. \A x : 0 \in Nat /\ v \in x .. x + 0 - 1 => x <= v /\ v <= x + 0 - 1
      OBVIOUS
    <3>3. a \in Nat
      <4>1. i \in 1 .. Len(M)
        BY <1>4
      <4>2. M[i] \in Descriptor
        BY <1>4, <4>1
      <4> QED BY <4>2 DEF Descriptor
    <3> HIDE DEF a, l
    <3> QED BY <2>2, <3>1, <3>3
  <2>4. CASE M[i].runtime = TRUE
    <3>1. M[i].runtime
      BY <2>4
    <3>2. a = s + p /\ l = k
      BY <1>4, <1>8, <3>1 DEF Assigned, M, n, p
    <3>3. k \in Nat /\ s \in Nat
      BY <1>6
    <3> DEFINE f == v - p
    <3>4. f \in s .. s + k - 1 /\ v = p + f
      <4> HIDE DEF a, l, k, s
      <4> QED BY <1>2, <2>2, <3>2, <3>3
    <3>5. f \in Holds(M[i])
      BY <3>4 DEF Holds
    <3> HIDE DEF f
    <3>6. f \in DOMAIN ram
      BY <1>5, <1>8, <3>5 DEF True
    <3>7. M[i].runtime = ram[f].runtime
      BY <1>5, <3>5, <3>6 DEF True
    <3> QED BY <2>4, <3>4, <3>5, <3>6, <3>7
  <2> QED BY <1>6, <2>3, <2>4
<1>9. ASSUME NEW c \in 1 .. 3 + n
      PROVE  \/ c = 3 \/ \E i : IoCall(c, i)
             \/ \A v \in HandedCall(c) : \E f : WindowFrame(c, f) /\ v = p + f
  <2>1. CASE c = 1
    <3>1. HandedCall(1) = {p + data}
      BY HandedCalls DEF p
    <3>2. WindowFrame(1, data)
      BY DEF WindowFrame
    <3> QED BY <2>1, <3>1, <3>2
  <2>2. CASE c = 2
    <3>1. HandedCall(2) = p + free_memory .. p + free_memory + np - 1
      BY HandedCalls DEF p, np
    <3> SUFFICES ASSUME NEW v \in HandedCall(2)
                 PROVE  \E f : WindowFrame(2, f) /\ v = p + f
      BY <2>2
    <3> DEFINE f == v - p
    <3>2. f \in free_memory .. free_memory + np - 1 /\ v = p + f
      BY <1>2, <1>3, <3>1
    <3>3. WindowFrame(2, f)
      BY <3>2 DEF WindowFrame, np
    <3> QED BY <3>2, <3>3
  <2>3. CASE c \in 4 .. 3 + n
    <3> DEFINE i == c - 3
    <3>1. i \in 1 .. n /\ c = 3 + i
      BY <1>4, <2>3
    <3> HIDE DEF i
    <3>2. CASE M[i].Type \in MmioType
      <4>1. IoCall(c, i)
        BY <3>1, <3>2 DEF IoCall, M, n
      <4> QED BY <4>1
    <3>3. CASE M[i].Type \notin MmioType
      <4> SUFFICES ASSUME NEW v \in HandedCall(c)
                   PROVE  \E f : WindowFrame(c, f) /\ v = p + f
        OBVIOUS
      <4>1. PICK f \in Holds(M[i]) : f \in DOMAIN ram /\ ram[f].runtime = TRUE /\ v = p + f
        BY <1>8, <3>1, <3>3
      <4>2. WindowFrame(c, f)
        BY <3>1, <3>3, <4>1 DEF WindowFrame, M, n
      <4> QED BY <4>1, <4>2
    <3> QED BY <3>2, <3>3
  <2>4. c = 1 \/ c = 2 \/ c = 3 \/ c \in 4 .. 3 + n
    BY <1>4
  <2> QED BY <2>1, <2>2, <2>3, <2>4
<1>10. \A c, f : WindowFrame(c, f) => f \in DOMAIN ram
  BY <1>7 DEF WindowFrame, np
<1>11. ASSUME NEW c, NEW d, NEW f, WindowFrame(c, f), WindowFrame(d, f) PROVE c = d
  <2>1. ASSUME NEW e, WindowFrame(e, f)
        PROVE  \/ e = 1 /\ f = data
               \/ e = 2 /\ f \in free_memory .. free_memory + np - 1
               \/ \E i \in 1 .. n : e = 3 + i /\ f \in Holds(M[i]) /\ ram[f].runtime = TRUE
    BY <2>1 DEF WindowFrame, M, n, np
  <2>2. \A i, j \in 1 .. n : f \in Holds(M[i]) /\ f \in Holds(M[j]) => i = j
    BY <1>5 DEF EntriesApart
  <2>3. \/ f = data /\ c = 1 /\ d = 1
        \/ f # data /\ c = 2 /\ d = 2
        \/ \E i, j \in 1 .. n : /\ c = 3 + i /\ d = 3 + j
                               /\ f \in Holds(M[i]) /\ f \in Holds(M[j])
    <3>1. CASE ram[f].runtime = TRUE
      <4>1. f # data /\ f \notin free_memory .. free_memory + np - 1
        BY <1>7, <3>1
      <4> QED BY <1>11, <2>1, <4>1
    <3>2. CASE ram[f].runtime # TRUE
      BY <1>7, <1>11, <2>1, <3>2
    <3> QED BY <3>1, <3>2
  <2>4. CASE \E i, j \in 1 .. n : /\ c = 3 + i /\ d = 3 + j
                                 /\ f \in Holds(M[i]) /\ f \in Holds(M[j])
    BY <2>2, <2>4
  <2> QED BY <2>3, <2>4
<1> QED BY <1>9, <1>10, <1>11 DEF n, p

\* The pages of the kernel are those of its segments, above the window.
LEMMA SegmentCalls ==
    ASSUME BootLoaderInv, phase \in Entered
    PROVE  /\ \A i \in 1 .. Len(phdrs) : \A v \in Pages(KernelRange(phdrs[i])) :
                 v \in VPage /\ KERNEL_BASE <= v
           /\ \A i, j \in 1 .. Len(phdrs) : i # j =>
                 Pages(KernelRange(phdrs[i])) \cap Pages(KernelRange(phdrs[j])) = {}
           /\ \A i \in 1 .. Len(phdrs) : phdrs[i].p_type = "PT_GNU_RELRO" =>
                 \A v \in phdrs[i].vpage .. phdrs[i].vpage
                          + NUM_PAGES(phdrs[i].offset, phdrs[i].p_memsz) - 1 :
                    v \in VPage /\ KERNEL_BASE <= v
<1>1. OwnersInv /\ PagedInv /\ phase \in Tables
  BY DEF BootLoaderInv, LoaderInv, Entered, Tables
<1>2. /\ World /\ Headers(phdrs, image.phdrs) /\ Len(phdrs) = Len(image.phdrs)
      /\ phdrs \in Seq(Phdr)
  BY <1>1 DEF OwnersInv, HeadersInv, Headers, LoadedOn
<1>3. Linked(image) /\ image.phdrs \in Seq(FilePhdr)
  BY <1>2, WorldFacts DEF Linked, Image
<1>4. KERNEL_BASE \in Nat
  BY <1>1, BasesRoom
<1>5. ASSUME NEW i \in 1 .. Len(phdrs), phdrs[i].p_type \in {"PT_LOAD", "PT_GNU_RELRO"},
             NEW v \in phdrs[i].vpage .. phdrs[i].vpage
                       + NUM_PAGES(phdrs[i].offset, phdrs[i].p_memsz) - 1
      PROVE  v \in VPage /\ KERNEL_BASE <= v
  <2> DEFINE h == image.phdrs[i]
             k == NUM_PAGES(h.offset, h.p_memsz)
             a == h.vpage
  <2>1. i \in DOMAIN image.phdrs /\ h \in FilePhdr
    BY <1>2, <1>3
  <2>2. /\ phdrs[i].p_type = h.p_type /\ phdrs[i].offset = h.offset
        /\ phdrs[i].p_memsz = h.p_memsz /\ phdrs[i].vpage = a + KERNEL_BASE
    <3>1. Alike(phdrs[i], h)
      BY <1>2 DEF Headers
    <3> QED BY <1>5, <3>1 DEF Alike
  <2>3. h.p_type \in {"PT_LOAD", "PT_GNU_RELRO"} =>
           KERNEL_BASE + h.vpage .. KERNEL_BASE + h.vpage + NUM_PAGES(h.offset, h.p_memsz) - 1
           \subseteq VPage
    BY <1>3, <2>1 DEF Linked
  <2>4. KERNEL_BASE + a .. KERNEL_BASE + a + k - 1 \subseteq VPage
    BY <1>5, <2>2, <2>3
  <2>5. a \in Nat /\ k \in Nat
    <3>1. h.offset \in 0 .. PAGE_SIZE - 1 /\ h.p_memsz \in Nat /\ h.vpage \in Nat
      BY <2>1 DEF FilePhdr
    <3> QED BY <3>1, SegmentPages
  <2>6. v \in a + KERNEL_BASE .. a + KERNEL_BASE + k - 1
    BY <1>5, <2>2
  <2> HIDE DEF a, k
  <2>7. v \in KERNEL_BASE + a .. KERNEL_BASE + a + k - 1 /\ KERNEL_BASE <= v
    BY <1>4, <2>5, <2>6
  <2> QED BY <2>4, <2>7
<1>6. ASSUME NEW i \in 1 .. Len(phdrs), NEW v \in Pages(KernelRange(phdrs[i]))
      PROVE  v \in VPage /\ KERNEL_BASE <= v
  <2> DEFINE l == IF phdrs[i].p_type = "PT_LOAD"
                  THEN NUM_PAGES(phdrs[i].offset, phdrs[i].p_memsz) ELSE 0
             a == phdrs[i].vpage
  <2>1. v \in a .. a + l - 1
    BY <1>6 DEF Pages, KernelRange, PageRange
  <2>2. phdrs[i].p_type = "PT_LOAD"
    <3> SUFFICES ASSUME phdrs[i].p_type # "PT_LOAD" PROVE FALSE
      OBVIOUS
    <3>1. l = 0
      OBVIOUS
    <3>2. phdrs[i] \in Phdr
      BY <1>2
    <3>3. a \in Nat
      BY <3>2 DEF Phdr
    <3> HIDE DEF a, l
    <3> QED BY <2>1, <3>1, <3>3
  <2> QED BY <1>5, <2>1, <2>2
<1>7. ASSUME NEW i \in 1 .. Len(phdrs), NEW j \in 1 .. Len(phdrs), i # j
      PROVE  Pages(KernelRange(phdrs[i])) \cap Pages(KernelRange(phdrs[j])) = {}
  <2> DEFINE base == KERNEL_BASE - PaddrSize(prelim)
             n == machine.n_pages
             R == RangesOf(prelim, data, free_memory, n, phdrs, base)
             k == Len(prelim)
  <2>1. ~Remap(R)
    BY <1>1 DEF PagedInv, PagingInv, Paged
  <2>2. prelim \in Seq(Descriptor)
    BY <1>1, <1>2, WorldFacts, PrelimFacts DEF OwnersInv, PrelimInv, PrelimOn, LoadedOn
  <2>3. base \in Int
    BY <2>2, PaddrSizeType, <1>4
  <2>4. n \in Int /\ data \in Int /\ free_memory \in Int
    BY HandedFields
  <2> HIDE DEF n, base
  <2>5. RangesAre(R, prelim, data, free_memory, n, phdrs, base)
    <3>1. RangesAre(RangesOf(prelim, data, free_memory, n, phdrs, base),
                    prelim, data, free_memory, n, phdrs, base)
      BY <1>2, <2>2, <2>3, <2>4, RangesOfProperties
    <3> QED BY <3>1
  <2> HIDE DEF R
  <2>6. /\ R \in Seq(Run) /\ Len(R) = k + 2 + Len(phdrs)
        /\ \A m \in 1 .. Len(phdrs) : R[k + 2 + m] = KernelRange(phdrs[m])
    BY <2>5 DEF RangesAre
  <2>7. k \in Nat /\ Len(phdrs) \in Nat /\ DOMAIN R = 1 .. k + 2 + Len(phdrs)
    BY <1>2, <2>2, <2>6
  <2> HIDE DEF k
  <2>8. k + 2 + i \in DOMAIN R /\ k + 2 + j \in DOMAIN R /\ k + 2 + i # k + 2 + j
    BY <1>7, <2>7
  <2>9. Pages(R[k + 2 + i]) \cap Pages(R[k + 2 + j]) = {}
    BY <2>1, <2>8 DEF Remap
  <2> QED BY <2>6, <2>9
<1> QED BY <1>5, <1>6, <1>7

\* The boot page tables map, from the window on, the struct, the free memory and
\* the kernel: the pages they map one to one are RAM and end before it.
LEMMA BootTablesMeet ==
    ASSUME BootLoaderInv, phase \in Entered
    PROVE  /\ {v \in DOMAIN boot : v >= Handed.paddr_base} = BootWindow(Handed) \cup KernelPages(Handed)
           /\ \A v \in BootWindow(Handed) : Writes(v, v - Handed.paddr_base)
           /\ \A v \in BootWindow(Handed) : v \in Nat /\ bd.paddr_base <= v /\ v < KERNEL_BASE
           /\ \A v \in FreeMemory(Handed) : v - Handed.paddr_base \in DOMAIN ram
<1> DEFINE p == bd.paddr_base
           np == machine.n_pages
           B == {p + data} \cup p + free_memory .. p + free_memory + np - 1
           KP == UNION {Pages(KernelRange(phdrs[i])) : i \in 1 .. Len(phdrs)}
<1>1. OwnersInv /\ PagedInv /\ phase \in Tables
  BY DEF BootLoaderInv, LoaderInv, Entered, Tables
<1>2. /\ p \in Nat /\ KERNEL_BASE \in Nat /\ p < KERNEL_BASE
      /\ \A f \in DOMAIN ram : f \in Nat /\ p + f < KERNEL_BASE /\ f < p
  BY <1>1, BasesRoom
<1>3. /\ Handed.self = p + data /\ Handed.free_memory = p + free_memory
      /\ Handed.n_pages = np /\ Handed.paddr_base = p /\ Handed.phdrs = phdrs
      /\ data \in Nat /\ free_memory \in Nat /\ np \in Nat
  BY HandedFields
<1>4. data \in DOMAIN ram /\ \A f \in free_memory .. free_memory + np - 1 : f \in DOMAIN ram
  <2>1. WindowFrame(1, data) /\ \A f \in free_memory .. free_memory + np - 1 : WindowFrame(2, f)
    BY DEF WindowFrame
  <2> QED BY <2>1, WindowPages
<1>5. /\ BootWindow(Handed) = B /\ KernelPages(Handed) = KP
      /\ FreeMemory(Handed) = p + free_memory .. p + free_memory + np - 1
  BY <1>3 DEF BootWindow, FreeMemory, KernelPages
<1>6. DOMAIN machine.ram = DOMAIN ram /\ Machine(machine) /\ Preliminary(prelim, machine, Pages4)
  BY <1>1, RamFacts, WorldFacts DEF OwnersInv, PrelimInv, PrelimOn, LoadedOn
<1>7. \A i \in 1 .. Len(prelim) : IsLoader(prelim[i]) => Holds(prelim[i]) \subseteq DOMAIN ram
  BY <1>6, PrelimFacts
<1>8. /\ Writes(p + data, data)
      /\ \A v \in free_memory .. free_memory + np - 1 : Writes(p + v, v)
      /\ \A i \in 1 .. Len(phdrs) : \A v \in Pages(KernelRange(phdrs[i])) :
            Reads(v, phdrs[i].ppage + (v - phdrs[i].vpage))
      /\ \A v \in DOMAIN boot :
            \/ v \in B
            \/ \E i \in 1 .. Len(prelim) : IsLoader(prelim[i]) /\ v \in Holds(prelim[i])
            \/ \E i \in 1 .. Len(phdrs) : v \in Pages(KernelRange(phdrs[i]))
  BY <1>1, BootPages
<1> HIDE DEF p, np
<1>9. ASSUME NEW v \in B
      PROVE  \E f \in DOMAIN ram : v = p + f /\ v - p = f /\ Writes(p + f, f)
  <2>1. CASE v = p + data
    <3>1. v - p = data
      BY <1>2, <1>3, <2>1
    <3> QED BY <1>4, <1>8, <2>1, <3>1
  <2>2. CASE v \in p + free_memory .. p + free_memory + np - 1
    <3> DEFINE f == v - p
    <3>1. f \in free_memory .. free_memory + np - 1 /\ v = p + f
      BY <1>2, <1>3, <2>2
    <3> QED BY <1>4, <1>8, <3>1
  <2> QED BY <2>1, <2>2
<1>10. \A v \in B : v \in Nat /\ p <= v /\ v < KERNEL_BASE /\ Writes(v, v - p) /\ v - p \in DOMAIN ram
  <2> SUFFICES ASSUME NEW v \in B
               PROVE  v \in Nat /\ p <= v /\ v < KERNEL_BASE /\ Writes(v, v - p) /\ v - p \in DOMAIN ram
    OBVIOUS
  <2>1. PICK f \in DOMAIN ram : v = p + f /\ v - p = f /\ Writes(p + f, f)
    BY <1>9
  <2>2. v \in Nat /\ p <= v /\ v < KERNEL_BASE
    BY <1>2, <2>1
  <2>3. Writes(v, v - p) /\ v - p \in DOMAIN ram
    BY <2>1
  <2> QED BY <2>2, <2>3
<1>11. \A v \in B \cup KP : v \in DOMAIN boot /\ v >= p
  <2>1. \A v \in B : v \in DOMAIN boot /\ v >= p
    <3>1. \A v \in B : v \in DOMAIN boot
      BY <1>10 DEF Writes, Reads
    <3>2. \A v \in B : v >= p
      BY <1>2, <1>10
    <3> QED BY <3>1, <3>2
  <2>2. \A v \in KP : v \in DOMAIN boot /\ v >= p
    <3>1. \A v \in KP : v \in DOMAIN boot
      BY <1>8 DEF Reads
    <3>2. \A v \in KP : v \in VPage /\ KERNEL_BASE <= v
      BY SegmentCalls
    <3>3. \A v \in VPage : v \in Int
      BY DEF VPage
    <3>4. \A v \in KP : v >= p
      BY <1>2, <3>2, <3>3
    <3> QED BY <3>1, <3>4
  <2> QED BY <2>1, <2>2
<1>12. ASSUME NEW v \in DOMAIN boot, v >= p PROVE v \in B \cup KP
  <2>1. ASSUME NEW i \in 1 .. Len(prelim), IsLoader(prelim[i]), v \in Holds(prelim[i])
        PROVE  FALSE
    <3>1. v \in DOMAIN ram
      BY <1>7, <2>1
    <3> QED BY <1>2, <1>12, <3>1
  <2> QED BY <1>8, <2>1
<1> HIDE DEF B, KP
<1>13. {v \in DOMAIN boot : v >= p} = B \cup KP
  BY <1>11, <1>12
<1>14. \A v \in p + free_memory .. p + free_memory + np - 1 : v \in B
  BY DEF B
<1> QED BY <1>3, <1>5, <1>10, <1>13, <1>14 DEF p

\* The pages of the c-th call, by what they are: the window on the APIC, I/O, the
\* window on physical memory, the kernel.
ApicPage(c, v) == c = 3 /\ v = bd.mmio_base - 1
IoPage(c, v) == \E i \in 1 .. bd.NumEntries : IoCall(c, i) /\ v \in HandedCall(c)
WindowPage(c, v) == \E f : WindowFrame(c, f) /\ v = bd.paddr_base + f
KernelPage(c, v) ==
    \E i \in 1 .. Len(phdrs) : KernelCall(c, i) /\ v \in Pages(KernelRange(phdrs[i]))

\* There are no others.
LEMMA CallsByArea ==
    ASSUME BootLoaderInv, phase \in Entered,
           NEW c \in 1 .. NumCalls(Handed), NEW v \in HandedCall(c)
    PROVE  ApicPage(c, v) \/ IoPage(c, v) \/ WindowPage(c, v) \/ KernelPage(c, v)
<1> DEFINE n == bd.NumEntries
           q == bd.mmio_base
           p == bd.paddr_base
<1>1. /\ NumCalls(Handed) = 3 + n + Len(phdrs) /\ n \in Nat /\ Len(phdrs) \in Nat
      /\ HandedCall(3) = {q - 1}
      /\ \A i \in 1 .. Len(phdrs) : HandedCall(3 + n + i) = Pages(KernelRange(phdrs[i]))
  BY HandedCalls
<1>2. \A d \in 1 .. 3 + n :
         \/ d = 3 \/ \E i : IoCall(d, i)
         \/ \A w \in HandedCall(d) : \E f : WindowFrame(d, f) /\ w = p + f
  BY WindowPages
<1>3. CASE c = 3
  BY <1>1, <1>3 DEF ApicPage
<1>4. CASE c \in 1 .. 3 + n /\ c # 3
  <2>1. ASSUME NEW i, IoCall(c, i) PROVE IoPage(c, v)
    BY <2>1 DEF IoCall, IoPage
  <2>2. ASSUME \A w \in HandedCall(c) : \E f : WindowFrame(c, f) /\ w = p + f
        PROVE  WindowPage(c, v)
    BY <2>2 DEF WindowPage
  <2> QED BY <1>2, <1>4, <2>1, <2>2
<1>5. CASE c \notin 1 .. 3 + n
  <2> DEFINE i == c - 3 - n
  <2> HIDE DEF n
  <2>1. i \in 1 .. Len(phdrs) /\ c = 3 + n + i
    BY <1>1, <1>5
  <2> HIDE DEF i
  <2>2. KernelCall(c, i) /\ v \in Pages(KernelRange(phdrs[i]))
    BY <1>1, <2>1 DEF KernelCall, n
  <2> QED BY <2>1, <2>2 DEF KernelPage
<1> QED BY <1>3, <1>4, <1>5

\* The calls do not meet and are within the address space, RELRO is above the
\* window, and one of the calls maps the runtime services table.
LEMMA HandoverFollows ==
    ASSUME BootLoaderInv PROVE HandoverMeetsKernel
<1> DEFINE n == bd.NumEntries
           M == bd.MemoryMap
           p == bd.paddr_base
           q == bd.mmio_base
           calls == NumCalls(Handed)
<1> SUFFICES ASSUME phase = "jump" PROVE HandoverMeetsKernel
  BY DEF HandoverMeetsKernel
<1>1. phase \in Entered /\ OwnersInv /\ PagedInv /\ MapInv /\ phase \in Tables /\ phase \in Done
  BY DEF BootLoaderInv, LoaderInv, Entered, Tables, Done
<1>2. /\ p \in Nat /\ q \in Nat /\ 0 < q /\ q <= p /\ KERNEL_BASE \in Nat /\ p < KERNEL_BASE
      /\ \A f \in DOMAIN ram : f \in Nat /\ p + f < KERNEL_BASE
  BY <1>1, BasesRoom
<1>3. Handed \in Handover
  BY <1>1, HandedFields
<1>4. /\ calls = 3 + n + Len(phdrs) /\ n \in Nat /\ Len(phdrs) \in Nat
      /\ HandedCall(3) = {q - 1}
      /\ \A i \in 1 .. Len(phdrs) : HandedCall(3 + n + i) = Pages(KernelRange(phdrs[i]))
  BY <1>1, HandedCalls
<1>5. /\ \A c \in 1 .. 3 + n :
            \/ c = 3 \/ \E i : IoCall(c, i)
            \/ \A v \in HandedCall(c) : \E f : WindowFrame(c, f) /\ v = p + f
      /\ \A c, f : WindowFrame(c, f) => f \in DOMAIN ram
      /\ \A c, d, f : WindowFrame(c, f) /\ WindowFrame(d, f) => c = d
  BY <1>1, WindowPages
<1>6. /\ \A c, i, v : IoCall(c, i) /\ v \in HandedCall(c) =>
            /\ v \in Nat /\ v < p
            /\ q + MmioSum(M, 1 .. i - 1) <= v /\ v < q + MmioSum(M, 1 .. i)
      /\ \A i, j \in 1 .. n : i < j => MmioSum(M, 1 .. i) <= MmioSum(M, 1 .. j - 1)
      /\ \A i \in 0 .. n : MmioSum(M, 1 .. i) \in Nat
  BY <1>1, IoPages
<1>7. /\ \A i \in 1 .. Len(phdrs) : \A v \in Pages(KernelRange(phdrs[i])) :
            v \in VPage /\ KERNEL_BASE <= v
      /\ \A i, j \in 1 .. Len(phdrs) : i # j =>
            Pages(KernelRange(phdrs[i])) \cap Pages(KernelRange(phdrs[j])) = {}
      /\ \A i \in 1 .. Len(phdrs) : phdrs[i].p_type = "PT_GNU_RELRO" =>
            \A v \in phdrs[i].vpage .. phdrs[i].vpage
                     + NUM_PAGES(phdrs[i].offset, phdrs[i].p_memsz) - 1 :
               v \in VPage /\ KERNEL_BASE <= v
  BY <1>1, SegmentCalls
<1> HIDE DEF n, M, p, q, calls
<1>8. \A v \in Nat : v < KERNEL_BASE => v \in VPage
  <2> DEFINE last == ENTRIES * ENTRIES * ENTRIES * ENTRIES - 1
  <2>1. last \in Int
    BY PagingAssumption
  <2>2. VPage = 0 .. last
    BY DEF VPage
  <2> HIDE DEF last
  <2> QED BY <1>2, <2>1, <2>2, BootLoaderAssumption
\* The four areas, one above the other.
<1> DEFINE Apic(c, v) == c = 3 /\ v = q - 1
           Io(c, v) == \E i \in 1 .. n : IoCall(c, i) /\ v \in HandedCall(c)
           Window(c, v) == \E f : WindowFrame(c, f) /\ v = p + f
           Kernel(c, v) == \E i \in 1 .. Len(phdrs) :
                              c = 3 + n + i /\ v \in Pages(KernelRange(phdrs[i]))
<1>9. \A c \in 1 .. calls : \A v \in HandedCall(c) :
         Apic(c, v) \/ Io(c, v) \/ Window(c, v) \/ Kernel(c, v)
  BY <1>1, CallsByArea
  DEF ApicPage, IoPage, WindowPage, KernelPage, KernelCall, calls, n, p, q
<1>10. \A c, v : /\ Apic(c, v) => v \in Nat /\ v < q
                 /\ Io(c, v) => v \in Nat /\ q <= v /\ v < p
                 /\ Window(c, v) => v \in Nat /\ p <= v /\ v < KERNEL_BASE
                 /\ Kernel(c, v) => v \in VPage /\ KERNEL_BASE <= v
  <2>1. \A c, v : Apic(c, v) => v \in Nat /\ v < q
    BY <1>2
  <2>2. ASSUME NEW c, NEW v, Io(c, v) PROVE v \in Nat /\ q <= v /\ v < p
    <3>1. PICK i \in 1 .. n : IoCall(c, i) /\ v \in HandedCall(c)
      BY <2>2
    <3> DEFINE s == MmioSum(M, 1 .. i - 1)
    <3>2. s \in Nat
      <4>1. i - 1 \in 0 .. n
        BY <1>4
      <4> QED BY <1>6, <4>1
    <3>3. v \in Nat /\ v < p /\ q + s <= v
      BY <1>6, <3>1
    <3> HIDE DEF s
    <3> QED BY <1>2, <3>2, <3>3
  <2>3. \A c, v : Window(c, v) => v \in Nat /\ p <= v /\ v < KERNEL_BASE
    <3> SUFFICES ASSUME NEW c, NEW v, NEW f, WindowFrame(c, f), v = p + f
                 PROVE  v \in Nat /\ p <= v /\ v < KERNEL_BASE
      OBVIOUS
    <3>1. f \in DOMAIN ram
      BY <1>5
    <3> QED BY <1>2, <3>1
  <2>4. \A c, v : Kernel(c, v) => v \in VPage /\ KERNEL_BASE <= v
    BY <1>7
  <2> HIDE DEF Apic, Io, Window, Kernel
  <2> QED BY <2>1, <2>2, <2>3, <2>4
<1>11. \A c, d, v : Apic(c, v) /\ Apic(d, v) => c = d
  OBVIOUS
<1>12. ASSUME NEW c, NEW d, NEW v, Io(c, v), Io(d, v) PROVE c = d
  <2>1. PICK i \in 1 .. n : IoCall(c, i) /\ v \in HandedCall(c)
    BY <1>12
  <2>2. PICK j \in 1 .. n : IoCall(d, j) /\ v \in HandedCall(d)
    BY <1>12
  <2>3. ASSUME NEW a \in 1 .. n, NEW b \in 1 .. n, a < b,
               v < q + MmioSum(M, 1 .. a), q + MmioSum(M, 1 .. b - 1) <= v
        PROVE  FALSE
    <3> DEFINE s == MmioSum(M, 1 .. a)
               t == MmioSum(M, 1 .. b - 1)
    <3>1. a \in 0 .. n /\ b - 1 \in 0 .. n
      BY <1>4
    <3>2. s \in Nat /\ t \in Nat /\ s <= t
      BY <1>6, <2>3, <3>1
    <3>3. v \in Nat
      BY <1>6, <2>1
    <3>4. v < q + s /\ q + t <= v
      BY <2>3
    <3> HIDE DEF s, t
    <3> QED BY <1>2, <3>2, <3>3, <3>4
  <2>4. /\ v < q + MmioSum(M, 1 .. i) /\ q + MmioSum(M, 1 .. i - 1) <= v
        /\ v < q + MmioSum(M, 1 .. j) /\ q + MmioSum(M, 1 .. j - 1) <= v
    BY <1>6, <2>1, <2>2
  <2>5. ~(i < j) /\ ~(j < i)
    BY <2>3, <2>4
  <2>6. i = j
    BY <2>5
  <2> QED BY <2>1, <2>2, <2>6 DEF IoCall
<1>13. ASSUME NEW c, NEW d, NEW v, Window(c, v), Window(d, v) PROVE c = d
  <2>1. PICK f : WindowFrame(c, f) /\ v = p + f
    BY <1>13
  <2>2. PICK g : WindowFrame(d, g) /\ v = p + g
    BY <1>13
  <2>3. f \in Nat /\ g \in Nat
    BY <1>2, <1>5, <2>1, <2>2
  <2>4. f = g
    BY <1>2, <2>1, <2>2, <2>3
  <2> QED BY <1>5, <2>1, <2>2, <2>4
<1>14. ASSUME NEW c, NEW d, NEW v, Kernel(c, v), Kernel(d, v) PROVE c = d
  <2>1. PICK i \in 1 .. Len(phdrs) : c = 3 + n + i /\ v \in Pages(KernelRange(phdrs[i]))
    BY <1>14
  <2>2. PICK j \in 1 .. Len(phdrs) : d = 3 + n + j /\ v \in Pages(KernelRange(phdrs[j]))
    BY <1>14
  <2>3. i = j
    BY <1>7, <2>1, <2>2
  <2> QED BY <2>1, <2>2, <2>3
<1> HIDE DEF Apic, Io, Window, Kernel
<1>15. Apart(Handed)
  <2>1. Handed.mmio_base = q
    BY <1>1, HandedFields DEF q
  <2>2. ASSUME NEW c \in 1 .. calls, NEW d \in 1 .. calls, NEW v \in HandedCall(c), v \in HandedCall(d)
        PROVE  c = d
    <3>1. Apic(c, v) \/ Io(c, v) \/ Window(c, v) \/ Kernel(c, v)
      BY <1>9
    <3>2. Apic(d, v) \/ Io(d, v) \/ Window(d, v) \/ Kernel(d, v)
      BY <1>9, <2>2
    <3>3. \A w \in VPage : w \in Nat
      BY DEF VPage
    <3>4. \/ Apic(c, v) /\ Apic(d, v)
          \/ Io(c, v) /\ Io(d, v)
          \/ Window(c, v) /\ Window(d, v)
          \/ Kernel(c, v) /\ Kernel(d, v)
      BY <1>2, <1>10, <3>1, <3>2, <3>3
    <3> QED BY <1>11, <1>12, <1>13, <1>14, <3>4
  <2>3. \A c, d \in 1 .. calls : c # d => HandedCall(c) \cap HandedCall(d) = {}
    BY <2>2
  <2> QED BY <2>3 DEF Apart, HandedCall, HandedRange, calls
<1>16. \A c \in 1 .. calls : HandedCall(c) \subseteq VPage
  <2> SUFFICES ASSUME NEW c \in 1 .. calls, NEW v \in HandedCall(c) PROVE v \in VPage
    OBVIOUS
  <2>1. Apic(c, v) \/ Io(c, v) \/ Window(c, v) \/ Kernel(c, v)
    BY <1>9
  <2>2. v \in VPage \/ (v \in Nat /\ v < KERNEL_BASE)
    BY <1>2, <1>10, <2>1
  <2> QED BY <1>8, <2>2
<1>17. /\ {v \in DOMAIN boot : v >= Handed.paddr_base} = BootWindow(Handed) \cup KernelPages(Handed)
       /\ \A v \in BootWindow(Handed) : Writes(v, v - Handed.paddr_base)
       /\ \A v \in BootWindow(Handed) : v \in Nat /\ v < KERNEL_BASE
       /\ \A v \in FreeMemory(Handed) : v - Handed.paddr_base \in DOMAIN ram
  BY <1>1, BootTablesMeet
<1>18. RelroApart(Handed)
  <2>1. Handed.phdrs = phdrs
    BY <1>1, HandedFields
  <2>2. \A v \in VPage : KERNEL_BASE <= v => v \notin BootWindow(Handed)
    BY <1>2, <1>17
  <2> SUFFICES ASSUME NEW i \in 1 .. Len(phdrs), phdrs[i].p_type = "PT_GNU_RELRO"
               PROVE  phdrs[i].vpage .. phdrs[i].vpage
                         + NUM_PAGES(phdrs[i].offset, phdrs[i].p_memsz) - 1
                      \subseteq VPage \ BootWindow(Handed)
    BY <2>1 DEF RelroApart
  <2> QED BY <1>7, <2>2
<1>19. \E i \in DOMAIN Handed.MemoryMap :
          Handed.RT \in Pages(RuntimeRange(Handed.MemoryMap[i]))
  <2> DEFINE t == machine.RT
  <2>1. /\ Handed.RT = p + t /\ t \in DOMAIN ram
        /\ DOMAIN Handed.MemoryMap = 1 .. n
        /\ \A i \in 1 .. n : Handed.MemoryMap[i] = M[i]
    BY <1>1, HandedFields DEF n, p, M
  <2>2. Account(bd, n, n + 1, ram, machine) /\ Assigned(bd)
    BY <1>1 DEF MapInv, DoneInv, n
  <2>3. /\ M \in Seq(Descriptor) /\ n <= Len(M)
        /\ Complete(M, 1 .. n, ram) /\ True(M, 1 .. n, n + 1, ram)
    <3>1. Entries(n, n + 1, n) = 1 .. n
      BY <1>4 DEF Entries
    <3> QED BY <2>2, <3>1 DEF Account, Merged, M, n
  <2>4. /\ ram[t] \in Region /\ ram[t].runtime = TRUE /\ ram[t].Type \notin MmioType
    <3>1. /\ Machine(machine) /\ ram \in [DOMAIN ram -> Region] /\ RamInv
      BY <1>1, RamFacts, WorldFacts DEF OwnersInv
    <3>2. /\ t \in DOMAIN machine.ram /\ machine.ram[t].Type # "EfiConventionalMemory"
          /\ machine.ram[t].Type \notin MmioType /\ machine.ram[t].runtime
      BY <3>1 DEF Machine
    <3>3. ram[t] = machine.ram[t]
      BY <3>1, <3>2 DEF RamInv, RamKept
    <3>4. ram[t] \in Region
      BY <2>1, <3>1
    <3>5. ram[t].runtime \in BOOLEAN
      BY <3>4 DEF Region
    <3>6. ram[t].runtime = TRUE
      BY <3>2, <3>3, <3>5
    <3> QED BY <3>2, <3>3, <3>4, <3>6
  <2> HIDE DEF t
  <2>5. PICK i \in 1 .. n : t \in Holds(M[i])
    BY <2>1, <2>3 DEF Complete
  <2>6. M[i] \in Descriptor
    <3>1. i \in 1 .. Len(M)
      BY <1>4, <2>3
    <3> QED BY <2>3, <3>1
  <2>7. M[i].runtime = TRUE /\ M[i].Type = Claim(ram, t)
    <3>1. i < n + 1
      BY <1>4
    <3>2. M[i].runtime = ram[t].runtime /\ M[i].Type = Claim(ram, t)
      BY <2>1, <2>3, <2>5, <3>1 DEF True
    <3> QED BY <2>4, <3>2
  <2>8. M[i].Type \notin MmioType
    <3>1. Claim(ram, t) \in {"EfiUnusableMemory", "EfiConventionalMemory", ram[t].Type}
      BY <2>4 DEF Claim, Reclaimed, Region
    <3> QED BY <2>4, <2>7, <3>1 DEF MmioType
  <2>9. M[i].VirtualStart = M[i].PhysicalStart + p
    BY <2>2, <2>7, <2>8 DEF Assigned, M, n, p
  <2> DEFINE a == M[i].PhysicalStart
             k == M[i].NumberOfPages
  <2>10. a \in Nat /\ k \in Nat /\ t \in a .. a + k - 1
    BY <2>5, <2>6 DEF Descriptor, Holds
  <2>11. Pages(RuntimeRange(M[i])) = a + p .. a + p + k - 1
    <3>1. M[i].runtime
      BY <2>7
    <3> QED BY <2>9, <3>1 DEF Pages, RuntimeRange, PageRange
  <2> HIDE DEF a, k
  <2>12. p + t \in a + p .. a + p + k - 1
    BY <1>2, <2>10
  <2> QED BY <2>1, <2>11, <2>12
<1> QED BY <1>3, <1>15, <1>16, <1>17, <1>18, <1>19 
  DEF HandoverMeetsKernel, HandedCall, HandedRange, calls

\* What the loader hands over is what the kernel relies on: for every machine,
\* every kernel and whatever the firmware did meanwhile, bootloader_data is well
\* formed, the ranges new_address_space is going to map are pages of the address
\* space that do not meet, and the boot page tables map the window and the kernel.
THEOREM LoaderMeetsKernel ==
    /\ Spec => []HandoverMeetsKernel
    /\ BootSpec => []HandoverMeetsKernel
<1>1. Spec => []HandoverMeetsKernel
  BY HandoverFollows, BootLoaderInit, BootLoaderNext, PTL DEF Spec
<1>2. BootSpec => []HandoverMeetsKernel
  BY HandoverFollows, BootLoaderInit, BootLoaderNext, BootRefines, PTL DEF BootSpec
<1> QED BY <1>1, <1>2
-----------------------------------------------------------------------------
(***************************************************************************)
(* The loader and the kernel together.                                     *)
(***************************************************************************)
\* The handovers the proofs about the kernel are instantiated with: those they can
\* start from.  KP is the kernel of K, with these for its BootloaderData.
Good ==
    {b \in Handover :
       /\ b.paddr_base <= b.self /\ b.paddr_base <= b.free_memory
       /\ \A k \in 0 .. b.n_pages - 1 : (b.free_memory + k) - b.paddr_base \in Frame
       /\ \A c \in 1 .. NumCalls(b) :
             Pages(MapRangeCall(b, b.mmio_base - 1, c)) \subseteq VPage
       /\ RelroApart(b)}
KP == INSTANCE KernelMemoryProofs WITH
        phase <- kphase, new_stack <- kstack, BootloaderData <- Good

\* The handovers Good contains are those the proofs about the kernel assume.
LEMMA GoodMeetsAssumptions ==
    KP!PagingAssumption /\ KP!KernelAssumption /\ KP!LayoutAssumption
<1>1. Good \subseteq KP!Handover
  BY DEF Good, Handover, KP!Handover, Descriptor, KP!Descriptor, Phdr, KP!Phdr,
         MemoryType, KP!MemoryType
<1>2. \A b : /\ KP!NumCalls(b) = NumCalls(b) /\ KP!RelroApart(b) = RelroApart(b)
             /\ \A a, c : KP!Pages(KP!MapRangeCall(b, a, c)) = Pages(MapRangeCall(b, a, c))
  BY DEF RelroApart, KP!RelroApart, NumCalls, KP!NumCalls, Pages, KP!Pages, VPage, KP!VPage,
         BootWindow, KP!BootWindow, FreeMemory, KP!FreeMemory, NUM_PAGES, KP!NUM_PAGES,
         MapRangeCall, KP!MapRangeCall, PageRange, KP!PageRange, RuntimeRange, KP!RuntimeRange,
         KernelRange, KP!KernelRange
<1>3. KP!VPage = VPage
  BY DEF VPage, KP!VPage
<1>4. KP!PagingAssumption
  BY PagingAssumption DEF KP!PagingAssumption
<1>5. KP!KernelAssumption
  BY <1>1, BootAssumption DEF KP!KernelAssumption, Good
<1>6. KP!LayoutAssumption
  BY <1>2, <1>3 DEF KP!LayoutAssumption, Good
<1> QED BY <1>4, <1>5, <1>6

\* A step of the kernel does not depend on BootloaderData.
LEMMA SameNext == K!Next <=> KP!Next
  BY DEF K!vars, KP!vars, K!walk, KP!walk, K!loop, KP!loop, K!BOOT, KP!BOOT, K!NoPath, KP!NoPath,
         K!Unused, KP!Unused, K!FreePage, KP!FreePage, K!StackPage, KP!StackPage, K!TablePage,
         KP!TablePage, K!FrameOf, KP!FrameOf, K!NextPageLevel, KP!NextPageLevel, K!RelroAfter,
         KP!RelroAfter, K!RelroPages, KP!RelroPages, K!Call, KP!Call, K!vpage, KP!vpage, K!entry,
         KP!entry, K!MemoryMapPage, KP!MemoryMapPage, K!Touched, KP!Touched, K!Resident,
         KP!Resident, K!At, KP!At, K!Stopped, KP!Stopped, K!KernelMain, KP!KernelMain,
         K!FreeInitialPage, KP!FreeInitialPage, K!InitialPagesFreed, KP!InitialPagesFreed,
         K!Allocated, KP!Allocated, K!TakePage, KP!TakePage, K!AfterAllocate, KP!AfterAllocate,
         K!AllocateStack, KP!AllocateStack, K!AllocateRoot, KP!AllocateRoot, K!MapRangeReturns,
         KP!MapRangeReturns, K!Walking, KP!Walking, K!EnterTable, KP!EnterTable, K!MakeTable,
         KP!MakeTable, K!NextPage, KP!NextPage, K!MapPage, KP!MapPage, K!SetVpageRo,
         KP!SetVpageRo, K!AddressSpaceDone, KP!AddressSpaceDone, K!SetCr3, KP!SetCr3,
         K!ResetSystem, KP!ResetSystem, K!NoMemory, KP!NoMemory, K!Remap, KP!Remap, K!Missing,
         KP!Missing, K!Halt, KP!Halt, K!PageFault, KP!PageFault, K!Hang, KP!Hang, K!Next,
         KP!Next, K!APP_NORMAL, KP!APP_NORMAL, K!FreePhysicalPage, KP!FreePhysicalPage,
         K!NextFree, KP!NextFree, K!Implied, KP!Implied, K!AllocatePhysicalPage,
         KP!AllocatePhysicalPage, K!Returned, KP!Returned, K!MmioType, KP!MmioType, K!PageRange,
         KP!PageRange, K!RuntimeRange, KP!RuntimeRange, K!KernelRange, KP!KernelRange,
         K!NumCalls, KP!NumCalls, K!MapRangeCall, KP!MapRangeCall, K!Pages, KP!Pages,
         K!KernelPages, KP!KernelPages, K!FreeMemory, KP!FreeMemory, K!BootWindow, KP!BootWindow,
         K!NULL, KP!NULL, K!Level, KP!Level, K!Index, KP!Index, K!VPage, KP!VPage, K!Word,
         KP!Word, K!Page, KP!Page, K!Zero, KP!Zero, K!ZeroPage, KP!ZeroPage, K!Pointer,
         KP!Pointer, K!Pte, KP!Pte, K!ReadOnly, KP!ReadOnly, K!NUM_PAGES, KP!NUM_PAGES,
         K!Shifted, KP!Shifted, K!PAGE_LEVEL_INDEX, KP!PAGE_LEVEL_INDEX, K!Path, KP!Path,
         K!Covers, KP!Covers, K!Entry, KP!Entry, K!Table3, KP!Table3, K!Table2, KP!Table2,
         K!Table1, KP!Table1, K!Leaf, KP!Leaf, K!Mapped, KP!Mapped

\* The kernel's invariants hold once it has been started.
LEMMA KernelStarts == (KP!Init => KP!IInv /\ KP!TInv /\ KP!WritesFree)'
<1>1. KP!Init => KP!IInv /\ KP!TInv /\ KP!WritesFree
  BY GoodMeetsAssumptions, KP!InitEstablishes, KP!InitTInv, KP!InitWritesFree
<1> QED BY <1>1, PTL

\* They are kept by its steps.
LEMMA KernelGoesOn ==
    ASSUME KP!IInv, KP!TInv, KP!WritesFree, [K!Next]_kernel
    PROVE  KP!IInv' /\ KP!TInv' /\ KP!WritesFree'
<1>1. [KP!Next]_KP!vars
  BY SameNext DEF kernel, KP!vars
<1> QED BY <1>1, GoodMeetsAssumptions, KP!NextPreserves, KP!TInvPreserved, KP!WritesFreePreserved

\* Before the jump the kernel has touched nothing; after it, it runs on what was
\* handed over.
KernelOff ==
    /\ kphase = "off"
    /\ mem = [f \in Frame |-> K!ZeroPage] /\ role = [f \in Frame |-> K!Unused]
    /\ kstack = NULL /\ address_space = NULL /\ table = NULL
    /\ call = 1 /\ page = 0 /\ relro = 0 /\ level = 4 /\ cr3 = K!BOOT

KernelOn ==
    /\ phase = "kernel" /\ bootloader_data = Handed
    /\ KP!IInv /\ KP!TInv /\ KP!WritesFree
\* The two programs together.
BootInv == BootLoaderInv /\ HandoverMeetsKernel /\ (KernelOff \/ KernelOn)

\* What HandoverMeetsKernel says of the handover is what the kernel can start from.
LEMMA HandedIsGood ==
    ASSUME BootLoaderInv, HandoverMeetsKernel, phase = "jump"
    PROVE  Handed \in Good
<1> DEFINE b == Handed
<1>1. phase \in Entered /\ OwnersInv /\ phase \in Tables
  BY DEF BootLoaderInv, LoaderInv, Entered, Tables
<1>2. /\ b.self = bd.paddr_base + data /\ b.free_memory = bd.paddr_base + free_memory
      /\ b.paddr_base = bd.paddr_base /\ b.n_pages \in Nat
      /\ data \in Nat /\ free_memory \in Nat /\ bd.paddr_base \in Nat
  BY <1>1, HandedFields, BasesRoom DEF BootLoaderInv, LoaderInv
<1>3. /\ b \in Handover
      /\ \A v \in FreeMemory(b) : v - b.paddr_base \in DOMAIN ram
      /\ \A c \in 1 .. NumCalls(b) :
            Pages(MapRangeCall(b, b.mmio_base - 1, c)) \subseteq VPage
      /\ RelroApart(b)
  BY DEF HandoverMeetsKernel
<1>4. DOMAIN ram \subseteq Frame
  <2>1. DOMAIN ram = DOMAIN machine.ram /\ World
    BY <1>1, RamFacts DEF OwnersInv
  <2> QED BY <2>1, BootAssumption DEF World
<1> HIDE DEF b
<1>5. b.paddr_base <= b.self /\ b.paddr_base <= b.free_memory
  BY <1>2
<1>6. \A k \in 0 .. b.n_pages - 1 : (b.free_memory + k) - b.paddr_base \in Frame
  <2> SUFFICES ASSUME NEW k \in 0 .. b.n_pages - 1
               PROVE  (b.free_memory + k) - b.paddr_base \in Frame
    OBVIOUS
  <2>1. b.free_memory + k \in FreeMemory(b)
    BY <1>2 DEF FreeMemory
  <2> QED BY <1>3, <1>4, <2>1
<1> QED BY <1>3, <1>5, <1>6 DEF Good, b

\* At first the kernel is off.
LEMMA BootInvInit == ASSUME BootInit PROVE KernelOff
  BY DEF BootInit, KernelOff

\* The jump starts it on such a handover.
LEMMA EnterEstablishes ==
    ASSUME BootLoaderInv, HandoverMeetsKernel, KernelOff, EnterKernel
    PROVE  KernelOn'
<1>1. /\ phase = "jump" /\ phase' = "kernel" /\ kphase' = "kernel_main"
      /\ bootloader_data' = Handed /\ apic_vaddr' \in Garbage /\ free_list' \in Garbage
      /\ UNCHANGED <<bd, data, free_memory, machine, phdrs>>
      /\ UNCHANGED <<mem, kstack, address_space, call, page, relro, table, level, cr3, role>>
  BY DEF EnterKernel, JumpToKernel, world, memory
<1>2. Handed' = Handed
  BY <1>1 DEF Handed, FREE_PAGES
<1>3. bootloader_data' \in Good
  BY <1>1, HandedIsGood
<1>4. KP!Init'
  BY <1>1, <1>3 DEF KernelOff, KP!Init, K!ZeroPage, KP!ZeroPage, K!Zero, KP!Zero, K!Index,
     KP!Index, K!Unused, KP!Unused, K!NoPath, KP!NoPath, K!Level, KP!Level, K!BOOT, KP!BOOT,
     NULL, KP!NULL
<1> QED BY <1>1, <1>2, <1>4, KernelStarts DEF KernelOn

\* Until then it has no step.
LEMMA OffHasNoStep == ASSUME KernelOff, K!Next PROVE FALSE
<1>1. K!Touched = {}
  BY DEF KernelOff, K!Touched
<1> QED BY <1>1
  DEF KernelOff, K!Next, K!KernelMain, K!FreeInitialPage, K!InitialPagesFreed, K!AllocateStack,
      K!AllocateRoot, K!MapRangeReturns, K!EnterTable, K!MakeTable, K!MapPage, K!SetVpageRo,
      K!AddressSpaceDone, K!SetCr3, K!ResetSystem, K!Halt, K!PageFault, K!Hang, K!At, K!Walking,
      K!NoMemory, K!Remap, K!Missing, K!Stopped

\* Every step keeps the two programs together; the kernel's steps are its own.
LEMMA BootInvNext ==
    ASSUME BootInv, BootLoaderInv', HandoverMeetsKernel', [BootNext]_<<vars, kernel>>
    PROVE  BootInv'
<1>1. ASSUME UNCHANGED kernel, KernelOff PROVE KernelOff'
  BY <1>1 DEF kernel, KernelOff
<1>2. ASSUME UNCHANGED vars, phase = "kernel", bootloader_data' = bootloader_data,
             bootloader_data = Handed
      PROVE  phase' = "kernel" /\ bootloader_data' = Handed'
  BY <1>2 DEF vars, Handed, FREE_PAGES
<1>3. ASSUME UNCHANGED <<vars, kernel>> PROVE KernelOff' \/ KernelOn'
  <2>1. CASE KernelOff
    BY <1>1, <1>3, <2>1
  <2>2. CASE KernelOn
    <3>1. [K!Next]_kernel /\ bootloader_data' = bootloader_data
      BY <1>3 DEF kernel
    <3> QED BY <1>2, <1>3, <2>2, <3>1, KernelGoesOn DEF KernelOn
  <2> QED BY <2>1, <2>2 DEF BootInv
<1>4. CASE LoaderStep \/ FirmwareStep
  <2>1. phase # "kernel"
    BY <1>4 DEF LoaderStep, FirmwareStep, FirmwareEvent, BootServices, Loader, ExitStatus,
       AllocateBootMemory, AcquirePreliminaryMap, LoadSegment, KernelLoaded, PrepareBootPageTables,
       AcquireFinalMap, ExitBootServices, InitMmap, MergeEntry, EntriesMerged,
       SetVirtualAddressMap, SetCr3, DoRelocations, JumpToKernel
  <2>2. KernelOff
    BY <2>1 DEF BootInv, KernelOn
  <2> QED BY <1>1, <1>4, <2>2 DEF LoaderStep, FirmwareStep, BootInv
<1>5. CASE EnterKernel
  <2>1. KernelOff
    BY <1>5 DEF BootInv, KernelOn, EnterKernel, JumpToKernel
  <2> QED BY <1>5, <2>1, EnterEstablishes DEF BootInv
<1>6. CASE KernelStep
  <2>1. KernelOn
    BY <1>6, OffHasNoStep DEF BootInv, KernelStep
  <2>2. bootloader_data' = bootloader_data
    BY <1>6 DEF KernelStep, K!Next, K!KernelMain, K!FreeInitialPage, K!InitialPagesFreed,
       K!AllocateStack, K!AllocateRoot, K!MapRangeReturns, K!EnterTable, K!MakeTable, K!MapPage,
       K!SetVpageRo, K!AddressSpaceDone, K!SetCr3, K!ResetSystem, K!Halt, K!PageFault, K!Hang,
       K!vars
  <2>3. [K!Next]_kernel
    BY <1>6 DEF KernelStep
  <2> QED BY <1>2, <1>6, <2>1, <2>2, <2>3, KernelGoesOn DEF KernelOn, KernelStep, BootInv
<1> QED BY <1>3, <1>4, <1>5, <1>6 DEF BootNext, NoKernel, BootInv

\* So they stay, for every machine, kernel file and contents of .bss.
LEMMA BootInvariance == BootSpec => []BootInv
<1>1. BootInit => BootInv
  BY BootRefines, BootLoaderInit, HandoverFollows, BootInvInit DEF BootInv
<1>2. BootInv /\ [BootNext]_<<vars, kernel>> => BootInv'
  <2>1. BootInv /\ [BootNext]_<<vars, kernel>> => BootLoaderInv'
    BY BootRefines, BootLoaderNext DEF BootInv
  <2>2. BootLoaderInv => HandoverMeetsKernel
    BY HandoverFollows
  <2>3. (BootLoaderInv => HandoverMeetsKernel)'
    BY <2>2, PTL
  <2> QED BY <2>1, <2>3, BootInvNext
<1> QED BY <1>1, <1>2, PTL DEF BootSpec

\* The free memory is RAM, and apart from all the loader or the firmware still needs.
LEMMA ApartFromForeign ==
    ASSUME OwnersInv, phase \in Tables
    PROVE  /\ free_memory .. free_memory + FREE_PAGES - 1 \subseteq DOMAIN ram
           /\ (free_memory .. free_memory + FREE_PAGES - 1) \cap Foreign = {}
<1> DEFINE F == free_memory .. free_memory + machine.n_pages - 1
<1>1. /\ BootMemory(ram, pool, new_stack, data, free_memory, machine.n_pages)
      /\ Segments(ram, pool, phdrs, Pages4) /\ TablesApart(ram, pool, tables, phdrs, Pages4)
      /\ phdrs \in Seq(Phdr)
  BY DEF OwnersInv, MemoryInv, SegmentsInv, TablesInv, HeadersInv, Headers, MemoryOn, PrelimOn,
         LoadedOn
<1>2. F \subseteq Pages4 /\ FREE_PAGES = machine.n_pages
  BY DEF Pages4, LoaderPages, FREE_PAGES
<1>3. \A f \in F : f \in DOMAIN ram /\ ram[f].runtime = FALSE
  BY <1>1, <1>2 DEF BootMemory, Owned, Pages4
<1>4. new_stack \notin F /\ data .. data + 1 \cap F = {}
  BY <1>1 DEF BootMemory
<1>5. F \cap KernelSegments = {}
  <2> SUFFICES ASSUME NEW f \in KernelSegments PROVE f \notin F
    OBVIOUS
  <2>1. PICK k \in DOMAIN phdrs : f \in SegmentFrames(phdrs[k])
    BY DEF KernelSegments, SegmentFrames, KernelRange, PageRange
  <2>2. k \in 1 .. Len(phdrs)
    BY <1>1
  <2>3. SegmentFrames(phdrs[k]) \cap Pages4 = {}
    BY <1>1, <2>2 DEF Segments
  <2> QED BY <1>2, <2>1, <2>3
<1>6. tables \cap F = {}
  BY <1>1, <1>2 DEF TablesApart
<1> HIDE DEF F
<1>7. F \cap Foreign = {}
  BY <1>3, <1>4, <1>5, <1>6 DEF Foreign
<1> QED BY <1>2, <1>3, <1>7 DEF F

\* Whatever free_physical_page, allocate_physical_page and map_page write goes to
\* the free memory of the loader, apart from the boot page tables, the stack, the
\* struct, the image and the firmware's memory: for every machine and kernel.
THEOREM KernelWritesItsOwn == BootSpec => []WritesItsOwn
<1>1. ASSUME BootInv PROVE WritesItsOwn
  <2> SUFFICES ASSUME kphase # "off" PROVE WritesItsOwn
    BY DEF WritesItsOwn
  <2>1. KernelOn
    BY <1>1 DEF BootInv, KernelOff
  <2>2. BootLoaderInv /\ OwnersInv /\ phase \in Tables /\ phase \in Entered
    BY <1>1, <2>1 DEF BootInv, BootLoaderInv, LoaderInv, KernelOn, Tables, Entered
  <2>3. ASSUME NEW f \in Frame, mem[f] # K!ZeroPage
        PROVE  f \in free_memory .. free_memory + FREE_PAGES - 1
    <3>1. mem[f] # KP!ZeroPage
      BY <2>3 DEF K!ZeroPage, KP!ZeroPage, K!Zero, KP!Zero, K!Index, KP!Index
    <3>2. Handed.paddr_base + f \in KP!FreeMemory(Handed)
      BY <2>1, <3>1 DEF KernelOn, KP!WritesFree
    <3>3. Handed.paddr_base + f \in Handed.free_memory .. Handed.free_memory + Handed.n_pages - 1
      BY <3>2 DEF KP!FreeMemory
    <3>4. /\ Handed.paddr_base = bd.paddr_base /\ Handed.n_pages = machine.n_pages
          /\ Handed.free_memory = bd.paddr_base + free_memory
          /\ free_memory \in Nat /\ machine.n_pages \in Nat /\ bd.paddr_base \in Nat
      BY <2>2, HandedFields, BasesRoom DEF BootLoaderInv, LoaderInv
    <3>5. f \in Nat
      BY BootAssumption
    <3> QED BY <3>3, <3>4, <3>5 DEF FREE_PAGES
  <2>4. /\ free_memory .. free_memory + FREE_PAGES - 1 \subseteq DOMAIN ram
        /\ (free_memory .. free_memory + FREE_PAGES - 1) \cap Foreign = {}
    BY <2>2, ApartFromForeign
  <2> DEFINE Written == {f \in Frame : mem[f] # K!ZeroPage}
  <2>5. /\ Written \subseteq free_memory .. free_memory + FREE_PAGES - 1
        /\ Written \subseteq DOMAIN ram /\ Written \cap Foreign = {}
    BY <2>3, <2>4
  <2> QED BY <2>5 DEF WritesItsOwn
<1> QED BY <1>1, BootInvariance, PTL

\* RAM is not listed as I/O, before and after reclaiming.
LEMMA RamIsNotIo ==
    ASSUME World, RamInv, NEW f \in DOMAIN ram
    PROVE  ram[f].Type \notin MmioType /\ Claim(ram, f) \notin MmioType
<1>1. machine.ram[f].Type \notin MmioType /\ ram[f] \in Region
  BY WorldFacts, RamFacts DEF Machine
<1>2. \/ ram[f] = machine.ram[f]
      \/ ram[f].Type \in {"EfiBootServicesData"} \cup Loaders \cup {"EfiConventionalMemory"}
  BY RamFacts DEF RamInv, RamKept
<1>3. ram[f].Type \notin MmioType
  BY <1>1, <1>2 DEF Loaders, MmioType
<1>4. Claim(ram, f) \in {"EfiUnusableMemory", "EfiConventionalMemory", ram[f].Type}
  BY <1>1 DEF Claim, Reclaimed, Region
<1> QED BY <1>3, <1>4 DEF MmioType

\* The frame behind page v of the c-th call.
PageFrame(c, v) == HandedRange(c).ppage + (v - HandedRange(c).vpage)

\* It is the registers of the APIC, I/O, the frame itself, or that of the segment.
LEMMA FramesByArea ==
    ASSUME BootLoaderInv, phase \in Entered
    PROVE  /\ \A c, v : ApicPage(c, v) => PageFrame(c, v) = APIC_PADDR
           /\ \A c, v : IoPage(c, v) => PageFrame(c, v) \notin DOMAIN ram
           /\ \A c, f : WindowFrame(c, f) =>
                 /\ c \in 1 .. NumCalls(Handed)
                 /\ bd.paddr_base + f \in HandedCall(c)
                 /\ PageFrame(c, bd.paddr_base + f) = f
           /\ \A c, i, v : KernelCall(c, i) => PageFrame(c, v) = phdrs[i].ppage + (v - phdrs[i].vpage)
<1> DEFINE M == bd.MemoryMap
           n == bd.NumEntries
           p == bd.paddr_base
           q == bd.mmio_base
           np == machine.n_pages
<1>1. OwnersInv /\ PagedInv /\ MapInv /\ phase \in Tables /\ phase \in Done /\ World /\ RamInv
  BY DEF BootLoaderInv, LoaderInv, Entered, Tables, Done, OwnersInv
<1>2. /\ p \in Nat /\ q \in Nat /\ data \in Nat /\ free_memory \in Nat /\ np \in Nat
      /\ APIC_PADDR \in Nat /\ DOMAIN ram \subseteq Nat
  BY <1>1, BasesRoom, HandedFields, BootAssumption, RamFacts
<1>3. /\ Account(bd, n, n + 1, ram, machine) /\ Assigned(bd)
      /\ M \in Seq(Descriptor) /\ n \in Nat /\ n <= Len(M)
  BY <1>1 DEF MapInv, DoneInv, Account
<1>4. True(M, 1 .. n, n + 1, ram)
  <2>1. Entries(n, n + 1, n) = 1 .. n
    BY <1>3 DEF Entries
  <2> QED BY <1>3, <2>1 DEF Account, Merged
<1>5. \A i \in 1 .. n : M[i] \in Descriptor /\ i < n + 1
  BY <1>3
<1>6. NumCalls(Handed) = 3 + n + Len(phdrs) /\ Len(phdrs) \in Nat
  BY HandedCalls
<1>7. \A c, v : ApicPage(c, v) => PageFrame(c, v) = APIC_PADDR
  BY <1>2, HandedRanges DEF ApicPage, PageFrame, PageRange
<1> HIDE DEF M, n, p, q, np
<1>8. ASSUME NEW c, NEW v, IoPage(c, v) PROVE PageFrame(c, v) \notin DOMAIN ram
  <2>1. PICK i \in 1 .. n : c = 3 + i /\ M[i].Type \in MmioType /\ v \in HandedCall(c)
    BY <1>8 DEF IoPage, IoCall, M, n
  <2>2. HandedRange(c) = RuntimeRange(M[i]) /\ HandedCall(c) = Pages(RuntimeRange(M[i]))
    BY <2>1, HandedRanges, HandedCalls DEF M, n
  <2> DEFINE s == M[i].PhysicalStart
             a == M[i].VirtualStart
             k == M[i].NumberOfPages
             l == IF M[i].runtime THEN k ELSE 0
             f == s + (v - a)
  <2>3. s \in Nat /\ a \in Nat /\ k \in Nat
    BY <1>5 DEF Descriptor
  <2>4. v \in a .. a + l - 1 /\ PageFrame(c, v) = f
    <3>1. RuntimeRange(M[i]).vpage = a /\ RuntimeRange(M[i]).ppage = s
          /\ RuntimeRange(M[i]).n = l
      BY DEF RuntimeRange, PageRange
    <3>2. Pages(RuntimeRange(M[i])) = a .. a + l - 1
      BY <3>1 DEF Pages
    <3>3. v \in a .. a + l - 1
      BY <2>1, <2>2, <3>2
    <3>4. HandedRange(c).vpage = a /\ HandedRange(c).ppage = s
      BY <2>2, <3>1
    <3> QED BY <3>3, <3>4 DEF PageFrame
  <2>5. l \in Nat /\ l <= k
    BY <2>3
  <2>6. f \in s .. s + k - 1
    <3> HIDE DEF s, a, k, l
    <3> QED BY <2>3, <2>4, <2>5
  <2>7. f \in Holds(M[i])
    BY <2>6 DEF Holds
  <2> HIDE DEF f
  <2>8. f \in DOMAIN ram => M[i].Type = Claim(ram, f)
    BY <1>4, <1>5, <2>7 DEF True
  <2> QED BY <1>1, <2>1, <2>4, <2>8, RamIsNotIo
<1>9. ASSUME NEW c, NEW f, WindowFrame(c, f)
      PROVE  /\ c \in 1 .. NumCalls(Handed) /\ p + f \in HandedCall(c)
             /\ PageFrame(c, p + f) = f
  <2>1. CASE c = 1 /\ f = data
    <3>1. HandedRange(1).ppage = data /\ HandedRange(1).vpage = p + data
          /\ HandedCall(1) = {p + data}
      BY HandedRanges, HandedCalls DEF PageRange, p
    <3> QED BY <1>2, <1>3, <1>6, <2>1, <3>1 DEF PageFrame
  <2>2. CASE c = 2 /\ f \in free_memory .. free_memory + np - 1
    <3>1. HandedRange(2).ppage = free_memory /\ HandedRange(2).vpage = p + free_memory
          /\ HandedCall(2) = p + free_memory .. p + free_memory + np - 1
      BY HandedRanges, HandedCalls DEF PageRange, p, np
    <3> QED BY <1>2, <1>3, <1>6, <2>2, <3>1 DEF PageFrame
  <2>3. ASSUME NEW i \in 1 .. n, c = 3 + i, M[i].Type \notin MmioType, f \in Holds(M[i]),
               f \in DOMAIN ram, ram[f].runtime = TRUE
        PROVE  /\ c \in 1 .. NumCalls(Handed) /\ p + f \in HandedCall(c)
               /\ PageFrame(c, p + f) = f
    <3>1. HandedRange(c) = RuntimeRange(M[i]) /\ HandedCall(c) = Pages(RuntimeRange(M[i]))
      BY <2>3, HandedRanges, HandedCalls DEF M, n
    <3>2. M[i].runtime = TRUE
      <4>1. M[i].runtime = ram[f].runtime
        BY <1>4, <2>3 DEF True
      <4> QED BY <2>3, <4>1
    <3> DEFINE s == M[i].PhysicalStart
               k == M[i].NumberOfPages
    <3>3. M[i].VirtualStart = s + p
      BY <1>3, <2>3, <3>2 DEF Assigned, M, n, p
    <3>4. s \in Nat /\ k \in Nat /\ f \in s .. s + k - 1
      BY <1>5, <2>3 DEF Descriptor, Holds
    <3>5. HandedRange(c).ppage = s /\ HandedRange(c).vpage = s + p
          /\ HandedCall(c) = s + p .. s + p + k - 1
      <4>1. M[i].runtime
        BY <3>2
      <4> QED BY <3>1, <3>3, <4>1 DEF RuntimeRange, PageRange, Pages
    <3> HIDE DEF s, k
    <3>6. p + f \in HandedCall(c) /\ PageFrame(c, p + f) = f
      BY <1>2, <3>4, <3>5 DEF PageFrame
    <3>7. c \in 1 .. NumCalls(Handed)
      BY <1>3, <1>6, <2>3
    <3> QED BY <3>6, <3>7
  <2> QED BY <1>9, <2>1, <2>2, <2>3 DEF WindowFrame, M, n, np
<1>10. \A c, i, v : KernelCall(c, i) => PageFrame(c, v) = phdrs[i].ppage + (v - phdrs[i].vpage)
  <2> SUFFICES ASSUME NEW c, NEW i, NEW v, KernelCall(c, i)
               PROVE  PageFrame(c, v) = phdrs[i].ppage + (v - phdrs[i].vpage)
    OBVIOUS
  <2>1. HandedRange(c) = KernelRange(phdrs[i])
    BY HandedRanges DEF KernelCall
  <2> QED BY <2>1 DEF PageFrame, KernelRange, PageRange
<1> QED BY <1>7, <1>8, <1>9, <1>10 DEF p

\* After the switch the tables of the kernel hold the pages of the calls the
\* loader had in mind, each at its frame, and nothing else.
LEMMA FinalTables ==
    ASSUME BootInv, cr3 # K!BOOT
    PROVE  /\ phase \in Entered
           /\ \A c \in 1 .. NumCalls(Handed) : \A v \in HandedCall(c) :
                 /\ v \in DOMAIN K!Translation(mem, cr3)
                 /\ K!Translation(mem, cr3)[v].addr = PageFrame(c, v)
           /\ \A v \in DOMAIN K!Translation(mem, cr3) :
                 \E c \in 1 .. NumCalls(Handed) : v \in HandedCall(c)
<1>1. KernelOn
  BY DEF BootInv, KernelOff
<1>2. /\ bootloader_data = Handed /\ KP!IInv /\ KP!TInv /\ cr3 # KP!BOOT /\ phase \in Entered
  BY <1>1 DEF KernelOn, K!BOOT, KP!BOOT, Entered
<1>3. apic_vaddr = Handed.mmio_base - 1
  <2>1. kphase # "kernel_main"
    BY <1>2 DEF KP!TInv, KP!Stage, KP!Early
  <2> QED BY <1>2, <2>1 DEF KP!IInv, KP!Progress
<1>4. K!Translation(mem, cr3) = KP!Translation(mem, cr3)
  BY DEF K!Translation, KP!Translation, K!Mapped, KP!Mapped, K!Writable, KP!Writable,
         K!Leaf, KP!Leaf, K!Table1, KP!Table1, K!Table2, KP!Table2, K!Table3, KP!Table3,
         K!Entry, KP!Entry, K!Covers, KP!Covers, K!VPage, KP!VPage
<1>5. KP!NumCalls(Handed) = NumCalls(Handed)
  BY DEF KP!NumCalls, NumCalls
<1>6. \A c : KP!RangeOf(c) = HandedRange(c)
  BY <1>2, <1>3 DEF KP!RangeOf, HandedRange, MapRangeCall, KP!MapRangeCall, PageRange,
     KP!PageRange, RuntimeRange, KP!RuntimeRange, KernelRange, KP!KernelRange,
     NUM_PAGES, KP!NUM_PAGES
<1>7. \A c : KP!Pages(KP!RangeOf(c)) = HandedCall(c)
  BY <1>6 DEF HandedCall, Pages, KP!Pages
<1>8. /\ \A c \in 1 .. KP!NumCalls(bootloader_data) : \A v \in KP!Pages(KP!RangeOf(c)) :
            /\ v \in DOMAIN KP!Translation(mem, cr3)
            /\ KP!Translation(mem, cr3)[v].addr
                  = KP!RangeOf(c).ppage + (v - KP!RangeOf(c).vpage)
      /\ \A v \in DOMAIN KP!Translation(mem, cr3) :
            \E c \in 1 .. KP!NumCalls(bootloader_data) : v \in KP!Pages(KP!RangeOf(c))
  BY <1>2, GoodMeetsAssumptions, KP!FinalTranslation
<1>9. ASSUME NEW c \in 1 .. NumCalls(Handed), NEW v \in HandedCall(c)
      PROVE  /\ v \in DOMAIN K!Translation(mem, cr3)
             /\ K!Translation(mem, cr3)[v].addr = PageFrame(c, v)
  <2>1. c \in 1 .. KP!NumCalls(bootloader_data) /\ v \in KP!Pages(KP!RangeOf(c))
    BY <1>2, <1>5, <1>7, <1>9
  <2>2. /\ v \in DOMAIN KP!Translation(mem, cr3)
        /\ KP!Translation(mem, cr3)[v].addr = KP!RangeOf(c).ppage + (v - KP!RangeOf(c).vpage)
    BY <1>8, <2>1
  <2> QED BY <1>4, <1>6, <2>2 DEF PageFrame
<1>10. ASSUME NEW v \in DOMAIN K!Translation(mem, cr3)
       PROVE  \E c \in 1 .. NumCalls(Handed) : v \in HandedCall(c)
  <2>1. v \in DOMAIN KP!Translation(mem, cr3)
    BY <1>4, <1>10
  <2>2. PICK c \in 1 .. KP!NumCalls(bootloader_data) : v \in KP!Pages(KP!RangeOf(c))
    BY <1>8, <2>1
  <2> QED BY <1>2, <1>5, <1>7, <2>2
<1> QED BY <1>2, <1>9, <1>10

\* Frames of the window and frames of the kernel are not the same, and no two
\* segments have one.
LEMMA SegmentsApart ==
    ASSUME BootLoaderInv, phase \in Entered
    PROVE  /\ \A i \in 1 .. Len(phdrs) :
                 /\ SegmentFrames(phdrs[i]) \subseteq DOMAIN ram
                 /\ \A c, f : WindowFrame(c, f) => f \notin SegmentFrames(phdrs[i])
                 /\ \A f \in SegmentFrames(phdrs[i]) : ram[f].runtime = FALSE
           /\ \A i, j \in 1 .. Len(phdrs) :
                 i # j => SegmentFrames(phdrs[i]) \cap SegmentFrames(phdrs[j]) = {}
           /\ KernelSegments = UNION {SegmentFrames(phdrs[i]) : i \in 1 .. Len(phdrs)}
           /\ \A i \in 1 .. Len(phdrs) :
                 /\ phdrs[i].ppage \in Nat /\ phdrs[i].vpage \in Nat
                 /\ KernelRange(phdrs[i]).n \in Int
                 /\ Pages(KernelRange(phdrs[i]))
                       = phdrs[i].vpage .. phdrs[i].vpage + KernelRange(phdrs[i]).n - 1
<1>1. /\ Segments(ram, pool, phdrs, Pages4) /\ phdrs \in Seq(Phdr) /\ data \in Nat
  BY HandedFields, HandedCalls DEF BootLoaderInv, LoaderInv, OwnersInv, SegmentsInv, HeadersInv,
     Headers, Entered, Tables, MemoryInv, MemoryOn, PrelimOn, LoadedOn, BootMemory
<1>2. \A i \in 1 .. Len(phdrs) : phdrs[i] \in Phdr
  BY <1>1
<1>3. ASSUME NEW i \in 1 .. Len(phdrs), NEW f \in SegmentFrames(phdrs[i])
      PROVE  f \in DOMAIN ram /\ ram[f].runtime = FALSE /\ f \notin Pages4
  BY <1>1, <1>3 DEF Segments, Owned
<1>4. ASSUME NEW i \in 1 .. Len(phdrs), NEW c, NEW f, WindowFrame(c, f)
      PROVE  f \notin SegmentFrames(phdrs[i])
  <2>1. f \in Pages4 \/ ram[f].runtime = TRUE
    <3>1. data \in data .. data + 1
      BY <1>1
    <3> QED BY <1>4, <3>1 DEF WindowFrame, Pages4, LoaderPages
  <2> QED BY <1>3, <2>1
<1>5. \A i, j \in 1 .. Len(phdrs) :
         i # j => SegmentFrames(phdrs[i]) \cap SegmentFrames(phdrs[j]) = {}
  BY <1>1 DEF Segments
<1>6. KernelSegments = UNION {SegmentFrames(phdrs[i]) : i \in 1 .. Len(phdrs)}
  <2>1. DOMAIN phdrs = 1 .. Len(phdrs)
    BY <1>1
  <2>2. \A i : KernelRange(phdrs[i]).ppage = phdrs[i].ppage
    BY DEF KernelRange, PageRange
  <2> QED BY <2>1, <2>2 DEF KernelSegments, SegmentFrames
<1>7. ASSUME NEW i \in 1 .. Len(phdrs)
      PROVE  /\ phdrs[i].ppage \in Nat /\ phdrs[i].vpage \in Nat
             /\ KernelRange(phdrs[i]).n \in Int
             /\ Pages(KernelRange(phdrs[i]))
                   = phdrs[i].vpage .. phdrs[i].vpage + KernelRange(phdrs[i]).n - 1
  <2>1. phdrs[i].ppage \in Nat /\ phdrs[i].vpage \in Nat
    BY <1>2 DEF Phdr
  <2>2. KernelRange(phdrs[i]).n \in Int
    BY <1>2, RunTypes DEF Run
  <2>3. KernelRange(phdrs[i]).vpage = phdrs[i].vpage
    BY DEF KernelRange, PageRange
  <2> QED BY <2>1, <2>2, <2>3 DEF Pages
<1>8. \A i \in 1 .. Len(phdrs) : SegmentFrames(phdrs[i]) \subseteq DOMAIN ram
  BY <1>3
<1>9. \A i \in 1 .. Len(phdrs) : \A f \in SegmentFrames(phdrs[i]) : ram[f].runtime = FALSE
  BY <1>3
<1> QED BY <1>4, <1>5, <1>6, <1>7, <1>8, <1>9

\* A page of the kernel's tables that is backed by RAM is its window's page of a
\* frame of the window, or the page of a segment at its place.
BackedBy(c, v, f) ==
    \/ WindowFrame(c, f) /\ v = bd.paddr_base + f
    \/ \E i \in 1 .. Len(phdrs) :
          f \in SegmentFrames(phdrs[i]) /\ v = phdrs[i].vpage + (f - phdrs[i].ppage)

\* There are no others: the pages of the APIC and of I/O are not backed by RAM.
LEMMA PagesInRam ==
    ASSUME BootLoaderInv, phase \in Entered, NEW c \in 1 .. NumCalls(Handed),
           NEW v \in HandedCall(c), PageFrame(c, v) \in DOMAIN ram
    PROVE  BackedBy(c, v, PageFrame(c, v))
<1> DEFINE f == PageFrame(c, v)
<1>1. ApicPage(c, v) \/ IoPage(c, v) \/ WindowPage(c, v) \/ KernelPage(c, v)
  BY CallsByArea
<1>2. APIC_PADDR \notin DOMAIN ram
  <2>1. World /\ DOMAIN ram = DOMAIN machine.ram
    BY RamFacts DEF BootLoaderInv, LoaderInv, OwnersInv
  <2> QED BY <2>1, BootAssumption DEF World
<1>3. ~ApicPage(c, v) /\ ~IoPage(c, v)
  BY <1>2, FramesByArea
<1>4. CASE WindowPage(c, v)
  <2>1. PICK g : WindowFrame(c, g) /\ v = bd.paddr_base + g
    BY <1>4 DEF WindowPage
  <2>2. f = g
    BY <2>1, FramesByArea
  <2> QED BY <2>1, <2>2 DEF BackedBy
<1>5. CASE KernelPage(c, v)
  <2>1. PICK i \in 1 .. Len(phdrs) : KernelCall(c, i) /\ v \in Pages(KernelRange(phdrs[i]))
    BY <1>5 DEF KernelPage
  <2>2. f = phdrs[i].ppage + (v - phdrs[i].vpage)
    BY <2>1, FramesByArea
  <2> DEFINE a == phdrs[i].ppage
             u == phdrs[i].vpage
             k == KernelRange(phdrs[i]).n
  <2>3. a \in Nat /\ u \in Nat /\ k \in Int /\ v \in u .. u + k - 1 /\ f = a + (v - u)
    BY <2>1, <2>2, SegmentsApart
  <2>4. SegmentFrames(phdrs[i]) = a .. a + k - 1
    BY DEF SegmentFrames
  <2> HIDE DEF f, a, u, k
  <2>5. f \in a .. a + k - 1 /\ v = u + (f - a)
    BY <2>3
  <2>6. f \in SegmentFrames(phdrs[i]) /\ v = phdrs[i].vpage + (f - phdrs[i].ppage)
    BY <2>4, <2>5 DEF a, u
  <2> QED BY <2>6 DEF BackedBy, f
<1> QED BY <1>1, <1>3, <1>4, <1>5

\* The frame tells the page.
LEMMA OnePage ==
    ASSUME BootLoaderInv, phase \in Entered, NEW c, NEW d, NEW v, NEW w, NEW f,
           BackedBy(c, v, f), BackedBy(d, w, f)
    PROVE  v = w
<1>1. \A i \in 1 .. Len(phdrs) : \A e, g : WindowFrame(e, g) => g \notin SegmentFrames(phdrs[i])
  BY SegmentsApart
<1>2. \A i, j \in 1 .. Len(phdrs) :
         i # j => SegmentFrames(phdrs[i]) \cap SegmentFrames(phdrs[j]) = {}
  BY SegmentsApart
<1> QED BY <1>1, <1>2 DEF BackedBy

\* Every frame of the struct, the free memory, the image and the runtime memory
\* has its page.
LEMMA FramesHavePages ==
    ASSUME BootLoaderInv, phase \in Entered
    PROVE  /\ \E c : WindowFrame(c, data)
           /\ \A f \in free_memory .. free_memory + FREE_PAGES - 1 : \E c : WindowFrame(c, f)
           /\ \A f \in DOMAIN ram : ram[f].runtime = TRUE => \E c : WindowFrame(c, f)
           /\ \A i \in 1 .. Len(phdrs) : \A f \in SegmentFrames(phdrs[i]) :
                 \E c \in 1 .. NumCalls(Handed) : \E v \in HandedCall(c) : PageFrame(c, v) = f
<1> DEFINE M == bd.MemoryMap
           n == bd.NumEntries
<1>1. WindowFrame(1, data)
  BY DEF WindowFrame
<1>2. \A f \in free_memory .. free_memory + FREE_PAGES - 1 : WindowFrame(2, f)
  BY DEF WindowFrame, FREE_PAGES
<1>3. ASSUME NEW f \in DOMAIN ram, ram[f].runtime = TRUE PROVE \E c : WindowFrame(c, f)
  <2>1. OwnersInv /\ MapInv /\ phase \in Done /\ World /\ RamInv
    BY DEF BootLoaderInv, LoaderInv, Entered, Done, OwnersInv
  <2>2. Account(bd, n, n + 1, ram, machine) /\ n \in Nat
    BY <2>1 DEF MapInv, DoneInv, Account
  <2>3. Complete(M, 1 .. n, ram) /\ True(M, 1 .. n, n + 1, ram)
    <3>1. Entries(n, n + 1, n) = 1 .. n
      BY <2>2 DEF Entries
    <3> QED BY <2>2, <3>1 DEF Account, Merged
  <2>4. PICK i \in 1 .. n : f \in Holds(M[i])
    BY <1>3, <2>3 DEF Complete
  <2>5. i < n + 1
    BY <2>2
  <2>6. M[i].Type = Claim(ram, f)
    BY <1>3, <2>3, <2>4, <2>5 DEF True
  <2>7. M[i].Type \notin MmioType
    BY <1>3, <2>1, <2>6, RamIsNotIo
  <2>8. WindowFrame(3 + i, f)
    BY <1>3, <2>4, <2>7 DEF WindowFrame
  <2> QED BY <2>8
<1>4. ASSUME NEW i \in 1 .. Len(phdrs), NEW f \in SegmentFrames(phdrs[i])
      PROVE  \E c \in 1 .. NumCalls(Handed) : \E v \in HandedCall(c) : PageFrame(c, v) = f
  <2> DEFINE c == 3 + bd.NumEntries + i
             v == phdrs[i].vpage + (f - phdrs[i].ppage)
             k == KernelRange(phdrs[i]).n
  <2>1. /\ phdrs[i].ppage \in Nat /\ phdrs[i].vpage \in Nat /\ k \in Int
        /\ Pages(KernelRange(phdrs[i])) = phdrs[i].vpage .. phdrs[i].vpage + k - 1
        /\ f \in phdrs[i].ppage .. phdrs[i].ppage + k - 1
    BY <1>4, SegmentsApart DEF SegmentFrames
  <2>2. /\ NumCalls(Handed) = 3 + bd.NumEntries + Len(phdrs)
        /\ bd.NumEntries \in Nat /\ Len(phdrs) \in Nat
        /\ HandedCall(3 + bd.NumEntries + i) = Pages(KernelRange(phdrs[i]))
    BY HandedCalls
  <2>3. KernelCall(c, i) /\ c \in 1 .. NumCalls(Handed)
    BY <2>2 DEF KernelCall
  <2>4. PageFrame(c, v) = phdrs[i].ppage + (v - phdrs[i].vpage)
    BY <2>3, FramesByArea
  <2> HIDE DEF k
  <2>5. v \in Pages(KernelRange(phdrs[i])) /\ phdrs[i].ppage + (v - phdrs[i].vpage) = f
    BY <2>1
  <2> HIDE DEF v
  <2> QED BY <2>2, <2>3, <2>4, <2>5
<1> QED BY <1>1, <1>2, <1>3, <1>4

\* What the kernel's tables name in RAM, read off the calls.
LEMMA OneAddressFollows == ASSUME BootInv PROVE OneAddressPerFrame
<1> SUFFICES ASSUME cr3 # K!BOOT PROVE OneAddressPerFrame
  BY DEF OneAddressPerFrame
<1> DEFINE T == K!Translation(mem, cr3)
           In == {v \in DOMAIN T : T[v].addr \in DOMAIN ram}
           Rt == {f \in DOMAIN ram : ram[f].runtime}
           Room == free_memory .. free_memory + FREE_PAGES - 1
<1>1. BootLoaderInv /\ phase \in Entered
  BY FinalTables DEF BootInv
<1>2. ASSUME NEW v \in In
      PROVE  \E c \in 1 .. NumCalls(Handed) : BackedBy(c, v, T[v].addr)
  <2>1. PICK c \in 1 .. NumCalls(Handed) : v \in HandedCall(c)
    BY <1>2, FinalTables
  <2>2. T[v].addr = PageFrame(c, v)
    BY <2>1, FinalTables
  <2> QED BY <1>1, <1>2, <2>1, <2>2, PagesInRam
<1>3. \A c \in 1 .. NumCalls(Handed) : \A v \in HandedCall(c) :
         v \in DOMAIN T /\ T[v].addr = PageFrame(c, v)
  BY FinalTables
<1>4. ASSUME NEW c, NEW f, WindowFrame(c, f)
      PROVE  /\ bd.paddr_base + f \in DOMAIN T /\ T[bd.paddr_base + f].addr = f
             /\ f \in DOMAIN ram
  <2>1. /\ c \in 1 .. NumCalls(Handed) /\ bd.paddr_base + f \in HandedCall(c)
        /\ PageFrame(c, bd.paddr_base + f) = f
    BY <1>1, <1>4, FramesByArea
  <2>2. f \in DOMAIN ram
    BY <1>1, <1>4, WindowPages
  <2> QED BY <1>3, <2>1, <2>2
<1>5. \A f \in Rt : ram[f].runtime = TRUE
  <2>1. \A f \in DOMAIN ram : ram[f].runtime \in BOOLEAN
    BY <1>1, RamFacts DEF BootLoaderInv, LoaderInv, OwnersInv, Region
  <2> QED BY <2>1
<1> HIDE DEF T
<1>6. ASSUME NEW v \in In, NEW w \in In, T[v].addr = T[w].addr PROVE v = w
  BY <1>1, <1>2, <1>6, OnePage
<1>7. ASSUME NEW v \in In PROVE T[v].addr \in {data} \cup Room \cup KernelSegments \cup Rt
  <2> DEFINE f == T[v].addr
  <2>1. PICK c : BackedBy(c, v, f)
    BY <1>2, <1>7
  <2>2. CASE WindowFrame(c, f)
    BY <1>7, <2>2 DEF WindowFrame, FREE_PAGES
  <2>3. CASE \E i \in 1 .. Len(phdrs) : f \in SegmentFrames(phdrs[i])
    <3>1. f \in KernelSegments
      BY <1>1, <2>3, SegmentsApart
    <3> QED BY <3>1
  <2> QED BY <2>1, <2>2, <2>3 DEF BackedBy
<1>8. ASSUME NEW f \in {data} \cup Room \cup KernelSegments \cup Rt
      PROVE  \E v \in In : T[v].addr = f
  <2>1. CASE f \in {data} \cup Room \cup Rt
    <3>1. \E c : WindowFrame(c, f)
      BY <1>1, <1>5, <2>1, FramesHavePages
    <3> QED BY <1>4, <3>1
  <2>2. CASE f \in KernelSegments
    <3>1. PICK i \in 1 .. Len(phdrs) : f \in SegmentFrames(phdrs[i])
      BY <1>1, <2>2, SegmentsApart
    <3>2. f \in DOMAIN ram
      BY <1>1, <3>1, SegmentsApart
    <3>3. PICK c \in 1 .. NumCalls(Handed) : \E v \in HandedCall(c) : PageFrame(c, v) = f
      BY <1>1, <3>1, FramesHavePages
    <3>4. PICK v \in HandedCall(c) : PageFrame(c, v) = f
      BY <3>3
    <3> QED BY <1>3, <3>2, <3>4
  <2> QED BY <1>8, <2>1, <2>2
<1>9. ASSUME NEW f \in Rt
      PROVE  f + bd.paddr_base \in DOMAIN T /\ T[f + bd.paddr_base].addr = f
  <2>1. \E c : WindowFrame(c, f)
    BY <1>1, <1>5, <1>9, FramesHavePages
  <2>2. f \in Nat /\ bd.paddr_base \in Nat
    <3>1. DOMAIN ram \subseteq Nat
      BY <1>1, RamFacts DEF BootLoaderInv, LoaderInv, OwnersInv
    <3> QED BY <1>1, <3>1, BasesRoom DEF BootLoaderInv, LoaderInv, Entered, Tables
  <2>3. f + bd.paddr_base = bd.paddr_base + f
    BY <2>2
  <2> QED BY <1>4, <2>1, <2>3
<1>10. {T[v].addr : v \in In} = {data} \cup Room \cup KernelSegments \cup Rt
  <2> DEFINE S == {data} \cup Room \cup KernelSegments \cup Rt
  <2> HIDE DEF S, In
  <2>1. \A v \in In : T[v].addr \in S
    BY <1>7 DEF S
  <2>2. \A f \in S : \E v \in In : T[v].addr = f
    BY <1>8 DEF S
  <2>3. {T[v].addr : v \in In} = S
    BY <2>1, <2>2
  <2> QED BY <2>3 DEF S
<1> QED BY <1>6, <1>9, <1>10 DEF OneAddressPerFrame, T

\* After the switch no frame of RAM has two pages, and the struct, the free
\* memory, the image and the runtime memory are mapped, at the addresses
\* SetVirtualAddressMap was told, for every machine, kernel and firmware.
THEOREM KernelOneAddressPerFrame == BootSpec => []OneAddressPerFrame
  BY OneAddressFollows, BootInvariance, PTL
=============================================================================
