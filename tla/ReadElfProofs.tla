--------------------------- MODULE ReadElfProofs ---------------------------
(***************************************************************************)
(* readelf keeps account of its buffers for every set of files, whatever   *)
(* number of sections and program headers they have and whichever of the   *)
(* calls of elf_alloc and elf_read fail.                                   *)
(***************************************************************************)
EXTENDS ReadElf, LeastNatural, FiniteSetTheorems

-----------------------------------------------------------------------------
(***************************************************************************)
(* Counting pointers.                                                      *)
(***************************************************************************)

\* Two finite sets that differ in one element at most.
LEMMA CountChange ==
    ASSUME NEW A, NEW B, IsFiniteSet(A), NEW x, B \ {x} = A \ {x}
    PROVE  /\ IsFiniteSet(B) /\ Cardinality(A) \in Nat /\ Cardinality(B) \in Nat
           /\ Cardinality(B) = (Cardinality(A) - (IF x \in A THEN 1 ELSE 0))
                                  + (IF x \in B THEN 1 ELSE 0)
<1>1. /\ IsFiniteSet(A \ {x}) /\ Cardinality(A) \in Nat
      /\ Cardinality(A \ {x}) = IF x \in A THEN Cardinality(A) - 1 ELSE Cardinality(A)
  BY FS_RemoveElement, FS_CardinalityType
<1>2. IsFiniteSet(B)
  <2>1. IsFiniteSet((B \ {x}) \cup {x})
    BY <1>1, FS_AddElement
  <2>2. B \subseteq (B \ {x}) \cup {x}
    OBVIOUS
  <2> QED BY <2>1, <2>2, FS_Subset
<1>3. /\ Cardinality(B) \in Nat
      /\ Cardinality(B \ {x}) = IF x \in B THEN Cardinality(B) - 1 ELSE Cardinality(B)
  BY <1>2, FS_RemoveElement, FS_CardinalityType
<1> QED
  BY <1>1, <1>2, <1>3

\* struct elf_file has finitely many fields.
LEMMA FieldsFinite == IsFiniteSet(Field)
<1> DEFINE A == {"header", "program_headers"} \cup {"sections", "section_names"}
           B == {"interpreter", "dynamic"} \cup {"symbol_tables", "rel_tables"}
<1>1. \A x, y : IsFiniteSet({x, y})
  <2> SUFFICES ASSUME NEW x, NEW y PROVE IsFiniteSet({x, y})
    OBVIOUS
  <2>1. IsFiniteSet({x} \cup {y})
    BY FS_Singleton, FS_AddElement
  <2>2. {x} \cup {y} = {x, y}
    OBVIOUS
  <2> QED BY <2>1, <2>2
<1>2. IsFiniteSet(A) /\ IsFiniteSet(B)
  BY <1>1, FS_Union
<1>3. Field = A \cup B
  BY DEF Field
<1> HIDE DEF A, B
<1> QED
  BY <1>2, <1>3, FS_Union

\* The fields that hold pointer k, and the elements that do.
Fields(e, k) == {f \in Field : e[f] = k}
Symbols(s, k) == {t \in DOMAIN s : s[t].symbols = k}
Names(s, k) == {t \in DOMAIN s : s[t].names = k}
Rels(r, k) == {t \in DOMAIN r : r[t].relocations = k}

\* How many pointers lead to buffer k, and how often it has been freed besides.
Pointers(e, s, r, k) ==
    (Cardinality(Fields(e, k)) + (Cardinality(Symbols(s, k)) + Cardinality(Names(s, k))))
       + Cardinality(Rels(r, k))
Account(h, e, s, r, k) == h[k] + Pointers(e, s, r, k)

\* Pointers that are NULL or to a buffer.
Typed(h, e, s, r) ==
    /\ h \in Seq(Nat) /\ e \in [Field -> 0 .. Len(h)]
    /\ s \in Seq(SymbolTable) /\ r \in Seq(RelTable)
    /\ \A t \in DOMAIN s : s[t].symbols <= Len(h) /\ s[t].names <= Len(h)
    /\ \A t \in DOMAIN r : r[t].relocations <= Len(h)

\* Every buffer is accounted for once.
Balanced(h, e, s, r) ==
    Typed(h, e, s, r) /\ \A k \in 1 .. Len(h) : Account(h, e, s, r, k) = 1

\* What elf_alloc and elf_read2 do to the heap: the buffers allocated are freed,
\* except for the one that is returned.
Outcome(h, o) ==
    LET new == Len(h) + 1 .. Len(o[1]) IN
    /\ o[1] \in Seq(Nat) /\ Len(h) <= Len(o[1])
    /\ \A k \in 1 .. Len(h) : o[1][k] = h[k]
    /\ o[2] \in {NULL} \cup new
    /\ \A k \in new : o[1][k] = IF k = o[2] THEN 0 ELSE 1

\* The counts are natural numbers.
LEMMA CountTypes ==
    ASSUME NEW e, NEW s \in Seq(SymbolTable), NEW r \in Seq(RelTable), NEW k
    PROVE  /\ IsFiniteSet(Fields(e, k)) /\ Cardinality(Fields(e, k)) \in Nat
           /\ IsFiniteSet(Symbols(s, k)) /\ Cardinality(Symbols(s, k)) \in Nat
           /\ IsFiniteSet(Names(s, k)) /\ Cardinality(Names(s, k)) \in Nat
           /\ IsFiniteSet(Rels(r, k)) /\ Cardinality(Rels(r, k)) \in Nat
           /\ Pointers(e, s, r, k) \in Nat
<1>1. /\ Fields(e, k) \in SUBSET Field /\ Symbols(s, k) \in SUBSET DOMAIN s
      /\ Names(s, k) \in SUBSET DOMAIN s /\ Rels(r, k) \in SUBSET DOMAIN r
  BY DEF Fields, Symbols, Names, Rels
<1>2. IsFiniteSet(DOMAIN s) /\ IsFiniteSet(DOMAIN r)
  <2>1. DOMAIN s = 1 .. Len(s) /\ Len(s) \in Int /\ DOMAIN r = 1 .. Len(r) /\ Len(r) \in Int
        /\ 1 \in Int
    OBVIOUS
  <2>2. IsFiniteSet(1 .. Len(s)) /\ IsFiniteSet(1 .. Len(r))
    BY <2>1, FS_Interval
  <2> QED BY <2>1, <2>2
<1>3. /\ IsFiniteSet(Fields(e, k)) /\ IsFiniteSet(Symbols(s, k))
      /\ IsFiniteSet(Names(s, k)) /\ IsFiniteSet(Rels(r, k))
  BY <1>1, <1>2, FieldsFinite, FS_Subset
<1>4. /\ Cardinality(Fields(e, k)) \in Nat /\ Cardinality(Symbols(s, k)) \in Nat
      /\ Cardinality(Names(s, k)) \in Nat /\ Cardinality(Rels(r, k)) \in Nat
  BY <1>3, FS_CardinalityType
<1>5. Pointers(e, s, r, k) \in Nat
  BY <1>4 DEF Pointers
<1> QED
  BY <1>3, <1>4, <1>5

\* No pointer leads past the end of the heap.
LEMMA NothingBeyond ==
    ASSUME NEW h, NEW e, NEW s, NEW r, Typed(h, e, s, r), NEW k \in Nat, k > Len(h)
    PROVE  /\ Fields(e, k) = {} /\ Symbols(s, k) = {} /\ Names(s, k) = {} /\ Rels(r, k) = {}
<1>1. Len(h) \in Nat /\ \A j \in 0 .. Len(h) : j # k
  BY DEF Typed
<1>2. \A t \in DOMAIN s : s[t].symbols \in 0 .. Len(h) /\ s[t].names \in 0 .. Len(h)
  <2>1. \A t \in DOMAIN s : s[t] \in SymbolTable
    BY DEF Typed
  <2> QED BY <1>1, <2>1 DEF Typed, SymbolTable
<1>3. \A t \in DOMAIN r : r[t].relocations \in 0 .. Len(h)
  <2>1. \A t \in DOMAIN r : r[t] \in RelTable
    BY DEF Typed
  <2> QED BY <1>1, <2>1 DEF Typed, RelTable
<1> QED
  BY <1>1, <1>2, <1>3 DEF Typed, Fields, Symbols, Names, Rels
\* Pointers that are as before, but for the one to the new buffer.
LEMMA NewAccounts ==
    ASSUME NEW h, NEW e, NEW s, NEW r, Balanced(h, e, s, r), NEW o, Outcome(h, o),
           NEW e2, NEW s2, NEW r2, NEW k \in 1 .. Len(o[1]),
           Pointers(e2, s2, r2, k) = Pointers(e, s, r, k) + (IF k = o[2] THEN 1 ELSE 0)
    PROVE  Account(o[1], e2, s2, r2, k) = 1
<1> DEFINE c == Pointers(e, s, r, k)
           d == Pointers(e2, s2, r2, k)
<1>1. c \in Nat /\ d = c + (IF k = o[2] THEN 1 ELSE 0)
  BY CountTypes DEF Balanced, Typed
<1>2. Account(h, e, s, r, k) = h[k] + c /\ Account(o[1], e2, s2, r2, k) = o[1][k] + d
  BY DEF Account
<1>3. Len(h) \in Nat /\ Len(o[1]) \in Nat /\ h \in Seq(Nat) /\ Len(h) <= Len(o[1])
  BY DEF Balanced, Typed, Outcome
<1> HIDE DEF c, d
<1>4. CASE k <= Len(h)
  <2>1. k \in 1 .. Len(h)
    BY <1>3, <1>4
  <2>2. o[1][k] = h[k] /\ h[k] \in Nat
    <3>1. \A j \in 1 .. Len(h) : o[1][j] = h[j]
      BY DEF Outcome
    <3>2. \A j \in 1 .. Len(h) : h[j] \in Nat
      BY <1>3
    <3> QED BY <2>1, <3>1, <3>2
  <2>3. k # o[2]
    BY <1>3, <1>4 DEF Outcome, NULL
  <2>4. h[k] + c = 1
    BY <1>2, <2>1 DEF Balanced
  <2> QED BY <1>1, <1>2, <2>2, <2>3, <2>4
<1>5. CASE k > Len(h)
  <2>1. k \in Len(h) + 1 .. Len(o[1]) /\ k \in Nat
    BY <1>3, <1>5
  <2>2. o[1][k] = IF k = o[2] THEN 0 ELSE 1
    BY <2>1 DEF Outcome
  <2>3. c = 0
    <3>1. Fields(e, k) = {} /\ Symbols(s, k) = {} /\ Names(s, k) = {} /\ Rels(r, k) = {}
      BY <2>1, <1>5, NothingBeyond DEF Balanced
    <3> QED BY <3>1, FS_EmptySet DEF Pointers, c
  <2> QED BY <1>1, <1>2, <2>2, <2>3
<1> QED
  BY <1>3, <1>4, <1>5

\* A longer heap keeps pointers in range.
LEMMA TypedLater ==
    ASSUME NEW h, NEW e, NEW s, NEW r, Typed(h, e, s, r), NEW o, Outcome(h, o)
    PROVE  Typed(o[1], e, s, r) /\ o[2] \in 0 .. Len(o[1]) /\ Len(o[1]) \in Nat
<1>1. Len(h) \in Nat /\ Len(o[1]) \in Nat /\ Len(h) <= Len(o[1]) /\ o[1] \in Seq(Nat)
  BY DEF Typed, Outcome
<1>2. \A k \in Nat : k <= Len(h) => k <= Len(o[1])
  BY <1>1
<1>3. 0 .. Len(h) \subseteq 0 .. Len(o[1])
  BY <1>1
<1>4. \A t \in DOMAIN s : s[t].symbols \in Nat /\ s[t].names \in Nat
  <2>1. \A t \in DOMAIN s : s[t] \in SymbolTable
    BY DEF Typed
  <2> QED BY <2>1 DEF SymbolTable
<1>5. \A t \in DOMAIN r : r[t].relocations \in Nat
  <2>1. \A t \in DOMAIN r : r[t] \in RelTable
    BY DEF Typed
  <2> QED BY <2>1 DEF RelTable
<1>6. o[2] \in 0 .. Len(o[1])
  BY <1>1 DEF Outcome, NULL
<1> QED
  BY <1>1, <1>2, <1>3, <1>4, <1>5, <1>6 DEF Typed

\* A pointer stored in a field that was NULL.
LEMMA StoreBalances ==
    ASSUME NEW h, NEW e, NEW s, NEW r, Balanced(h, e, s, r), NEW o, Outcome(h, o),
           NEW f \in Field, e[f] = NULL
    PROVE  Balanced(o[1], [e EXCEPT ![f] = o[2]], s, r)
<1> DEFINE e2 == [e EXCEPT ![f] = o[2]]
<1>1. Typed(o[1], e, s, r) /\ o[2] \in 0 .. Len(o[1]) /\ Len(o[1]) \in Nat
  BY TypedLater DEF Balanced
<1>2. e \in [Field -> 0 .. Len(o[1])] /\ e2 \in [Field -> 0 .. Len(o[1])]
      /\ e2[f] = o[2] /\ \A g \in Field : g # f => e2[g] = e[g]
  BY <1>1 DEF Typed
<1>3. Typed(o[1], e2, s, r)
  BY <1>1, <1>2 DEF Typed
<1> HIDE DEF e2
<1>4. ASSUME NEW k \in 1 .. Len(o[1])
      PROVE  Cardinality(Fields(e2, k)) = Cardinality(Fields(e, k)) + (IF k = o[2] THEN 1 ELSE 0)
  <2>1. Fields(e2, k) \ {f} = Fields(e, k) \ {f}
    BY <1>2 DEF Fields
  <2>2. k # 0
    BY <1>1
  <2>3. f \notin Fields(e, k) /\ (f \in Fields(e2, k) <=> k = o[2])
    BY <1>2, <2>2 DEF Fields, NULL
  <2>4. IsFiniteSet(Fields(e, k)) /\ Cardinality(Fields(e, k)) \in Nat
    BY CountTypes DEF Balanced, Typed
  <2>5. Cardinality(Fields(e2, k)) = (Cardinality(Fields(e, k)) - (IF f \in Fields(e, k) THEN 1 ELSE 0))
                                        + (IF f \in Fields(e2, k) THEN 1 ELSE 0)
    BY <2>1, <2>4, CountChange
  <2> QED BY <2>3, <2>4, <2>5
<1>5. s \in Seq(SymbolTable) /\ r \in Seq(RelTable)
  BY DEF Balanced, Typed
<1>6. ASSUME NEW k \in 1 .. Len(o[1])
      PROVE  Pointers(e2, s, r, k) = Pointers(e, s, r, k) + (IF k = o[2] THEN 1 ELSE 0)
  <2> DEFINE a == Cardinality(Fields(e, k))
             a2 == Cardinality(Fields(e2, k))
             b == Cardinality(Symbols(s, k))
             c == Cardinality(Names(s, k))
             d == Cardinality(Rels(r, k))
  <2>1. a \in Nat /\ b \in Nat /\ c \in Nat /\ d \in Nat /\ a2 = a + (IF k = o[2] THEN 1 ELSE 0)
    BY <1>4, <1>5, CountTypes
  <2> HIDE DEF a, a2, b, c, d
  <2>2. (a2 + (b + c)) + d = ((a + (b + c)) + d) + (IF k = o[2] THEN 1 ELSE 0)
    BY <2>1
  <2> QED BY <2>2 DEF a, a2, b, c, d, Pointers
<1>7. \A k \in 1 .. Len(o[1]) : Account(o[1], e2, s, r, k) = 1
  BY <1>6, NewAccounts
<1> QED
  BY <1>3, <1>7 DEF Balanced, e2
\* A pointer stored in an element of symbol_tables, in the place of NULL.
LEMMA FillSymbolTable ==
    ASSUME NEW h, NEW e, NEW s, NEW r, Balanced(h, e, s, r), NEW o, Outcome(h, o),
           NEW t \in DOMAIN s, NEW new, new.section \in Nat,
           new = [section |-> new.section, symbols |-> new.symbols, names |-> new.names],
           \/ s[t].symbols = NULL /\ new.symbols = o[2] /\ new.names = s[t].names
           \/ s[t].names = NULL /\ new.symbols = s[t].symbols /\ new.names = o[2]
    PROVE  Balanced(o[1], e, [s EXCEPT ![t] = new], r)
<1> DEFINE s2 == [s EXCEPT ![t] = new]
<1>1. Typed(o[1], e, s, r) /\ o[2] \in 0 .. Len(o[1]) /\ Len(o[1]) \in Nat
  BY TypedLater DEF Balanced
<1>2. s \in Seq(SymbolTable) /\ r \in Seq(RelTable) /\ s[t] \in SymbolTable
  BY <1>1 DEF Typed
<1>3. /\ s[t].symbols \in Nat /\ s[t].names \in Nat
      /\ s[t].symbols <= Len(o[1]) /\ s[t].names <= Len(o[1])
  BY <1>1, <1>2 DEF Typed, SymbolTable
<1>4. /\ new \in SymbolTable /\ new.symbols <= Len(o[1]) /\ new.names <= Len(o[1])
      /\ new.symbols \in Nat /\ new.names \in Nat
  <2>1. new.symbols \in Nat /\ new.names \in Nat /\ new.symbols <= Len(o[1]) /\ new.names <= Len(o[1])
    BY <1>1, <1>3
  <2> QED BY <2>1 DEF SymbolTable
<1>5. /\ s2 \in Seq(SymbolTable) /\ DOMAIN s2 = DOMAIN s
      /\ s2[t] = new /\ \A u \in DOMAIN s : u # t => s2[u] = s[u]
  <2>1. DOMAIN s = 1 .. Len(s) /\ Len(s) \in Nat /\ \A u \in 1 .. Len(s) : s[u] \in SymbolTable
    BY <1>2
  <2> QED BY <1>2, <1>4, <2>1
<1> HIDE DEF s2
<1>6. Typed(o[1], e, s2, r)
  <2>1. \A u \in DOMAIN s2 : s2[u].symbols <= Len(o[1]) /\ s2[u].names <= Len(o[1])
    BY <1>1, <1>4, <1>5 DEF Typed
  <2> QED BY <1>1, <1>5, <2>1 DEF Typed
<1>7. ASSUME NEW k \in 1 .. Len(o[1])
      PROVE  Pointers(e, s2, r, k) = Pointers(e, s, r, k) + (IF k = o[2] THEN 1 ELSE 0)
  <2> DEFINE a == Cardinality(Fields(e, k))
             b == Cardinality(Symbols(s, k))
             b2 == Cardinality(Symbols(s2, k))
             c == Cardinality(Names(s, k))
             c2 == Cardinality(Names(s2, k))
             d == Cardinality(Rels(r, k))
             x == IF t \in Symbols(s, k) THEN 1 ELSE 0
             x2 == IF t \in Symbols(s2, k) THEN 1 ELSE 0
             y == IF t \in Names(s, k) THEN 1 ELSE 0
             y2 == IF t \in Names(s2, k) THEN 1 ELSE 0
             z == IF k = o[2] THEN 1 ELSE 0
  <2>1. a \in Nat /\ b \in Nat /\ c \in Nat /\ d \in Nat
        /\ IsFiniteSet(Symbols(s, k)) /\ IsFiniteSet(Names(s, k))
    BY <1>2, CountTypes
  <2>2. Symbols(s2, k) \ {t} = Symbols(s, k) \ {t} /\ Names(s2, k) \ {t} = Names(s, k) \ {t}
    BY <1>5 DEF Symbols, Names
  <2>3. b2 = (b - x) + x2 /\ c2 = (c - y) + y2
    BY <2>1, <2>2, CountChange
  <2>4. k # 0
    BY <1>1
  <2>5. /\ t \in Symbols(s, k) <=> s[t].symbols = k
        /\ t \in Symbols(s2, k) <=> new.symbols = k
        /\ t \in Names(s, k) <=> s[t].names = k
        /\ t \in Names(s2, k) <=> new.names = k
    BY <1>5 DEF Symbols, Names
  <2>6. \/ x = 0 /\ x2 = z /\ y2 = y
        \/ y = 0 /\ y2 = z /\ x2 = x
    BY <2>4, <2>5 DEF NULL
  <2>7. x \in 0 .. 1 /\ y \in 0 .. 1 /\ z \in 0 .. 1
    OBVIOUS
  <2> HIDE DEF a, b, b2, c, c2, d, x, x2, y, y2, z
  <2>8. (a + (b2 + c2)) + d = ((a + (b + c)) + d) + z
    BY <2>1, <2>3, <2>6, <2>7
  <2> QED BY <2>8 DEF a, b, b2, c, c2, d, z, Pointers
<1>8. \A k \in 1 .. Len(o[1]) : Account(o[1], e, s2, r, k) = 1
  BY <1>7, NewAccounts
<1> QED
  BY <1>6, <1>8 DEF Balanced, s2

\* A pointer stored in an element of rel_tables, in the place of NULL.
LEMMA FillRelTable ==
    ASSUME NEW h, NEW e, NEW s, NEW r, Balanced(h, e, s, r), NEW o, Outcome(h, o),
           NEW t \in DOMAIN r, r[t].relocations = NULL,
           NEW new, new.relocations = o[2],
           o[2] \in Nat => new \in RelTable
    PROVE  Balanced(o[1], e, s, [r EXCEPT ![t] = new])
<1> DEFINE r2 == [r EXCEPT ![t] = new]
<1>1. Typed(o[1], e, s, r) /\ o[2] \in 0 .. Len(o[1]) /\ Len(o[1]) \in Nat
  BY TypedLater DEF Balanced
<1>2. s \in Seq(SymbolTable) /\ r \in Seq(RelTable)
  BY <1>1 DEF Typed
<1>3. new \in RelTable /\ new.relocations <= Len(o[1])
  BY <1>1
<1>4. /\ r2 \in Seq(RelTable) /\ DOMAIN r2 = DOMAIN r
      /\ r2[t] = new /\ \A u \in DOMAIN r : u # t => r2[u] = r[u]
  <2>1. DOMAIN r = 1 .. Len(r) /\ Len(r) \in Nat /\ \A u \in 1 .. Len(r) : r[u] \in RelTable
    BY <1>2
  <2> QED BY <1>2, <1>3, <2>1
<1> HIDE DEF r2
<1>5. Typed(o[1], e, s, r2)
  <2>1. \A u \in DOMAIN r2 : r2[u].relocations <= Len(o[1])
    BY <1>1, <1>3, <1>4 DEF Typed
  <2> QED BY <1>1, <1>4, <2>1 DEF Typed
<1>6. ASSUME NEW k \in 1 .. Len(o[1])
      PROVE  Pointers(e, s, r2, k) = Pointers(e, s, r, k) + (IF k = o[2] THEN 1 ELSE 0)
  <2> DEFINE a == Cardinality(Fields(e, k))
             b == Cardinality(Symbols(s, k))
             c == Cardinality(Names(s, k))
             d == Cardinality(Rels(r, k))
             d2 == Cardinality(Rels(r2, k))
             x == IF t \in Rels(r, k) THEN 1 ELSE 0
             x2 == IF t \in Rels(r2, k) THEN 1 ELSE 0
             z == IF k = o[2] THEN 1 ELSE 0
  <2>1. a \in Nat /\ b \in Nat /\ c \in Nat /\ d \in Nat /\ IsFiniteSet(Rels(r, k))
    BY <1>2, CountTypes
  <2>2. Rels(r2, k) \ {t} = Rels(r, k) \ {t}
    BY <1>4 DEF Rels
  <2>3. d2 = (d - x) + x2
    BY <2>1, <2>2, CountChange
  <2>4. k # 0
    BY <1>1
  <2>5. x = 0 /\ x2 = z
    <3>1. t \notin Rels(r, k) /\ (t \in Rels(r2, k) <=> k = o[2])
      BY <1>4, <2>4 DEF Rels, NULL
    <3> QED BY <3>1
  <2>6. z \in 0 .. 1
    OBVIOUS
  <2> HIDE DEF a, b, c, d, d2, x, x2, z
  <2>7. (a + (b + c)) + d2 = ((a + (b + c)) + d) + z
    BY <2>1, <2>3, <2>5, <2>6
  <2> QED BY <2>7 DEF a, b, c, d, d2, z, Pointers
<1>7. \A k \in 1 .. Len(o[1]) : Account(o[1], e, s, r2, k) = 1
  BY <1>6, NewAccounts
<1> QED
  BY <1>5, <1>7 DEF Balanced, r2
-----------------------------------------------------------------------------
(***************************************************************************)
(* Allocating and freeing.                                                 *)
(***************************************************************************)

\* elf_free counts for each buffer.
LEMMA ElfFreeIs ==
    ASSUME NEW h \in Seq(Nat), NEW n, \A k \in 1 .. Len(h) : n[k] \in Nat
    PROVE  /\ ElfFree(h, n) \in Seq(Nat) /\ Len(ElfFree(h, n)) = Len(h)
           /\ \A k \in 1 .. Len(h) : ElfFree(h, n)[k] = h[k] + n[k]
<1>1. DOMAIN h = 1 .. Len(h) /\ Len(h) \in Nat /\ \A k \in 1 .. Len(h) : h[k] \in Nat
  OBVIOUS
<1>2. ElfFree(h, n) = [k \in 1 .. Len(h) |-> h[k] + n[k]]
  BY <1>1 DEF ElfFree
<1>3. \A k \in 1 .. Len(h) : h[k] + n[k] \in Nat
  BY <1>1
<1> QED
  BY <1>1, <1>2, <1>3

\* A pointer that is NULL frees nothing.
LEMMA OnlyIs ==
    ASSUME NEW h \in Seq(Nat), NEW p
    PROVE  \A k \in 1 .. Len(h) : Only(h, p)[k] = IF k = p THEN 1 ELSE 0
<1>1. DOMAIN h = 1 .. Len(h)
  OBVIOUS
<1> QED
  BY <1>1 DEF Only

\* The heap with one buffer more.
LEMMA AppendIs ==
    ASSUME NEW h \in Seq(Nat), NEW x \in Nat
    PROVE  /\ Append(h, x) \in Seq(Nat) /\ Len(Append(h, x)) = Len(h) + 1
           /\ Append(h, x)[Len(h) + 1] = x /\ Len(h) \in Nat
           /\ \A k \in 1 .. Len(h) : Append(h, x)[k] = h[k]
  OBVIOUS

\* elf_alloc and elf_read2 leave no buffer but the one they return.
LEMMA ReadOutcome ==
    ASSUME NEW h \in Seq(Nat), NEW o \in ElfRead2(h)
    PROVE  Outcome(h, o)
<1>1. Len(h) \in Nat
  OBVIOUS
<1>2. CASE o = <<h, NULL>>
  <2>1. o[1] = h /\ o[2] = NULL
    BY <1>2
  <2>2. Len(h) + 1 .. Len(h) = {}
    BY <1>1
  <2> QED BY <1>1, <2>1, <2>2 DEF Outcome
<1>3. CASE o = <<Append(h, 0), Len(h) + 1>>
  <2>1. o[1] = Append(h, 0) /\ o[2] = Len(h) + 1
    BY <1>3
  <2>2. Len(o[1]) = Len(h) + 1 /\ Len(h) + 1 .. Len(h) + 1 = {Len(h) + 1}
    BY <1>1, <2>1, AppendIs
  <2> QED BY <1>1, <2>1, <2>2, AppendIs DEF Outcome
<1>4. CASE o = <<Append(h, 1), NULL>>
  <2>1. o[1] = Append(h, 1) /\ o[2] = 0
    BY <1>4 DEF NULL
  <2>2. Len(o[1]) = Len(h) + 1 /\ Len(h) + 1 .. Len(h) + 1 = {Len(h) + 1}
    BY <1>1, <2>1, AppendIs
  <2>3. Len(h) + 1 # 0
    BY <1>1
  <2> QED BY <1>1, <2>1, <2>2, <2>3, AppendIs DEF Outcome, NULL
<1> QED
  BY <1>2, <1>3, <1>4 DEF ElfRead2, ElfAlloc

\* elf_alloc alone does what elf_read2 may do.
LEMMA AllocOutcome ==
    ASSUME NEW h \in Seq(Nat), NEW o \in ElfAlloc(h)
    PROVE  Outcome(h, o)
  BY ReadOutcome DEF ElfRead2

\* So does convert_rel_to_rela, which frees the table it has read.
LEMMA ConvertOutcome ==
    ASSUME NEW h \in Seq(Nat), NEW o \in ConvertRelToRela(h)
    PROVE  Outcome(h, o)
<1>1. PICK r \in ElfRead2(h) :
         o \in IF r[2] = NULL THEN {r}
               ELSE {<<ElfFree(a[1], Only(a[1], r[2])), a[2]>> : a \in ElfAlloc(r[1])}
  BY DEF ConvertRelToRela
<1>2. Outcome(h, r)
  BY ReadOutcome
<1>3. CASE r[2] = NULL
  BY <1>1, <1>2, <1>3
<1>4. CASE r[2] # NULL
  <2>1. PICK a \in ElfAlloc(r[1]) : o = <<ElfFree(a[1], Only(a[1], r[2])), a[2]>>
    BY <1>1, <1>4
  <2>2. r[1] \in Seq(Nat) /\ Outcome(r[1], a)
    BY <1>2, AllocOutcome DEF Outcome
  <2> DEFINE g == a[1]
             p == r[2]
             l == Len(h)
             m == Len(r[1])
             n == Len(g)
  <2>3. /\ l \in Nat /\ m \in Nat /\ n \in Nat /\ l <= m /\ m <= n
        /\ g \in Seq(Nat) /\ p \in l + 1 .. m /\ a[2] \in {0} \cup (m + 1 .. n)
    <3>1. l \in Nat /\ m \in Nat /\ l <= m /\ p \in l + 1 .. m
      <4>1. l \in Nat /\ m \in Nat
        BY <2>2
      <4>2. l <= m /\ p \in {NULL} \cup (l + 1 .. m)
        BY <1>2 DEF Outcome
      <4> QED BY <1>4, <4>1, <4>2
    <3>2. n \in Nat /\ m <= n /\ g \in Seq(Nat) /\ a[2] \in {0} \cup (m + 1 .. n)
      BY <2>2 DEF Outcome, NULL
    <3> QED BY <3>1, <3>2
  <2>4. /\ \A k \in 1 .. l : g[k] = h[k]
        /\ \A k \in l + 1 .. m : g[k] = IF k = p THEN 0 ELSE 1
        /\ \A k \in m + 1 .. n : g[k] = IF k = a[2] THEN 0 ELSE 1
    <3>1. \A k \in 1 .. m : g[k] = r[1][k]
      BY <2>2 DEF Outcome
    <3>2. \A k \in 1 .. l : r[1][k] = h[k]
      BY <1>2 DEF Outcome
    <3>3. \A k \in l + 1 .. m : r[1][k] = IF k = p THEN 0 ELSE 1
      BY <1>2 DEF Outcome
    <3>4. \A k \in m + 1 .. n : g[k] = IF k = a[2] THEN 0 ELSE 1
      BY <2>2 DEF Outcome
    <3> HIDE DEF g, p, l, m, n
    <3>5. \A k : (k \in 1 .. l => k \in 1 .. m) /\ (k \in l + 1 .. m => k \in 1 .. m)
      BY <2>3
    <3> QED BY <3>1, <3>2, <3>3, <3>4, <3>5
  <2>5. /\ o[1] \in Seq(Nat) /\ Len(o[1]) = n /\ o[2] = a[2]
        /\ \A k \in 1 .. n : o[1][k] = g[k] + (IF k = p THEN 1 ELSE 0)
    <3>1. o[1] = ElfFree(g, Only(g, p)) /\ o[2] = a[2]
      BY <2>1
    <3>2. \A k \in 1 .. n : Only(g, p)[k] = IF k = p THEN 1 ELSE 0
      BY <2>3, OnlyIs
    <3>3. \A k \in 1 .. n : Only(g, p)[k] \in Nat
      BY <3>2
    <3> HIDE DEF g, p
    <3> QED BY <2>3, <3>1, <3>2, <3>3, ElfFreeIs
  <2> HIDE DEF g, p, l, m, n
  <2>6. ASSUME NEW k \in 1 .. l PROVE o[1][k] = h[k]
    <3>1. k \in 1 .. n /\ k # p /\ h[k] \in Nat
      <4>1. \A j \in 1 .. Len(h) : h[j] \in Nat
        OBVIOUS
      <4> QED BY <2>3, <4>1 DEF l
    <3> QED BY <2>4, <2>5, <3>1
  <2>7. ASSUME NEW k \in l + 1 .. n PROVE o[1][k] = IF k = a[2] THEN 0 ELSE 1
    <3>1. k \in 1 .. n /\ (k \in l + 1 .. m \/ k \in m + 1 .. n)
      BY <2>3
    <3>2. k \in l + 1 .. m => k # a[2]
      BY <2>3
    <3>3. k \in m + 1 .. n => k # p
      BY <2>3
    <3> QED BY <2>4, <2>5, <3>1, <3>2, <3>3
  <2>8. a[2] \in {0} \cup (l + 1 .. n) /\ l <= n
    BY <2>3
  <2> QED BY <2>5, <2>6, <2>7, <2>8 DEF Outcome, NULL, l
<1> QED
  BY <1>3, <1>4
\* Nothing points from an empty array.
LEMMA EmptyArrays ==
    ASSUME NEW k
    PROVE  /\ Symbols(<< >>, k) = {} /\ Names(<< >>, k) = {} /\ Rels(<< >>, k) = {}
           /\ Cardinality({}) = 0
<1>1. DOMAIN << >> = {}
  OBVIOUS
<1> QED
  BY <1>1, FS_EmptySet DEF Symbols, Names, Rels

\* A field set to NULL holds one pointer less.
LEMMA FieldCleared ==
    ASSUME NEW n \in Nat, NEW e \in [Field -> 0 .. n], NEW f \in Field, NEW k \in 1 .. n
    PROVE  Cardinality(Fields([e EXCEPT ![f] = NULL], k)) + (IF k = e[f] THEN 1 ELSE 0)
              = Cardinality(Fields(e, k))
<1> DEFINE e2 == [e EXCEPT ![f] = NULL]
           A == Fields(e, k)
           B == Fields(e2, k)
<1>1. e2[f] = 0 /\ \A g \in Field : g # f => e2[g] = e[g]
  BY DEF NULL
<1> HIDE DEF e2
<1>2. B \ {f} = A \ {f} /\ f \notin B /\ (f \in A <=> k = e[f])
  <2>1. k # 0
    OBVIOUS
  <2> QED BY <1>1, <2>1 DEF Fields
<1>3. IsFiniteSet(A) /\ Cardinality(A) \in Nat
  <2>1. << >> \in Seq(SymbolTable) /\ << >> \in Seq(RelTable)
    OBVIOUS
  <2> QED BY <2>1, CountTypes
<1> HIDE DEF A, B
<1>4. Cardinality(B) = (Cardinality(A) - (IF f \in A THEN 1 ELSE 0)) + (IF f \in B THEN 1 ELSE 0)
  BY <1>2, <1>3, CountChange
<1>5. Cardinality(B) + (IF k = e[f] THEN 1 ELSE 0) = Cardinality(A)
  BY <1>2, <1>3, <1>4
<1> QED
  BY <1>5 DEF A, B, e2

\* The error path of read_symbol_tables frees what it takes the pointers to.
LEMMA DropSymbolsBalances ==
    ASSUME NEW h, NEW e, NEW s, NEW r, Balanced(h, e, s, r), NEW f \in Field
    PROVE  Balanced(ElfFree(ElfFree(h, [k \in DOMAIN h |-> SymbolRefs(s, k)]), Only(h, e[f])),
                    [e EXCEPT ![f] = NULL], << >>, r)
<1> DEFINE h1 == ElfFree(h, [k \in DOMAIN h |-> SymbolRefs(s, k)])
           h2 == ElfFree(h1, Only(h, e[f]))
           e2 == [e EXCEPT ![f] = NULL]
<1>1. /\ h \in Seq(Nat) /\ e \in [Field -> 0 .. Len(h)] /\ s \in Seq(SymbolTable)
      /\ r \in Seq(RelTable) /\ Len(h) \in Nat /\ DOMAIN h = 1 .. Len(h)
      /\ \A k \in 1 .. Len(h) : h[k] \in Nat
  BY DEF Balanced, Typed
<1>2. \A k : SymbolRefs(s, k) = Cardinality(Symbols(s, k)) + Cardinality(Names(s, k))
             /\ SymbolRefs(s, k) \in Nat
  <2> SUFFICES ASSUME NEW k
               PROVE  SymbolRefs(s, k) = Cardinality(Symbols(s, k)) + Cardinality(Names(s, k))
                      /\ SymbolRefs(s, k) \in Nat
    OBVIOUS
  <2>1. Cardinality(Symbols(s, k)) \in Nat /\ Cardinality(Names(s, k)) \in Nat
    BY <1>1, CountTypes
  <2>2. SymbolRefs(s, k) = Cardinality(Symbols(s, k)) + Cardinality(Names(s, k))
    BY DEF SymbolRefs, Symbols, Names
  <2> QED BY <2>1, <2>2
<1>3. /\ h1 \in Seq(Nat) /\ Len(h1) = Len(h)
      /\ \A k \in 1 .. Len(h) : h1[k] = h[k] + SymbolRefs(s, k)
  <2> DEFINE n == [k \in DOMAIN h |-> SymbolRefs(s, k)]
  <2>1. \A k \in 1 .. Len(h) : n[k] = SymbolRefs(s, k) /\ n[k] \in Nat
    BY <1>1, <1>2
  <2> HIDE DEF n
  <2>2. \A k \in 1 .. Len(h) : ElfFree(h, n)[k] = h[k] + n[k]
    BY <1>1, <2>1, ElfFreeIs
  <2>3. ElfFree(h, n) \in Seq(Nat) /\ Len(ElfFree(h, n)) = Len(h)
    BY <1>1, <2>1, ElfFreeIs
  <2> QED BY <2>1, <2>2, <2>3 DEF n
<1>4. /\ h2 \in Seq(Nat) /\ Len(h2) = Len(h)
      /\ \A k \in 1 .. Len(h) : h2[k] = h1[k] + (IF k = e[f] THEN 1 ELSE 0)
  <2> DEFINE n == Only(h, e[f])
  <2>1. \A k \in 1 .. Len(h) : n[k] = (IF k = e[f] THEN 1 ELSE 0) /\ n[k] \in Nat
    BY <1>1, OnlyIs
  <2> HIDE DEF n, h1
  <2>2. \A k \in 1 .. Len(h1) : ElfFree(h1, n)[k] = h1[k] + n[k]
    BY <1>3, <2>1, ElfFreeIs
  <2>3. ElfFree(h1, n) \in Seq(Nat) /\ Len(ElfFree(h1, n)) = Len(h1)
    BY <1>3, <2>1, ElfFreeIs
  <2> QED BY <1>3, <2>1, <2>2, <2>3 DEF n
<1> HIDE DEF h1, h2
<1>5. Typed(h2, e2, << >>, r)
  <2>1. e2 \in [Field -> 0 .. Len(h)]
    BY <1>1 DEF NULL
  <2>2. << >> \in Seq(SymbolTable) /\ DOMAIN << >> = {}
    OBVIOUS
  <2> QED BY <1>1, <1>4, <2>1, <2>2 DEF Typed, Balanced
<1>6. ASSUME NEW k \in 1 .. Len(h) PROVE Account(h2, e2, << >>, r, k) = 1
  <2> DEFINE a == Cardinality(Fields(e, k))
             a2 == Cardinality(Fields(e2, k))
             b == Cardinality(Symbols(s, k))
             c == Cardinality(Names(s, k))
             d == Cardinality(Rels(r, k))
             x == IF k = e[f] THEN 1 ELSE 0
             y == h[k]
             z == h2[k]
  <2>1. a \in Nat /\ b \in Nat /\ c \in Nat /\ d \in Nat /\ x \in 0 .. 1 /\ y \in Nat
    <3>1. a \in Nat /\ b \in Nat /\ c \in Nat /\ d \in Nat
      BY <1>1, CountTypes
    <3>2. x \in 0 .. 1 /\ y \in Nat
      BY <1>1
    <3> QED BY <3>1, <3>2
  <2>2. a2 \in Nat /\ a2 + x = a
    <3>1. e2 \in [Field -> 0 .. Len(h)]
      BY <1>1 DEF NULL
    <3>2. << >> \in Seq(SymbolTable)
      OBVIOUS
    <3> HIDE DEF e2
    <3>3. a2 \in Nat
      BY <1>1, <3>2, CountTypes
    <3>4. a2 + x = a
      BY <1>1, FieldCleared DEF e2
    <3> QED BY <3>3, <3>4
  <2>3. z = (y + (b + c)) + x
    BY <1>2, <1>3, <1>4
  <2>4. y + ((a + (b + c)) + d) = 1
    BY DEF Balanced, Account, Pointers
  <2>5. Account(h2, e2, << >>, r, k) = z + ((a2 + (0 + 0)) + d)
    BY EmptyArrays DEF Account, Pointers
  <2> HIDE DEF a, a2, b, c, d, x, y, z
  <2> QED BY <2>1, <2>2, <2>3, <2>4, <2>5
<1>7. Balanced(h2, e2, << >>, r)
  BY <1>4, <1>5, <1>6 DEF Balanced
<1> QED
  BY <1>7 DEF h1, h2

\* So does that of read_relocations.
LEMMA DropRelsBalances ==
    ASSUME NEW h, NEW e, NEW s, NEW r, Balanced(h, e, s, r), NEW f \in Field
    PROVE  Balanced(ElfFree(ElfFree(h, [k \in DOMAIN h |-> RelRefs(r, k)]), Only(h, e[f])),
                    [e EXCEPT ![f] = NULL], s, << >>)
<1> DEFINE h1 == ElfFree(h, [k \in DOMAIN h |-> RelRefs(r, k)])
           h2 == ElfFree(h1, Only(h, e[f]))
           e2 == [e EXCEPT ![f] = NULL]
<1>1. /\ h \in Seq(Nat) /\ e \in [Field -> 0 .. Len(h)] /\ s \in Seq(SymbolTable)
      /\ r \in Seq(RelTable) /\ Len(h) \in Nat /\ DOMAIN h = 1 .. Len(h)
      /\ \A k \in 1 .. Len(h) : h[k] \in Nat
  BY DEF Balanced, Typed
<1>2. \A k : RelRefs(r, k) = Cardinality(Rels(r, k)) /\ RelRefs(r, k) \in Nat
  BY <1>1, CountTypes DEF RelRefs, Rels
<1>3. /\ h1 \in Seq(Nat) /\ Len(h1) = Len(h)
      /\ \A k \in 1 .. Len(h) : h1[k] = h[k] + RelRefs(r, k)
  <2> DEFINE n == [k \in DOMAIN h |-> RelRefs(r, k)]
  <2>1. \A k \in 1 .. Len(h) : n[k] = RelRefs(r, k) /\ n[k] \in Nat
    BY <1>1, <1>2
  <2> HIDE DEF n
  <2>2. \A k \in 1 .. Len(h) : ElfFree(h, n)[k] = h[k] + n[k]
    BY <1>1, <2>1, ElfFreeIs
  <2>3. ElfFree(h, n) \in Seq(Nat) /\ Len(ElfFree(h, n)) = Len(h)
    BY <1>1, <2>1, ElfFreeIs
  <2> QED BY <2>1, <2>2, <2>3 DEF n
<1>4. /\ h2 \in Seq(Nat) /\ Len(h2) = Len(h)
      /\ \A k \in 1 .. Len(h) : h2[k] = h1[k] + (IF k = e[f] THEN 1 ELSE 0)
  <2> DEFINE n == Only(h, e[f])
  <2>1. \A k \in 1 .. Len(h) : n[k] = (IF k = e[f] THEN 1 ELSE 0) /\ n[k] \in Nat
    BY <1>1, OnlyIs
  <2> HIDE DEF n, h1
  <2>2. \A k \in 1 .. Len(h1) : ElfFree(h1, n)[k] = h1[k] + n[k]
    BY <1>3, <2>1, ElfFreeIs
  <2>3. ElfFree(h1, n) \in Seq(Nat) /\ Len(ElfFree(h1, n)) = Len(h1)
    BY <1>3, <2>1, ElfFreeIs
  <2> QED BY <1>3, <2>1, <2>2, <2>3 DEF n
<1> HIDE DEF h1, h2
<1>5. Typed(h2, e2, s, << >>)
  <2>1. e2 \in [Field -> 0 .. Len(h)]
    BY <1>1 DEF NULL
  <2>2. << >> \in Seq(RelTable) /\ DOMAIN << >> = {}
    OBVIOUS
  <2> QED BY <1>1, <1>4, <2>1, <2>2 DEF Typed, Balanced
<1>6. ASSUME NEW k \in 1 .. Len(h) PROVE Account(h2, e2, s, << >>, k) = 1
  <2> DEFINE a == Cardinality(Fields(e, k))
             a2 == Cardinality(Fields(e2, k))
             b == Cardinality(Symbols(s, k))
             c == Cardinality(Names(s, k))
             d == Cardinality(Rels(r, k))
             x == IF k = e[f] THEN 1 ELSE 0
             y == h[k]
             z == h2[k]
  <2>1. a \in Nat /\ b \in Nat /\ c \in Nat /\ d \in Nat /\ x \in 0 .. 1 /\ y \in Nat
    <3>1. a \in Nat /\ b \in Nat /\ c \in Nat /\ d \in Nat
      BY <1>1, CountTypes
    <3>2. x \in 0 .. 1 /\ y \in Nat
      BY <1>1
    <3> QED BY <3>1, <3>2
  <2>2. a2 \in Nat /\ a2 + x = a
    <3>1. << >> \in Seq(SymbolTable)
      OBVIOUS
    <3> HIDE DEF e2
    <3>2. a2 \in Nat
      BY <1>1, <3>1, CountTypes
    <3>3. a2 + x = a
      BY <1>1, FieldCleared DEF e2
    <3> QED BY <3>2, <3>3
  <2>3. z = (y + d) + x
    BY <1>2, <1>3, <1>4
  <2>4. y + ((a + (b + c)) + d) = 1
    BY DEF Balanced, Account, Pointers
  <2>5. Account(h2, e2, s, << >>, k) = z + ((a2 + (b + c)) + 0)
    BY EmptyArrays DEF Account, Pointers
  <2> HIDE DEF a, a2, b, c, d, x, y, z
  <2> QED BY <2>1, <2>2, <2>3, <2>4, <2>5
<1>7. Balanced(h2, e2, s, << >>)
  BY <1>4, <1>5, <1>6 DEF Balanced
<1> QED
  BY <1>7 DEF h1, h2
-----------------------------------------------------------------------------
(***************************************************************************)
(* Filling an array with the sections of some types.                       *)
(***************************************************************************)

\* The first m elements of a are for the sections of Q before n, in order.
UpTo(a, Q, n, m) ==
    /\ m = Cardinality(Q \cap (1 .. n - 1))
    /\ \A t \in 1 .. m : a[t].section \in Q /\ a[t].section < n
    /\ \A q \in Q : q < n => \E t \in 1 .. m : a[t].section = q
    /\ \A t, u \in 1 .. m : t < u => a[t].section < a[u].section

\* The number of sections of Q before n.
LEMMA Below ==
    ASSUME NEW L \in Nat, NEW Q \in SUBSET (1 .. L), NEW n \in Nat \ {0}
    PROVE  /\ IsFiniteSet(Q) /\ Cardinality(Q) \in Nat
           /\ Cardinality(Q \cap (1 .. n - 1)) \in 0 .. n - 1
           /\ Cardinality(Q \cap (1 .. n)) =
                 Cardinality(Q \cap (1 .. n - 1)) + (IF n \in Q THEN 1 ELSE 0)
           /\ Cardinality(Q \cap (1 .. n)) <= Cardinality(Q)
<1>1. IsFiniteSet(Q) /\ Cardinality(Q) \in Nat
  <2>1. 1 \in Int /\ L \in Int
    OBVIOUS
  <2>2. IsFiniteSet(1 .. L)
    BY <2>1, FS_Interval
  <2> QED BY <2>2, FS_Subset, FS_CardinalityType
<1> DEFINE A == Q \cap (1 .. n - 1)
           B == Q \cap (1 .. n)
<1>2. IsFiniteSet(A) /\ Cardinality(A) \in 0 .. n - 1
  <2>1. 1 \in Int /\ n - 1 \in Int
    OBVIOUS
  <2>2. IsFiniteSet(1 .. n - 1) /\ Cardinality(1 .. n - 1) = IF 1 > n - 1 THEN 0 ELSE (n - 1) - 1 + 1
    BY <2>1, FS_Interval
  <2>3. A \in SUBSET (1 .. n - 1)
    OBVIOUS
  <2>4. IsFiniteSet(A) /\ Cardinality(A) <= Cardinality(1 .. n - 1)
    BY <2>2, <2>3, FS_Subset
  <2>5. Cardinality(A) \in Nat
    BY <2>4, FS_CardinalityType
  <2>6. Cardinality(1 .. n - 1) = n - 1
    BY <2>2
  <2> HIDE DEF A
  <2> QED BY <2>4, <2>5, <2>6
<1>3. Cardinality(B) = Cardinality(A) + (IF n \in Q THEN 1 ELSE 0)
  <2>1. \A x \in Int : x \in 1 .. n <=> x \in 1 .. n - 1 \/ x = n
    OBVIOUS
  <2>2. n \notin A
    OBVIOUS
  <2>3. \A q \in Q : q \in Int
    OBVIOUS
  <2>4. CASE n \in Q
    <3>1. B = A \cup {n}
      BY <2>1, <2>3, <2>4
    <3> HIDE DEF A, B
    <3> QED BY <1>2, <2>2, <2>4, <3>1, FS_AddElement
  <2>5. CASE n \notin Q
    <3>1. B = A
      BY <2>1, <2>3, <2>5
    <3> HIDE DEF A, B
    <3> QED BY <1>2, <2>5, <3>1
  <2> QED BY <2>4, <2>5
<1>4. Cardinality(B) <= Cardinality(Q)
  <2>1. B \in SUBSET Q
    OBVIOUS
  <2> QED BY <1>1, <2>1, FS_Subset
<1> QED
  BY <1>1, <1>2, <1>3, <1>4

\* At the start the array is empty.
LEMMA UpToStart ==
    ASSUME NEW L \in Nat, NEW Q \in SUBSET (1 .. L), NEW a
    PROVE  UpTo(a, Q, 1, 0)
<1>1. Q \cap (1 .. 1 - 1) = {}
  OBVIOUS
<1>2. \A q \in Q : ~(q < 1)
  OBVIOUS
<1> QED
  BY <1>1, <1>2, FS_EmptySet DEF UpTo

\* There is room for the next section.
LEMMA UpToRoom ==
    ASSUME NEW L \in Nat, NEW Q \in SUBSET (1 .. L), NEW n \in Nat \ {0}, NEW a, NEW m,
           UpTo(a, Q, n, m)
    PROVE  /\ m \in Nat /\ m < n
           /\ n \in Q => m + 1 \in 1 .. Cardinality(Q)
<1>1. m \in 0 .. n - 1 /\ Cardinality(Q \cap (1 .. n)) = m + (IF n \in Q THEN 1 ELSE 0)
      /\ Cardinality(Q \cap (1 .. n)) <= Cardinality(Q) /\ Cardinality(Q) \in Nat
  BY Below DEF UpTo
<1> QED
  BY <1>1

\* The next section has its element.
LEMMA UpToFill ==
    ASSUME NEW L \in Nat, NEW Q \in SUBSET (1 .. L), NEW n \in Q, NEW a, NEW m,
           UpTo(a, Q, n, m), NEW b, b[m + 1].section = n,
           \A t \in 1 .. m : b[t] = a[t]
    PROVE  UpTo(b, Q, n + 1, m + 1)
<1>1. /\ n \in Nat \ {0} /\ m \in Nat /\ m = Cardinality(Q \cap (1 .. n - 1))
      /\ (n + 1) - 1 = n /\ Q \subseteq Int
  <2>1. n \in Nat \ {0} /\ (n + 1) - 1 = n /\ Q \subseteq Int
    <3>1. n \in 1 .. L /\ \A q \in Q : q \in 1 .. L
      OBVIOUS
    <3>2. \A q \in 1 .. L : q \in Int
      OBVIOUS
    <3>3. n \in Nat \ {0} /\ (n + 1) - 1 = n
      BY <3>1
    <3> QED BY <3>1, <3>2, <3>3
  <2>2. m \in Nat
    BY <2>1, UpToRoom
  <2>3. m = Cardinality(Q \cap (1 .. n - 1))
    BY DEF UpTo
  <2> QED BY <2>1, <2>2, <2>3
<1>2. m + 1 = Cardinality(Q \cap (1 .. (n + 1) - 1))
  <2>1. Cardinality(Q \cap (1 .. n)) =
           Cardinality(Q \cap (1 .. n - 1)) + (IF n \in Q THEN 1 ELSE 0)
    BY <1>1, Below
  <2>2. Cardinality(Q \cap (1 .. n)) = m + 1
    BY <1>1, <2>1
  <2>3. 1 .. (n + 1) - 1 = 1 .. n
    BY <1>1
  <2> QED BY <2>2, <2>3
<1>3. \A t : t \in 1 .. m + 1 => t \in 1 .. m \/ t = m + 1
  BY <1>1
<1>4. \A t \in 1 .. m : b[t].section \in Q /\ b[t].section < n
  BY DEF UpTo
<1>5. \A q \in Q : q < n + 1 => q < n \/ q = n
  BY <1>1
<1>6. \A q \in Q : q < n + 1 => \E t \in 1 .. m + 1 : b[t].section = q
  <2> SUFFICES ASSUME NEW q \in Q, q < n + 1 PROVE \E t \in 1 .. m + 1 : b[t].section = q
    OBVIOUS
  <2>1. CASE q = n
    <3>1. m + 1 \in 1 .. m + 1
      BY <1>1
    <3> QED BY <2>1, <3>1
  <2>2. CASE q < n
    <3>1. PICK t \in 1 .. m : a[t].section = q
      BY <2>2 DEF UpTo
    <3>2. t \in 1 .. m + 1
      BY <1>1
    <3> QED BY <3>1, <3>2
  <2> QED BY <1>5, <2>1, <2>2
<1>7. \A t \in 1 .. m + 1 : b[t].section \in Q /\ b[t].section < n + 1
  <2>1. \A q \in Q : q < n => q < n + 1
    BY <1>1
  <2>2. n < n + 1
    BY <1>1
  <2> QED BY <1>3, <1>4, <2>1, <2>2
<1>8. \A t, u \in 1 .. m + 1 : t < u => b[t].section < b[u].section
  <2> SUFFICES ASSUME NEW t \in 1 .. m + 1, NEW u \in 1 .. m + 1, t < u
               PROVE  b[t].section < b[u].section
    OBVIOUS
  <2>1. t \in 1 .. m
    BY <1>1
  <2>2. CASE u = m + 1
    BY <1>4, <2>1, <2>2
  <2>3. CASE u \in 1 .. m
    BY <2>1, <2>3 DEF UpTo
  <2> QED BY <1>3, <2>2, <2>3
<1> QED
  BY <1>2, <1>6, <1>7, <1>8 DEF UpTo

\* A section of another type has none.
LEMMA UpToSkip ==
    ASSUME NEW L \in Nat, NEW Q \in SUBSET (1 .. L), NEW n \in Nat \ {0}, n \notin Q,
           NEW a, NEW m, UpTo(a, Q, n, m)
    PROVE  UpTo(a, Q, n + 1, m)
<1>1. m = Cardinality(Q \cap (1 .. n)) /\ (n + 1) - 1 = n
  <2>1. m = Cardinality(Q \cap (1 .. n - 1))
    BY DEF UpTo
  <2>2. m \in Nat
    BY UpToRoom
  <2>3. Cardinality(Q \cap (1 .. n)) = m + (IF n \in Q THEN 1 ELSE 0)
    BY <2>1, Below
  <2>4. (n + 1) - 1 = n
    OBVIOUS
  <2> QED BY <2>2, <2>3, <2>4
<1>2. \A q \in Q : q \in Int /\ (q < n + 1 <=> q < n)
  OBVIOUS
<1>3. \A t \in 1 .. m : a[t].section \in Q /\ a[t].section < n
  BY DEF UpTo
<1> QED
  BY <1>1, <1>2, <1>3 DEF UpTo

\* After the last section the array is full.
LEMMA UpToEnd ==
    ASSUME NEW L \in Nat, NEW Q \in SUBSET (1 .. L), NEW a, NEW m, UpTo(a, Q, L + 1, m)
    PROVE  m = Cardinality(Q)
<1>1. (L + 1) - 1 = L
  OBVIOUS
<1>2. 1 .. (L + 1) - 1 = 1 .. L
  BY <1>1
<1>3. Q \cap (1 .. L) = Q
  OBVIOUS
<1>4. m = Cardinality(Q \cap (1 .. (L + 1) - 1))
  BY DEF UpTo
<1> QED
  BY <1>2, <1>3, <1>4
-----------------------------------------------------------------------------
(***************************************************************************)
(* The invariant.                                                          *)
(***************************************************************************)

BeforeSymbols == {"header", "program_headers", "sections", "section_names",
                  "interpreter", "symbol_tables"}
AfterSymbols == {"dynamic", "rel_tables", "relocations", "done"}
Reading == BeforeSymbols \cup {"symbols"} \cup AfterSymbols

\* The cursors.
Cursors ==
    /\ file \in Files
    /\ pc \in Reading \cup {"error", "failed", "closed"}
    /\ symbol_table \in 0 .. Len(symbols)
    /\ i \in 1 .. Len(file.sections) + 1 /\ table \in 0 .. Len(file.sections)

\* The fields that are read later are still NULL.
Pending ==
    /\ pc \in {"header"} => elf_file["header"] = NULL
    /\ pc \in {"header", "program_headers"} => elf_file["program_headers"] = NULL
    /\ pc \in {"header", "program_headers", "sections"} => elf_file["sections"] = NULL
    /\ pc \in BeforeSymbols \ {"interpreter", "symbol_tables"} =>
          elf_file["section_names"] = NULL
    /\ pc \in BeforeSymbols \ {"symbol_tables"} => elf_file["interpreter"] = NULL
    /\ pc \in BeforeSymbols => elf_file["symbol_tables"] = NULL
    /\ pc \in BeforeSymbols \cup {"symbols", "dynamic"} => elf_file["dynamic"] = NULL
    /\ pc \in BeforeSymbols \cup {"symbols", "dynamic", "rel_tables"} =>
          elf_file["rel_tables"] = NULL

\* The dynamic table of a stripped file is freed once more than it should be.
Dangling(k) ==
    /\ Stripped
    /\ \/ pc = "error" /\ k = elf_file["dynamic"]
       \/ pc = "failed" /\ heap[k] = 2

\* Each buffer is accounted for once, with the exception of that table.
Accounts ==
    /\ Typed(heap, elf_file, symbols, rels)
    /\ pc \notin {"error", "failed", "closed"} => Balanced(heap, elf_file, symbols, rels)
    /\ pc = "error" =>
          \A k \in 1 .. Len(heap) :
             Account(heap, elf_file, symbols, rels, k) = IF Dangling(k) THEN 2 ELSE 1
    /\ pc = "failed" =>
          /\ \A k \in 1 .. Len(heap) : heap[k] = 1 \/ Dangling(k)
          /\ elf_file = NullFile /\ symbols = << >> /\ rels = << >>
    /\ pc = "closed" => \A k \in 1 .. Len(heap) : heap[k] = 1

\* symbol_tables is filled section by section.
SymbolsFilled(m) == \A t \in 1 .. m : symbols[t].symbols # NULL /\ symbols[t].names # NULL

SymbolsRead ==
    /\ pc \in BeforeSymbols => symbols = << >>
    /\ pc \in BeforeSymbols \cup {"symbols", "dynamic"} => symbol_table = 0
    /\ pc = "symbols" =>
          /\ Len(symbols) = Cardinality(SymbolSections)
          /\ UpTo(symbols, SymbolSections, i, table)
          /\ SymbolsFilled(table)
          /\ \A t \in table + 1 .. Len(symbols) : symbols[t] = NoSymbolTable
    /\ pc \in AfterSymbols =>
          /\ UpTo(symbols, SymbolSections, Len(file.sections) + 1, Len(symbols))
          /\ SymbolsFilled(Len(symbols))
    /\ pc \in AfterSymbols \ {"dynamic"} /\ HasPhdr("PT_DYNAMIC") =>
          symbol_table # 0 /\ IsDynsym(symbol_table)

\* So is rel_tables.
RelsFilled(m) == \A t \in 1 .. m : rels[t].relocations # NULL

RelsRead ==
    /\ pc \in BeforeSymbols \cup {"symbols", "dynamic", "rel_tables"} => rels = << >>
    /\ pc = "relocations" =>
          /\ Len(rels) = Cardinality(RelSections)
          /\ UpTo(rels, RelSections, i, table)
          /\ RelsFilled(table)
          /\ \A t \in table + 1 .. Len(rels) : rels[t] = NoRelTable
    /\ pc = "done" =>
          /\ UpTo(rels, RelSections, Len(file.sections) + 1, Len(rels))
          /\ RelsFilled(Len(rels))

IInv == Cursors /\ Pending /\ Accounts /\ SymbolsRead /\ RelsRead

\* The sections that the loops look for are sections of the file.
LEMMA SectionsAre ==
    ASSUME file \in Files
    PROVE  /\ Len(file.sections) \in Nat
           /\ SymbolSections \in SUBSET (1 .. Len(file.sections))
           /\ RelSections \in SUBSET (1 .. Len(file.sections))
           /\ \A s \in 1 .. Len(file.sections) :
                 /\ file.sections[s].sh_type \in SectionType
                 /\ file.sections[s].sh_size \in Nat
                 /\ file.sections[s].sh_entsize \in Nat \ {0}
<1> DEFINE S == [sh_type : SectionType, sh_size : Nat, sh_entsize : Nat \ {0}]
<1>1. file.sections \in Seq(S)
  BY FilesAssumption DEF File
<1>2. Len(file.sections) \in Nat /\ \A s \in 1 .. Len(file.sections) : file.sections[s] \in S
  <2> HIDE DEF S
  <2> QED BY <1>1
<1>3. /\ SymbolSections \in SUBSET (1 .. Len(file.sections))
      /\ RelSections \in SUBSET (1 .. Len(file.sections))
  BY DEF SymbolSections, RelSections, SectionsOf
<1> QED
  BY <1>2, <1>3

\* The invariant implies the type invariant.
LEMMA TypesFollow ==
    ASSUME IInv
    PROVE  TypeOK
  BY DEF IInv, Cursors, Accounts, Typed, TypeOK, Reading, BeforeSymbols, AfterSymbols

\* While readelf runs no error path has been taken.
LEMMA ReadingBalanced ==
    ASSUME IInv, pc \in Reading
    PROVE  Balanced(heap, elf_file, symbols, rels) /\ Typed(heap, elf_file, symbols, rels)
           /\ heap \in Seq(Nat)
  BY DEF IInv, Accounts, Reading, BeforeSymbols, AfterSymbols, Typed

\* A table of a stripped file's relocations is never reached.
LEMMA NotStripped ==
    ASSUME IInv, pc \in AfterSymbols \ {"dynamic"}
    PROVE  ~Stripped
<1> SUFFICES ASSUME Stripped PROVE FALSE
  OBVIOUS
<1>1. symbol_table \in 1 .. Len(symbols) /\ IsDynsym(symbol_table)
  <2>1. symbol_table # 0 /\ IsDynsym(symbol_table)
    BY DEF IInv, SymbolsRead, Stripped
  <2>2. symbol_table \in 0 .. Len(symbols) /\ Len(symbols) \in Nat
    BY DEF IInv, Cursors, Accounts, Typed
  <2> QED BY <2>1, <2>2
<1>2. symbols[symbol_table].section \in SymbolSections
  BY <1>1 DEF IInv, SymbolsRead, UpTo
<1>3. symbols[symbol_table].section \in SectionsOf({"SHT_DYNSYM"})
  BY <1>1, <1>2 DEF IsDynsym, SectionsOf, SymbolSections
<1> QED
  BY <1>3 DEF Stripped

\* A step that keeps the balance, into a state that has no dangling table.
LEMMA StillBalanced ==
    ASSUME Balanced(heap', elf_file', symbols', rels'), pc' \in Reading \cup {"error"},
           pc' = "error" => \A k \in 1 .. Len(heap') : ~Dangling(k)'
    PROVE  Accounts'
<1>1. Typed(heap', elf_file', symbols', rels')
  BY DEF Balanced
<1>2. \A k \in 1 .. Len(heap') : Account(heap', elf_file', symbols', rels', k) = 1
  BY DEF Balanced
<1>3. pc' \notin {"failed", "closed"}
  BY DEF Reading, BeforeSymbols, AfterSymbols
<1> QED
  BY <1>1, <1>2, <1>3 DEF Accounts

\* Nothing dangles when the dynamic table has not been read or the file is not stripped.
LEMMA NoneDangles ==
    ASSUME elf_file'["dynamic"] = NULL \/ ~Stripped' , pc' = "error", NEW k \in 1 .. Len(heap'),
           Len(heap') \in Nat
    PROVE  ~Dangling(k)'
  BY DEF Dangling, NULL

\* A pointer stored in a field of struct elf_file keeps the accounts.
LEMMA StoreStep ==
    ASSUME IInv, pc \in Reading, NEW f \in Field, elf_file[f] = NULL,
           NEW o, Outcome(heap, o), NEW next \in Reading, Store(f, o, next),
           UNCHANGED <<file, symbols, rels>>,
           (elf_file["dynamic"] = NULL /\ f # "dynamic") \/ ~Stripped
    PROVE  Accounts' /\ pc' \in {next, "error"} /\ \A g \in Field \ {f} : elf_file'[g] = elf_file[g]
<1>1. Balanced(heap, elf_file, symbols, rels) /\ elf_file \in [Field -> 0 .. Len(heap)]
  BY ReadingBalanced DEF Typed
<1>2. heap' = o[1] /\ elf_file' = [elf_file EXCEPT ![f] = o[2]] /\ pc' \in {next, "error"}
  BY DEF Store
<1>3. Balanced(heap', elf_file', symbols', rels')
  BY <1>1, <1>2, StoreBalances
<1>4. \A g \in Field \ {f} : elf_file'[g] = elf_file[g]
  BY <1>1, <1>2
<1>5. elf_file'["dynamic"] = NULL \/ ~Stripped'
  <2>1. "dynamic" \in Field
    BY DEF Field
  <2>2. ~Stripped => ~Stripped'
    BY DEF Stripped, HasPhdr, SectionsOf
  <2> QED BY <1>4, <2>1, <2>2
<1>6. Len(heap') \in Nat
  BY <1>3 DEF Balanced, Typed
<1>7. pc' = "error" => \A k \in 1 .. Len(heap') : ~Dangling(k)'
  BY <1>5, <1>6, NoneDangles
<1> QED
  BY <1>2, <1>3, <1>4, <1>7, StillBalanced

\* Nothing stored keeps them as well.
LEMMA SkipStep ==
    ASSUME IInv, pc \in Reading, NEW next \in Reading \cup {"error"}, Skip(next),
           UNCHANGED <<file, symbols, rels>>, elf_file["dynamic"] = NULL \/ next # "error"
    PROVE  Accounts'
<1>1. Balanced(heap', elf_file', symbols', rels') /\ pc' = next
      /\ elf_file' = elf_file
  BY ReadingBalanced DEF Skip
<1>2. Len(heap') \in Nat
  BY <1>1 DEF Balanced, Typed
<1>3. pc' = "error" => \A k \in 1 .. Len(heap') : ~Dangling(k)'
  BY <1>1, <1>2, NoneDangles
<1> QED
  BY <1>1, <1>3, StillBalanced

\* What the steps before the tables are read leave alone.
LEMMA EarlyStep ==
    ASSUME IInv, pc \in BeforeSymbols, pc' \in BeforeSymbols \cup {"error"},
           UNCHANGED <<file, tables>>
    PROVE  Cursors' /\ SymbolsRead' /\ RelsRead'
<1>1. Cursors'
  BY DEF IInv, Cursors, tables, Reading
<1>2. SymbolsRead' /\ RelsRead'
  BY DEF IInv, SymbolsRead, RelsRead, tables, BeforeSymbols, AfterSymbols
<1> QED
  BY <1>1, <1>2

\* readelf: a failed elf_alloc of the header leaves nothing to free.
LEMMA AllocHeaderStep == IInv /\ AllocHeader => IInv'
<1> SUFFICES ASSUME IInv, AllocHeader PROVE IInv'
  OBVIOUS
<1>1. pc = "header" /\ pc \in Reading /\ pc \in BeforeSymbols /\ "header" \in Field
      /\ "program_headers" \in Reading /\ UNCHANGED <<file, symbols, rels>>
  BY DEF AllocHeader, Reading, BeforeSymbols, Field, tables
<1>2. PICK o \in ElfAlloc(heap) : Store("header", o, "program_headers")
  BY DEF AllocHeader
<1>3. Outcome(heap, o)
  BY <1>1, ReadingBalanced, AllocOutcome
<1>4. elf_file["header"] = NULL /\ elf_file["dynamic"] = NULL
  BY <1>1 DEF IInv, Pending
<1>5. Accounts' /\ pc' \in {"program_headers", "error"}
      /\ \A g \in Field \ {"header"} : elf_file'[g] = elf_file[g]
  BY <1>1, <1>2, <1>3, <1>4, StoreStep
<1>6. Pending'
  BY <1>1, <1>5 DEF IInv, Pending, BeforeSymbols, Field
<1> QED
  BY <1>1, <1>5, <1>6, EarlyStep DEF AllocHeader, IInv, BeforeSymbols

\* read_program_headers stores its buffer in a field that was NULL.
LEMMA ReadProgramHeadersStep == IInv /\ ReadProgramHeaders => IInv'
<1> SUFFICES ASSUME IInv, ReadProgramHeaders PROVE IInv'
  OBVIOUS
<1>1. pc = "program_headers" /\ pc \in Reading /\ pc \in BeforeSymbols /\ "program_headers" \in Field
      /\ "sections" \in Reading /\ UNCHANGED <<file, symbols, rels>>
  BY DEF ReadProgramHeaders, Reading, BeforeSymbols, Field, tables
<1>2. elf_file["program_headers"] = NULL /\ elf_file["dynamic"] = NULL
  BY <1>1 DEF IInv, Pending, BeforeSymbols
<1>3. CASE Skip("error") \/ Skip("sections")
  <2>1. Accounts' /\ pc' \in {"sections", "error"} /\ elf_file' = elf_file
    BY <1>1, <1>2, <1>3, SkipStep DEF Skip
  <2>2. Pending'
    BY <1>1, <2>1 DEF IInv, Pending, BeforeSymbols
  <2> QED BY <1>1, <2>1, <2>2, EarlyStep DEF ReadProgramHeaders, IInv, BeforeSymbols
<1>4. CASE \E o \in ElfRead2(heap) : Store("program_headers", o, "sections")
  <2>1. PICK o \in ElfRead2(heap) : Store("program_headers", o, "sections")
    BY <1>4
  <2>2. Outcome(heap, o)
    BY <1>1, ReadingBalanced, ReadOutcome
  <2>3. Accounts' /\ pc' \in {"sections", "error"}
        /\ \A g \in Field \ {"program_headers"} : elf_file'[g] = elf_file[g]
    BY <1>1, <1>2, <2>1, <2>2, StoreStep
  <2>4. Pending'
    BY <1>1, <2>3 DEF IInv, Pending, BeforeSymbols, Field
  <2> QED BY <1>1, <2>3, <2>4, EarlyStep DEF ReadProgramHeaders, IInv, BeforeSymbols
<1> QED
  BY <1>3, <1>4 DEF ReadProgramHeaders

\* So does the reading of the section headers,
LEMMA ReadSectionsStep == IInv /\ ReadSections => IInv'
<1> SUFFICES ASSUME IInv, ReadSections PROVE IInv'
  OBVIOUS
<1>1. pc = "sections" /\ pc \in Reading /\ pc \in BeforeSymbols /\ "sections" \in Field
      /\ "section_names" \in Reading /\ UNCHANGED <<file, symbols, rels>>
  BY DEF ReadSections, Reading, BeforeSymbols, Field, tables
<1>2. PICK o \in ElfRead2(heap) : Store("sections", o, "section_names")
  BY DEF ReadSections
<1>3. Outcome(heap, o)
  BY <1>1, ReadingBalanced, ReadOutcome
<1>4. elf_file["sections"] = NULL /\ elf_file["dynamic"] = NULL
  BY <1>1 DEF IInv, Pending, BeforeSymbols
<1>5. Accounts' /\ pc' \in {"section_names", "error"}
      /\ \A g \in Field \ {"sections"} : elf_file'[g] = elf_file[g]
  BY <1>1, <1>2, <1>3, <1>4, StoreStep
<1>6. Pending'
  BY <1>1, <1>5 DEF IInv, Pending, BeforeSymbols, Field
<1> QED
  BY <1>1, <1>5, <1>6, EarlyStep DEF ReadSections, IInv, BeforeSymbols

\* of the section names,
LEMMA ReadSectionNamesStep == IInv /\ ReadSectionNames => IInv'
<1> SUFFICES ASSUME IInv, ReadSectionNames PROVE IInv'
  OBVIOUS
<1>1. pc = "section_names" /\ pc \in Reading /\ pc \in BeforeSymbols /\ "section_names" \in Field
      /\ "interpreter" \in Reading /\ UNCHANGED <<file, symbols, rels>>
  BY DEF ReadSectionNames, Reading, BeforeSymbols, Field, tables
<1>2. PICK o \in ElfRead2(heap) : Store("section_names", o, "interpreter")
  BY DEF ReadSectionNames
<1>3. Outcome(heap, o)
  BY <1>1, ReadingBalanced, ReadOutcome
<1>4. elf_file["section_names"] = NULL /\ elf_file["dynamic"] = NULL
  BY <1>1 DEF IInv, Pending, BeforeSymbols
<1>5. Accounts' /\ pc' \in {"interpreter", "error"}
      /\ \A g \in Field \ {"section_names"} : elf_file'[g] = elf_file[g]
  BY <1>1, <1>2, <1>3, <1>4, StoreStep
<1>6. Pending'
  BY <1>1, <1>5 DEF IInv, Pending, BeforeSymbols, Field
<1> QED
  BY <1>1, <1>5, <1>6, EarlyStep DEF ReadSectionNames, IInv, BeforeSymbols

\* and of the interpreter, which a file need not have.
LEMMA ReadInterpreterStep == IInv /\ ReadInterpreter => IInv'
<1> SUFFICES ASSUME IInv, ReadInterpreter PROVE IInv'
  OBVIOUS
<1>1. pc = "interpreter" /\ pc \in Reading /\ pc \in BeforeSymbols /\ "interpreter" \in Field
      /\ "symbol_tables" \in Reading /\ UNCHANGED <<file, symbols, rels>>
  BY DEF ReadInterpreter, Reading, BeforeSymbols, Field, tables
<1>2. elf_file["interpreter"] = NULL /\ elf_file["dynamic"] = NULL
  BY <1>1 DEF IInv, Pending, BeforeSymbols
<1>3. CASE Skip("symbol_tables")
  <2>1. Accounts' /\ pc' = "symbol_tables" /\ elf_file' = elf_file
    BY <1>1, <1>2, <1>3, SkipStep DEF Skip
  <2>2. Pending'
    BY <1>1, <2>1 DEF IInv, Pending, BeforeSymbols
  <2> QED BY <1>1, <2>1, <2>2, EarlyStep DEF ReadInterpreter, IInv, BeforeSymbols
<1>4. CASE \E o \in ElfRead2(heap) : Store("interpreter", o, "symbol_tables")
  <2>1. PICK o \in ElfRead2(heap) : Store("interpreter", o, "symbol_tables")
    BY <1>4
  <2>2. Outcome(heap, o)
    BY <1>1, ReadingBalanced, ReadOutcome
  <2>3. Accounts' /\ pc' \in {"symbol_tables", "error"}
        /\ \A g \in Field \ {"interpreter"} : elf_file'[g] = elf_file[g]
    BY <1>1, <1>2, <2>1, <2>2, StoreStep
  <2>4. Pending'
    BY <1>1, <2>3 DEF IInv, Pending, BeforeSymbols, Field
  <2> QED BY <1>1, <2>3, <2>4, EarlyStep DEF ReadInterpreter, IInv, BeforeSymbols
<1> QED
  BY <1>3, <1>4 DEF ReadInterpreter
-----------------------------------------------------------------------------
(***************************************************************************)
(* Reading the symbol tables.                                              *)
(***************************************************************************)

\* An array that has just been allocated holds no pointers.
LEMMA BlankSymbols ==
    ASSUME NEW h, NEW e, NEW r, Balanced(h, e, << >>, r), NEW n \in Nat,
           NEW s, s = [t \in 1 .. n |-> NoSymbolTable]
    PROVE  Balanced(h, e, s, r) /\ s \in Seq(SymbolTable) /\ Len(s) = n
           /\ \A t \in 1 .. n : s[t] = NoSymbolTable
<1>1. NoSymbolTable \in SymbolTable /\ NoSymbolTable.symbols = 0 /\ NoSymbolTable.names = 0
  BY DEF NoSymbolTable, SymbolTable, NULL
<1>2. s \in Seq(SymbolTable) /\ Len(s) = n /\ DOMAIN s = 1 .. n
      /\ \A t \in 1 .. n : s[t] = NoSymbolTable
  <2> HIDE DEF NoSymbolTable
  <2> QED BY <1>1
<1>3. Len(h) \in Nat
  BY DEF Balanced, Typed
<1>4. Typed(h, e, s, r)
  <2>1. \A t \in DOMAIN s : s[t].symbols <= Len(h) /\ s[t].names <= Len(h)
    BY <1>1, <1>2, <1>3
  <2> QED BY <1>2, <2>1 DEF Typed, Balanced
<1>5. ASSUME NEW k \in 1 .. Len(h) PROVE Account(h, e, s, r, k) = 1
  <2>1. k # 0
    BY <1>3
  <2>2. Symbols(s, k) = {} /\ Names(s, k) = {}
    BY <1>1, <1>2, <2>1 DEF Symbols, Names
  <2>3. Symbols(<< >>, k) = {} /\ Names(<< >>, k) = {}
    BY EmptyArrays
  <2>4. Account(h, e, s, r, k) = Account(h, e, << >>, r, k)
    BY <2>2, <2>3 DEF Account, Pointers
  <2> QED BY <2>4 DEF Balanced
<1> QED
  BY <1>2, <1>4, <1>5 DEF Balanced

\* read_symbol_tables allocates an array with an element for each section.
LEMMA AllocSymbolTablesStep == IInv /\ AllocSymbolTables => IInv'
<1> SUFFICES ASSUME IInv, AllocSymbolTables PROVE IInv'
  OBVIOUS
<1>1. /\ pc = "symbol_tables" /\ pc \in Reading /\ pc \in BeforeSymbols
      /\ "symbol_tables" \in Field /\ UNCHANGED <<file, symbol_table, rels>>
      /\ i' = 1 /\ table' = 0
  BY DEF AllocSymbolTables, Reading, BeforeSymbols, Field
<1>2. PICK o \in ElfAlloc(heap) :
         /\ Store("symbol_tables", o, "symbols")
         /\ symbols' = IF o[2] = NULL THEN << >>
                       ELSE [t \in 1 .. Cardinality(SymbolSections) |-> NoSymbolTable]
  BY DEF AllocSymbolTables
<1> DEFINE L == Len(file.sections)
           n == Cardinality(SymbolSections)
<1>3. /\ L \in Nat /\ SymbolSections \in SUBSET (1 .. L) /\ n \in Nat
  <2>1. L \in Nat /\ SymbolSections \in SUBSET (1 .. L)
    BY SectionsAre DEF IInv, Cursors
  <2>2. 1 \in Nat \ {0}
    OBVIOUS
  <2> QED BY <2>1, <2>2, Below
<1>4. symbols = << >> /\ rels = << >> /\ symbol_table = 0
  BY <1>1 DEF IInv, SymbolsRead, RelsRead
<1>5. elf_file["symbol_tables"] = NULL /\ elf_file["dynamic"] = NULL
  BY <1>1 DEF IInv, Pending
<1>6. /\ Balanced(heap', elf_file', << >>, rels') /\ elf_file' \in [Field -> 0 .. Len(heap')]
      /\ \A g \in Field \ {"symbol_tables"} : elf_file'[g] = elf_file[g]
  <2>1. Outcome(heap, o)
    BY <1>1, ReadingBalanced, AllocOutcome
  <2>2. heap' = o[1] /\ elf_file' = [elf_file EXCEPT !["symbol_tables"] = o[2]]
    BY <1>2 DEF Store
  <2>3. Balanced(heap', elf_file', << >>, rels')
    BY <1>1, <1>4, <1>5, <2>1, <2>2, ReadingBalanced, StoreBalances
  <2>4. elf_file \in [Field -> 0 .. Len(heap)]
    BY <1>1, ReadingBalanced DEF Typed
  <2> QED BY <2>2, <2>3, <2>4 DEF Balanced, Typed
<1>7. file' = file /\ SymbolSections' = SymbolSections /\ L' = L
  BY <1>1 DEF SymbolSections, SectionsOf
<1>8. pc' \in {"symbols", "error"} /\ (pc' = "error" <=> o[2] = NULL)
  BY <1>2 DEF Store
<1>9. /\ Balanced(heap', elf_file', symbols', rels') /\ Len(symbols') \in Nat
      /\ pc' = "symbols" => Len(symbols') = n
                            /\ \A t \in 1 .. n : symbols'[t] = NoSymbolTable
  <2>1. CASE o[2] = NULL
    <3>1. symbols' = << >> /\ pc' = "error"
      BY <1>2, <1>8, <2>1
    <3> QED BY <1>6, <3>1
  <2>2. CASE o[2] # NULL
    <3>1. symbols' = [t \in 1 .. n |-> NoSymbolTable]
      BY <1>2, <2>2
    <3> HIDE DEF n
    <3> QED BY <1>3, <1>6, <3>1, BlankSymbols
  <2> QED BY <2>1, <2>2
<1>10. Accounts'
  <2>1. Len(heap') \in Nat
    BY <1>9 DEF Balanced, Typed
  <2>2. elf_file'["dynamic"] = NULL
    BY <1>5, <1>6 DEF Field
  <2>3. pc' = "error" => \A k \in 1 .. Len(heap') : ~Dangling(k)'
    BY <2>1, <2>2, NoneDangles
  <2> QED BY <1>8, <1>9, <2>3, StillBalanced DEF Reading
<1>11. Cursors'
  <2>1. symbol_table' \in 0 .. Len(symbols')
    BY <1>1, <1>4, <1>9
  <2>2. i' \in 1 .. L + 1 /\ table' \in 0 .. L
    BY <1>1, <1>3
  <2>3. file \in Files
    BY DEF IInv, Cursors
  <2> QED BY <1>7, <1>8, <2>1, <2>2, <2>3 DEF Cursors, Reading
<1>12. Pending'
  BY <1>1, <1>6, <1>8 DEF IInv, Pending, BeforeSymbols, Field
<1>13. SymbolsRead'
  <2>1. pc' = "symbols" => UpTo(symbols', SymbolSections', i', table')
    BY <1>1, <1>3, <1>7, UpToStart
  <2>2. pc' = "symbols" => \A t \in table' + 1 .. Len(symbols') : symbols'[t] = NoSymbolTable
    <3>1. ASSUME pc' = "symbols" PROVE \A t \in table' + 1 .. Len(symbols') : symbols'[t] = NoSymbolTable
      <4>1. table' + 1 .. Len(symbols') = 1 .. n
        BY <1>1, <1>9, <3>1
      <4> QED BY <1>9, <3>1, <4>1
    <3> QED BY <3>1
  <2>3. SymbolsFilled(table)'
    <3>1. 1 .. table' = {}
      BY <1>1
    <3> QED BY <3>1 DEF SymbolsFilled
  <2>4. symbol_table' = 0
    BY <1>1, <1>4
  <2>5. pc' \notin BeforeSymbols /\ pc' \notin AfterSymbols /\ pc' \notin AfterSymbols \ {"dynamic"}
    BY <1>8 DEF BeforeSymbols, AfterSymbols
  <2>6. pc' = "symbols" => Len(symbols') = Cardinality(SymbolSections')
    BY <1>7, <1>9
  <2> QED BY <2>1, <2>2, <2>3, <2>4, <2>5, <2>6 DEF SymbolsRead
<1>14. RelsRead'
  <2>1. rels' = << >> /\ pc' # "relocations" /\ pc' # "done"
    BY <1>1, <1>4, <1>8
  <2> QED BY <2>1 DEF RelsRead
<1> QED
  BY <1>10, <1>11, <1>12, <1>13, <1>14 DEF IInv

\* The element of a section, filled once or twice.
LEMMA SectionFilled ==
    ASSUME NEW h, NEW e, NEW r, NEW s, Balanced(h, e, s, r), NEW t \in DOMAIN s,
           s[t] = NoSymbolTable, NEW n \in Nat, NEW o, Outcome(h, o)
    PROVE  /\ Balanced(o[1], e, [s EXCEPT ![t] = [section |-> n, symbols |-> o[2], names |-> NULL]], r)
           /\ \A p : Outcome(o[1], p) =>
                Balanced(p[1], e, [s EXCEPT ![t] = [section |-> n, symbols |-> o[2], names |-> p[2]]], r)
<1> DEFINE a == [section |-> n, symbols |-> o[2], names |-> NULL]
           s1 == [s EXCEPT ![t] = a]
<1>1. s[t].symbols = NULL /\ s[t].names = NULL
  BY DEF NoSymbolTable
<1>2. Balanced(o[1], e, s1, r)
  <2>1. a.section = n /\ a.symbols = o[2] /\ a.names = s[t].names
        /\ a = [section |-> a.section, symbols |-> a.symbols, names |-> a.names]
    BY <1>1
  <2> HIDE DEF a
  <2> QED BY <1>1, <2>1, FillSymbolTable
<1>3. ASSUME NEW p, Outcome(o[1], p)
      PROVE  Balanced(p[1], e, [s EXCEPT ![t] = [section |-> n, symbols |-> o[2], names |-> p[2]]], r)
  <2> DEFINE b == [section |-> n, symbols |-> o[2], names |-> p[2]]
  <2>1. s1[t] = a /\ t \in DOMAIN s1
    OBVIOUS
  <2>2. /\ s1[t].names = NULL /\ s1[t].symbols = o[2]
        /\ b.section = n /\ b.symbols = o[2] /\ b.names = p[2]
        /\ b = [section |-> b.section, symbols |-> b.symbols, names |-> b.names]
    BY <2>1
  <2> HIDE DEF a, b, s1
  <2>3. Balanced(p[1], e, [s1 EXCEPT ![t] = b], r)
    BY <1>2, <1>3, <2>1, <2>2, FillSymbolTable
  <2>4. [s1 EXCEPT ![t] = b] = [s EXCEPT ![t] = b]
    BY DEF s1
  <2> QED BY <2>3, <2>4 DEF b
<1> QED
  BY <1>2, <1>3

\* One section is read into the next element, or the error path drops the array.
LEMMA ReadSymbolTableStep == IInv /\ ReadSymbolTable => IInv'
<1> SUFFICES ASSUME IInv, ReadSymbolTable PROVE IInv'
  OBVIOUS
<1> DEFINE L == Len(file.sections)
           Q == SymbolSections
           t == table + 1
<1>1. /\ pc = "symbols" /\ pc \in Reading /\ i \in Q /\ i' = i + 1 /\ table' = t
      /\ UNCHANGED <<file, symbol_table, rels>>
  BY DEF ReadSymbolTable, Reading
<1>2. /\ L \in Nat /\ Q \in SUBSET (1 .. L) /\ table \in 0 .. L /\ file \in Files
      /\ symbol_table = 0 /\ elf_file["dynamic"] = NULL /\ elf_file["rel_tables"] = NULL
      /\ rels = << >>
  BY <1>1, SectionsAre DEF IInv, Cursors, Pending, SymbolsRead, RelsRead
<1>3. /\ UpTo(symbols, Q, i, table) /\ Len(symbols) = Cardinality(Q) /\ SymbolsFilled(table)
      /\ \A u \in t .. Len(symbols) : symbols[u] = NoSymbolTable
  BY <1>1 DEF IInv, SymbolsRead
<1>4. i \in 1 .. L /\ i \in Nat \ {0} /\ table \in Nat
  <2>1. i \in 1 .. L
    BY <1>1, <1>2
  <2> QED BY <1>2, <2>1
<1>5. t \in 1 .. Cardinality(Q) /\ table < i
  BY <1>1, <1>2, <1>3, <1>4, UpToRoom
<1>6. Balanced(heap, elf_file, symbols, rels) /\ heap \in Seq(Nat) /\ symbols \in Seq(SymbolTable)
  BY <1>1, ReadingBalanced DEF Typed
<1>7. /\ DOMAIN symbols = 1 .. Len(symbols) /\ Len(symbols) \in Nat /\ t \in DOMAIN symbols
      /\ t \in t .. Len(symbols)
  BY <1>3, <1>5, <1>6
<1>8. symbols[t] = NoSymbolTable
  BY <1>3, <1>7
<1>9. file' = file /\ Q' = Q /\ L' = L
  BY <1>1 DEF SymbolSections, SectionsOf
<1>10. PICK o \in ElfRead2(heap) :
          IF o[2] = NULL
          THEN DropSymbolTables(o[1], FilledSymbolTables(NULL, NULL))
          ELSE \E n \in ElfRead2(o[1]) :
                  IF n[2] = NULL
                  THEN DropSymbolTables(n[1], FilledSymbolTables(o[2], NULL))
                  ELSE /\ heap' = n[1]
                       /\ symbols' = FilledSymbolTables(o[2], n[2])
                       /\ UNCHANGED <<pc, elf_file>>
  BY DEF ReadSymbolTable
<1>11. Outcome(heap, o) /\ o[1] \in Seq(Nat)
  BY <1>6, ReadOutcome DEF Outcome
<1> HIDE DEF L, Q, t
<1>12. /\ Balanced(o[1], elf_file, FilledSymbolTables(o[2], NULL), rels)
       /\ \A n : Outcome(o[1], n) =>
             Balanced(n[1], elf_file, FilledSymbolTables(o[2], n[2]), rels)
  BY <1>4, <1>6, <1>7, <1>8, <1>11, SectionFilled DEF FilledSymbolTables, t
<1>13. ASSUME NEW h, NEW s, DropSymbolTables(h, s), Balanced(h, elf_file, s, rels)
       PROVE  IInv'
  <2>1. /\ heap' = ElfFree(ElfFree(h, [k \in DOMAIN h |-> SymbolRefs(s, k)]),
                           Only(h, elf_file["symbol_tables"]))
        /\ elf_file' = [elf_file EXCEPT !["symbol_tables"] = NULL]
        /\ symbols' = << >> /\ pc' = "error"
    BY <1>13 DEF DropSymbolTables
  <2>2. Balanced(heap', elf_file', symbols', rels')
    BY <1>1, <1>13, <2>1, DropSymbolsBalances DEF Field
  <2>3. elf_file'["dynamic"] = NULL /\ elf_file'["rel_tables"] = NULL
    <3>1. elf_file \in [Field -> 0 .. Len(heap)]
      BY <1>1, ReadingBalanced DEF Typed
    <3> QED BY <1>2, <2>1, <3>1 DEF Field
  <2>4. Accounts'
    <3>1. Len(heap') \in Nat
      BY <2>2 DEF Balanced, Typed
    <3>2. \A k \in 1 .. Len(heap') : ~Dangling(k)'
      BY <2>1, <2>3, <3>1, NoneDangles
    <3> QED BY <2>1, <2>2, <3>2, StillBalanced
  <2>5. Cursors'
    <3>1. symbol_table' \in 0 .. Len(symbols')
      BY <1>1, <1>2, <2>1
    <3>2. i' \in 1 .. L + 1 /\ table' \in 0 .. L
      BY <1>1, <1>2, <1>4, <1>5 DEF t
    <3> QED BY <1>2, <1>9, <2>1, <3>1, <3>2 DEF Cursors, L
  <2>6. Pending' /\ SymbolsRead' /\ RelsRead'
    BY <2>1 DEF Pending, SymbolsRead, RelsRead, BeforeSymbols, AfterSymbols
  <2> QED BY <2>4, <2>5, <2>6 DEF IInv
<1>14. CASE o[2] = NULL
  <2>1. DropSymbolTables(o[1], FilledSymbolTables(NULL, NULL))
    BY <1>10, <1>14
  <2>2. Balanced(o[1], elf_file, FilledSymbolTables(NULL, NULL), rels)
    BY <1>12, <1>14
  <2> QED BY <1>13, <2>1, <2>2
<1>15. CASE o[2] # NULL
  <2>1. PICK n \in ElfRead2(o[1]) :
                  IF n[2] = NULL
                  THEN DropSymbolTables(n[1], FilledSymbolTables(o[2], NULL))
                  ELSE /\ heap' = n[1]
                       /\ symbols' = FilledSymbolTables(o[2], n[2])
                       /\ UNCHANGED <<pc, elf_file>>
    BY <1>10, <1>15
  <2>2. Balanced(n[1], elf_file, FilledSymbolTables(o[2], n[2]), rels)
    BY <1>11, <1>12, ReadOutcome
  <2>3. CASE n[2] = NULL
    BY <1>13, <2>1, <2>2, <2>3
  <2>4. CASE n[2] # NULL
    <3>1. /\ heap' = n[1] /\ pc' = pc /\ elf_file' = elf_file
          /\ symbols' = [symbols EXCEPT ![t] = [section |-> i, symbols |-> o[2], names |-> n[2]]]
      BY <2>1, <2>4 DEF FilledSymbolTables, t
    <3>2. Balanced(heap', elf_file', symbols', rels')
      BY <1>1, <2>1, <2>2, <2>4
    <3>3. Accounts'
      BY <1>1, <3>1, <3>2, StillBalanced
    <3>4. /\ Len(symbols') = Len(symbols)
          /\ symbols'[t].section = i /\ symbols'[t].symbols = o[2] /\ symbols'[t].names = n[2]
          /\ \A u \in 1 .. Len(symbols) : u # t => symbols'[u] = symbols[u]
      BY <1>6, <1>7, <3>1
    <3>5. Cursors'
      <4>1. symbol_table' \in 0 .. Len(symbols')
        BY <1>1, <1>2, <1>7, <3>4
      <4>2. i' \in 1 .. L + 1 /\ table' \in 0 .. L
        BY <1>1, <1>2, <1>4, <1>5 DEF t
      <4> QED BY <1>1, <1>2, <1>9, <3>1, <4>1, <4>2 DEF Cursors, L
    <3>6. Pending' /\ RelsRead'
      BY <1>1, <3>1 DEF IInv, Pending, RelsRead, BeforeSymbols
    <3>7. \A u : (u \in 1 .. table => u \in 1 .. Len(symbols) /\ u # t)
                 /\ (u \in t + 1 .. Len(symbols) => u \in 1 .. Len(symbols) /\ u # t
                                                    /\ u \in t .. Len(symbols))
                 /\ (u \in 1 .. t => u \in 1 .. table \/ u = t)
      BY <1>3, <1>4, <1>5, <1>7 DEF t
    <3>8. UpTo(symbols', Q', i', table')
      <4>1. \A u \in 1 .. table : symbols'[u] = symbols[u]
        BY <3>4, <3>7
      <4>2. symbols'[table + 1].section = i
        BY <3>4 DEF t
      <4>3. UpTo(symbols', Q, i + 1, table + 1)
        BY <1>1, <1>2, <1>3, <4>1, <4>2, UpToFill
      <4> QED BY <1>1, <1>9, <4>3 DEF t
    <3>9. SymbolsFilled(table)'
      BY <1>1, <1>3, <1>15, <2>4, <3>4, <3>7 DEF SymbolsFilled
    <3>10. \A u \in table' + 1 .. Len(symbols') : symbols'[u] = NoSymbolTable
      BY <1>1, <1>3, <3>4, <3>7
    <3>11. SymbolsRead'
      <4>1. Len(symbols') = Cardinality(Q')
        BY <1>3, <1>9, <3>4
      <4> QED BY <1>1, <1>2, <3>1, <3>8, <3>9, <3>10, <4>1
              DEF SymbolsRead, BeforeSymbols, AfterSymbols, Q
    <3> QED BY <3>3, <3>5, <3>6, <3>11 DEF IInv
  <2> QED BY <2>3, <2>4
<1> QED
  BY <1>14, <1>15

\* The loops pass over a section without filling an element.
LEMMA SkipSectionStep == IInv /\ SkipSection => IInv'
<1> SUFFICES ASSUME IInv, SkipSection PROVE IInv'
  OBVIOUS
<1> DEFINE L == Len(file.sections)
<1>1. /\ pc \in {"symbols", "relocations"} /\ pc \in Reading /\ i <= L /\ i' = i + 1
      /\ UNCHANGED <<file, pc, heap, elf_file, symbol_table, symbols, rels, table>>
      /\ pc = "symbols" => i \notin SymbolSections
      /\ pc = "relocations" => i \notin RelSections
  BY DEF SkipSection, Reading, BeforeSymbols, AfterSymbols
<1>2. /\ L \in Nat /\ SymbolSections \in SUBSET (1 .. L) /\ RelSections \in SUBSET (1 .. L)
      /\ file \in Files /\ i \in 1 .. L + 1
  BY SectionsAre DEF IInv, Cursors
<1>3. i \in Nat \ {0} /\ i' \in 1 .. L + 1
  BY <1>1, <1>2
<1>4. SymbolSections' = SymbolSections /\ RelSections' = RelSections /\ L' = L
  BY <1>1 DEF SymbolSections, RelSections, SectionsOf
<1> HIDE DEF L
<1>5. Cursors'
  BY <1>1, <1>3, <1>4 DEF IInv, Cursors, L
<1>6. Accounts'
  BY <1>1, ReadingBalanced, StillBalanced, <1>1 DEF Reading, BeforeSymbols, AfterSymbols
<1>7. Pending'
  BY <1>1 DEF IInv, Pending
<1>8. SymbolsRead'
  <2>1. CASE pc = "symbols"
    <3>1. UpTo(symbols, SymbolSections, i, table)
      BY <2>1 DEF IInv, SymbolsRead
    <3>2. UpTo(symbols, SymbolSections, i + 1, table)
      BY <1>1, <1>2, <1>3, <2>1, <3>1, UpToSkip
    <3>3. UpTo(symbols', SymbolSections', i', table')
      BY <1>1, <1>4, <3>2
    <3>4. SymbolsFilled(table)' <=> SymbolsFilled(table)
      BY <1>1 DEF SymbolsFilled
    <3> QED BY <1>1, <1>4, <2>1, <3>3, <3>4 DEF IInv, SymbolsRead, BeforeSymbols, AfterSymbols
  <2>2. CASE pc = "relocations"
    <3>1. /\ UpTo(symbols, SymbolSections, L + 1, Len(symbols)) /\ SymbolsFilled(Len(symbols))
          /\ HasPhdr("PT_DYNAMIC") => symbol_table # 0 /\ IsDynsym(symbol_table)
      BY <2>2 DEF IInv, SymbolsRead, AfterSymbols, L
    <3>2. UpTo(symbols', SymbolSections', L' + 1, Len(symbols')) /\ SymbolsFilled(Len(symbols))'
      BY <1>1, <1>4, <3>1 DEF SymbolsFilled
    <3>3. HasPhdr("PT_DYNAMIC")' => symbol_table' # 0 /\ IsDynsym(symbol_table)'
      BY <1>1, <3>1 DEF HasPhdr, IsDynsym
    <3> QED BY <1>1, <2>2, <3>2, <3>3 DEF SymbolsRead, BeforeSymbols, AfterSymbols, L
  <2> QED BY <1>1, <2>1, <2>2
<1>9. RelsRead'
  <2>1. CASE pc = "symbols"
    BY <1>1, <2>1 DEF IInv, RelsRead, BeforeSymbols
  <2>2. CASE pc = "relocations"
    <3>1. UpTo(rels, RelSections, i, table)
      BY <2>2 DEF IInv, RelsRead
    <3>2. UpTo(rels, RelSections, i + 1, table)
      BY <1>1, <1>2, <1>3, <2>2, <3>1, UpToSkip
    <3>3. UpTo(rels', RelSections', i', table')
      BY <1>1, <1>4, <3>2
    <3>4. RelsFilled(table)' <=> RelsFilled(table)
      BY <1>1 DEF RelsFilled
    <3> QED BY <1>1, <1>4, <2>2, <3>3, <3>4 DEF IInv, RelsRead, BeforeSymbols
  <2> QED BY <1>1, <2>1, <2>2
<1> QED
  BY <1>5, <1>6, <1>7, <1>8, <1>9 DEF IInv

\* At the end of the sections every element is filled.
LEMMA SymbolTablesReadStep == IInv /\ SymbolTablesRead => IInv'
<1> SUFFICES ASSUME IInv, SymbolTablesRead PROVE IInv'
  OBVIOUS
<1> DEFINE L == Len(file.sections)
<1>1. /\ pc = "symbols" /\ pc \in Reading /\ i > L /\ Skip("dynamic") /\ pc' = "dynamic"
      /\ UNCHANGED <<file, heap, elf_file, symbol_table, symbols, rels, i, table>>
  BY DEF SymbolTablesRead, Skip, tables, Reading, BeforeSymbols, AfterSymbols
<1>2. L \in Nat /\ SymbolSections \in SUBSET (1 .. L) /\ i \in 1 .. L + 1
  BY SectionsAre DEF IInv, Cursors
<1>3. i = L + 1
  BY <1>1, <1>2
<1>4. /\ UpTo(symbols, SymbolSections, i, table) /\ SymbolsFilled(table)
      /\ Len(symbols) = Cardinality(SymbolSections)
  BY <1>1 DEF IInv, SymbolsRead
<1>5. SymbolSections' = SymbolSections /\ L' = L
  BY <1>1 DEF SymbolSections, SectionsOf
<1>6. table = Len(symbols)
  BY <1>2, <1>3, <1>4, UpToEnd
<1> HIDE DEF L
<1>7. Cursors'
  BY <1>1, <1>5 DEF IInv, Cursors, Reading, AfterSymbols, L
<1>8. Accounts'
  BY <1>1, SkipStep DEF Reading, AfterSymbols
<1>9. Pending' /\ RelsRead'
  BY <1>1 DEF IInv, Pending, RelsRead, BeforeSymbols
<1>10. SymbolsRead'
  <2>1. UpTo(symbols', SymbolSections', L' + 1, Len(symbols'))
    BY <1>1, <1>3, <1>4, <1>5, <1>6
  <2>2. SymbolsFilled(Len(symbols))'
    BY <1>1, <1>4, <1>6 DEF SymbolsFilled
  <2>3. symbol_table' = 0
    BY <1>1 DEF IInv, SymbolsRead
  <2> QED BY <1>1, <2>1, <2>2, <2>3 DEF SymbolsRead, BeforeSymbols, AfterSymbols, L
<1> QED
  BY <1>7, <1>8, <1>9, <1>10 DEF IInv
-----------------------------------------------------------------------------
(***************************************************************************)
(* Reading the dynamic table and the relocation tables.                    *)
(***************************************************************************)

\* The symbol tables once they are read.
LEMMA SymbolsKept ==
    ASSUME IInv, pc \in AfterSymbols \ {"dynamic"},
           pc' \in (AfterSymbols \ {"dynamic"}) \cup {"error"},
           UNCHANGED <<file, symbols, symbol_table>>
    PROVE  SymbolsRead' /\ ~Stripped'
<1> DEFINE L == Len(file.sections)
<1>1. /\ UpTo(symbols, SymbolSections, L + 1, Len(symbols)) /\ SymbolsFilled(Len(symbols))
      /\ HasPhdr("PT_DYNAMIC") => symbol_table # 0 /\ IsDynsym(symbol_table)
  BY DEF IInv, SymbolsRead
<1>2. SymbolSections' = SymbolSections /\ L' = L
  BY DEF SymbolSections, SectionsOf
<1> HIDE DEF L
<1>3. UpTo(symbols', SymbolSections', L' + 1, Len(symbols')) /\ SymbolsFilled(Len(symbols))'
  BY <1>1, <1>2 DEF SymbolsFilled
<1>4. HasPhdr("PT_DYNAMIC")' => symbol_table' # 0 /\ IsDynsym(symbol_table)'
  BY <1>1 DEF HasPhdr, IsDynsym
<1>5. SymbolsRead'
  BY <1>3, <1>4 DEF SymbolsRead, BeforeSymbols, AfterSymbols, L
<1>6. ~Stripped'
  BY NotStripped DEF Stripped, HasPhdr, SectionsOf
<1> QED
  BY <1>5, <1>6

\* elf_free of one pointer.
LEMMA FreeOne ==
    ASSUME NEW h \in Seq(Nat), NEW p, NEW g, g = ElfFree(h, Only(h, p))
    PROVE  /\ g \in Seq(Nat) /\ Len(g) = Len(h)
           /\ \A k \in 1 .. Len(h) : g[k] = h[k] + (IF k = p THEN 1 ELSE 0)
<1>1. \A k \in 1 .. Len(h) : Only(h, p)[k] = IF k = p THEN 1 ELSE 0
  BY OnlyIs
<1>2. \A k \in 1 .. Len(h) : Only(h, p)[k] \in Nat
  BY <1>1
<1> QED
  BY <1>1, <1>2, ElfFreeIs

\* read_dynamic finds the first DYNSYM table, or leaves the table it has freed.
LEMMA ReadDynamicStep == IInv /\ ReadDynamic => IInv'
<1> SUFFICES ASSUME IInv, ReadDynamic PROVE IInv'
  OBVIOUS
<1> DEFINE L == Len(file.sections)
           found == {t \in DOMAIN symbols : IsDynsym(t)}
<1>1. /\ pc = "dynamic" /\ pc \in Reading /\ UNCHANGED <<file, symbols, rels, i, table>>
      /\ pc \in AfterSymbols
  BY DEF ReadDynamic, Reading, AfterSymbols
<1>2. /\ L \in Nat /\ SymbolSections \in SUBSET (1 .. L) /\ file \in Files
      /\ elf_file["dynamic"] = NULL /\ elf_file["rel_tables"] = NULL /\ symbol_table = 0
      /\ UpTo(symbols, SymbolSections, L + 1, Len(symbols)) /\ SymbolsFilled(Len(symbols))
      /\ rels = << >>
  BY <1>1, SectionsAre DEF IInv, Cursors, Pending, SymbolsRead, RelsRead
<1>3. /\ Balanced(heap, elf_file, symbols, rels) /\ heap \in Seq(Nat)
      /\ symbols \in Seq(SymbolTable) /\ elf_file \in [Field -> 0 .. Len(heap)]
  BY <1>1, ReadingBalanced DEF Typed
<1>4. DOMAIN symbols = 1 .. Len(symbols) /\ Len(symbols) \in Nat
  BY <1>3
<1>5. SymbolSections' = SymbolSections /\ L' = L
  BY <1>1 DEF SymbolSections, SectionsOf
<1>6. pc' \in {"rel_tables", "error"}
  BY DEF ReadDynamic, Skip
<1> HIDE DEF L, found
<1>7. ASSUME symbol_table' \in 0 .. Len(symbols),
             pc' = "rel_tables" /\ HasPhdr("PT_DYNAMIC") => symbol_table' # 0 /\ IsDynsym(symbol_table')
      PROVE  Cursors' /\ SymbolsRead' /\ RelsRead'
  <2>1. Cursors'
    BY <1>1, <1>2, <1>6, <1>7 DEF IInv, Cursors, Reading, AfterSymbols
  <2>2. RelsRead'
    BY <1>1, <1>2, <1>6 DEF RelsRead
  <2>3. UpTo(symbols', SymbolSections', L' + 1, Len(symbols')) /\ SymbolsFilled(Len(symbols))'
    BY <1>1, <1>2, <1>5 DEF SymbolsFilled
  <2>4. pc' = "rel_tables" /\ HasPhdr("PT_DYNAMIC")' => symbol_table' # 0 /\ IsDynsym(symbol_table)'
    BY <1>1, <1>7 DEF HasPhdr, IsDynsym
  <2>5. SymbolsRead'
    BY <1>6, <2>3, <2>4 DEF SymbolsRead, BeforeSymbols, AfterSymbols, L
  <2> QED BY <2>1, <2>2, <2>5
<1>8. CASE ~HasPhdr("PT_DYNAMIC")
  <2>1. Skip("rel_tables") /\ symbol_table' = symbol_table /\ pc' = "rel_tables"
        /\ elf_file' = elf_file
    BY <1>8 DEF ReadDynamic, Skip
  <2>2. Accounts'
    BY <1>1, <2>1, SkipStep DEF Reading, AfterSymbols
  <2>3. Pending'
    BY <1>2, <2>1 DEF Pending, BeforeSymbols
  <2>4. symbol_table' \in 0 .. Len(symbols)
    BY <1>2, <1>4, <2>1
  <2> QED BY <1>7, <1>8, <2>2, <2>3, <2>4 DEF IInv
<1>9. CASE HasPhdr("PT_DYNAMIC")
  <2>1. PICK o \in ElfRead2(heap) :
               /\ elf_file' = [elf_file EXCEPT !["dynamic"] = o[2]]
               /\ IF o[2] # NULL /\ found # {}
                  THEN /\ heap' = o[1]
                       /\ symbol_table' = CHOOSE t \in found : \A u \in found : t <= u
                       /\ pc' = "rel_tables"
                  ELSE /\ heap' = ElfFree(o[1], Only(o[1], o[2]))
                       /\ symbol_table' = 0
                       /\ pc' = "error"
    BY <1>9 DEF ReadDynamic, found
  <2>2. Outcome(heap, o) /\ o[1] \in Seq(Nat) /\ Len(o[1]) \in Nat
    BY <1>3, ReadOutcome DEF Outcome
  <2>3. Balanced(o[1], elf_file', symbols', rels')
    BY <1>1, <1>2, <1>3, <2>1, <2>2, StoreBalances DEF Field
  <2>4. elf_file'["dynamic"] = o[2] /\ elf_file'["rel_tables"] = NULL
    BY <1>2, <1>3, <2>1 DEF Field
  <2>5. Pending'
    BY <1>6, <2>4 DEF Pending, BeforeSymbols
  <2>6. CASE o[2] # NULL /\ found # {}
    <3>1. heap' = o[1] /\ pc' = "rel_tables"
          /\ symbol_table' = CHOOSE t \in found : \A u \in found : t <= u
      BY <2>1, <2>6
    <3>2. Accounts'
      BY <2>3, <3>1, StillBalanced DEF Reading, AfterSymbols
    <3>3. found \subseteq Nat
      BY <1>4 DEF found
    <3>4. PICK t \in found : \A u \in found : t <= u
      BY <2>6, <3>3, LeastElement
    <3>5. symbol_table' \in found
      BY <3>1, <3>4
    <3>6. symbol_table' \in 1 .. Len(symbols) /\ IsDynsym(symbol_table')
      BY <1>4, <3>5 DEF found
    <3>7. symbol_table' \in 0 .. Len(symbols) /\ symbol_table' # 0
      BY <1>4, <3>6
    <3> QED BY <1>7, <2>5, <3>2, <3>6, <3>7 DEF IInv
  <2>7. CASE ~(o[2] # NULL /\ found # {})
    <3>1. heap' = ElfFree(o[1], Only(o[1], o[2])) /\ symbol_table' = 0 /\ pc' = "error"
      BY <2>1, <2>7
    <3>2. /\ heap' \in Seq(Nat) /\ Len(heap') = Len(o[1])
          /\ \A k \in 1 .. Len(o[1]) : heap'[k] = o[1][k] + (IF k = o[2] THEN 1 ELSE 0)
      BY <2>2, <3>1, FreeOne
    <3>3. Typed(heap', elf_file', symbols', rels')
      BY <2>3, <3>2 DEF Balanced, Typed
    <3>4. o[2] # NULL => Stripped'
      <4> SUFFICES ASSUME o[2] # NULL PROVE Stripped'
        OBVIOUS
      <4>1. SectionsOf({"SHT_DYNSYM"}) = {}
        <5> SUFFICES ASSUME NEW s \in SectionsOf({"SHT_DYNSYM"}) PROVE FALSE
          OBVIOUS
        <5>1. s \in SymbolSections /\ file.sections[s].sh_type = "SHT_DYNSYM" /\ s < L + 1
          BY <1>2 DEF SectionsOf, SymbolSections, L
        <5>2. PICK t \in 1 .. Len(symbols) : symbols[t].section = s
          BY <1>2, <5>1 DEF UpTo
        <5>3. t \in found
          BY <1>4, <5>1, <5>2 DEF found, IsDynsym
        <5> QED BY <2>7, <5>3
      <4> QED BY <1>1, <1>9, <4>1 DEF Stripped, HasPhdr, SectionsOf
    <3>5. ASSUME NEW k \in 1 .. Len(heap')
          PROVE  Account(heap', elf_file', symbols', rels', k) = IF Dangling(k)' THEN 2 ELSE 1
      <4>1. Dangling(k)' <=> k = o[2]
        <5>1. k # 0
          BY <2>2, <3>2
        <5> QED BY <2>4, <3>1, <3>4, <5>1 DEF Dangling, NULL
      <4> DEFINE c == Pointers(elf_file', symbols', rels', k)
                 a == o[1][k]
      <4>2. c \in Nat /\ a \in Nat
        <5>1. c \in Nat
          BY <3>3, CountTypes DEF Typed
        <5>2. \A j \in 1 .. Len(o[1]) : o[1][j] \in Nat
          BY <2>2
        <5> QED BY <3>2, <5>1, <5>2
      <4>3. a + c = 1
        BY <2>3, <3>2 DEF Balanced, Account
      <4>4. heap'[k] = a + (IF k = o[2] THEN 1 ELSE 0)
        BY <3>2
      <4>5. Account(heap', elf_file', symbols', rels', k) = heap'[k] + c
        BY DEF Account
      <4> HIDE DEF a, c
      <4> QED BY <4>1, <4>2, <4>3, <4>4, <4>5
    <3>6. Accounts'
      BY <3>1, <3>3, <3>5 DEF Accounts
    <3>7. symbol_table' \in 0 .. Len(symbols)
      BY <1>4, <3>1
    <3> QED BY <1>7, <2>5, <3>1, <3>6, <3>7 DEF IInv
  <2> QED BY <2>6, <2>7
<1> QED
  BY <1>8, <1>9

\* An array that has just been allocated holds no pointers.
LEMMA BlankRels ==
    ASSUME NEW h, NEW e, NEW s, Balanced(h, e, s, << >>), NEW n \in Nat,
           NEW r, r = [t \in 1 .. n |-> NoRelTable]
    PROVE  Balanced(h, e, s, r) /\ r \in Seq(RelTable) /\ Len(r) = n
           /\ \A t \in 1 .. n : r[t] = NoRelTable
<1>1. NoRelTable \in RelTable /\ NoRelTable.relocations = 0
  BY DEF NoRelTable, RelTable, NULL
<1>2. r \in Seq(RelTable) /\ Len(r) = n /\ DOMAIN r = 1 .. n
      /\ \A t \in 1 .. n : r[t] = NoRelTable
  <2> HIDE DEF NoRelTable
  <2> QED BY <1>1
<1>3. Len(h) \in Nat
  BY DEF Balanced, Typed
<1>4. Typed(h, e, s, r)
  <2>1. \A t \in DOMAIN r : r[t].relocations <= Len(h)
    BY <1>1, <1>2, <1>3
  <2> QED BY <1>2, <2>1 DEF Typed, Balanced
<1>5. ASSUME NEW k \in 1 .. Len(h) PROVE Account(h, e, s, r, k) = 1
  <2>1. k # 0
    BY <1>3
  <2>2. Rels(r, k) = {}
    BY <1>1, <1>2, <2>1 DEF Rels
  <2>3. Rels(<< >>, k) = {}
    BY EmptyArrays
  <2>4. Account(h, e, s, r, k) = Account(h, e, s, << >>, k)
    BY <2>2, <2>3 DEF Account, Pointers
  <2> QED BY <2>4 DEF Balanced
<1> QED
  BY <1>2, <1>4, <1>5 DEF Balanced

\* read_relocations allocates an array with an element for each section.
LEMMA AllocRelTablesStep == IInv /\ AllocRelTables => IInv'
<1> SUFFICES ASSUME IInv, AllocRelTables PROVE IInv'
  OBVIOUS
<1>1. /\ pc = "rel_tables" /\ pc \in Reading /\ pc \in AfterSymbols \ {"dynamic"}
      /\ "rel_tables" \in Field /\ UNCHANGED <<file, symbol_table, symbols>>
      /\ i' = 1 /\ table' = 0
  BY DEF AllocRelTables, Reading, AfterSymbols, Field
<1>2. PICK o \in ElfAlloc(heap) :
         /\ Store("rel_tables", o, "relocations")
         /\ rels' = IF o[2] = NULL THEN << >>
                    ELSE [t \in 1 .. Cardinality(RelSections) |-> NoRelTable]
  BY DEF AllocRelTables
<1> DEFINE L == Len(file.sections)
           n == Cardinality(RelSections)
<1>3. L \in Nat /\ RelSections \in SUBSET (1 .. L) /\ n \in Nat
  <2>1. L \in Nat /\ RelSections \in SUBSET (1 .. L)
    BY SectionsAre DEF IInv, Cursors
  <2>2. 1 \in Nat \ {0}
    OBVIOUS
  <2> QED BY <2>1, <2>2, Below
<1>4. rels = << >> /\ elf_file["rel_tables"] = NULL
  BY <1>1 DEF IInv, RelsRead, Pending
<1>5. Balanced(heap', elf_file', symbols', << >>)
  <2>1. Outcome(heap, o)
    BY <1>1, ReadingBalanced, AllocOutcome
  <2>2. heap' = o[1] /\ elf_file' = [elf_file EXCEPT !["rel_tables"] = o[2]]
    BY <1>2 DEF Store
  <2> QED BY <1>1, <1>4, <2>1, <2>2, ReadingBalanced, StoreBalances
<1>6. file' = file /\ RelSections' = RelSections /\ L' = L
  BY <1>1 DEF RelSections, SectionsOf
<1>7. pc' \in {"relocations", "error"} /\ (pc' = "error" <=> o[2] = NULL)
  BY <1>2 DEF Store
<1>8. /\ Balanced(heap', elf_file', symbols', rels')
      /\ pc' = "relocations" => Len(rels') = n /\ \A t \in 1 .. n : rels'[t] = NoRelTable
  <2>1. CASE o[2] = NULL
    <3>1. rels' = << >> /\ pc' = "error"
      BY <1>2, <1>7, <2>1
    <3> QED BY <1>5, <3>1
  <2>2. CASE o[2] # NULL
    <3>1. rels' = [t \in 1 .. n |-> NoRelTable]
      BY <1>2, <2>2
    <3> HIDE DEF n
    <3> QED BY <1>3, <1>5, <3>1, BlankRels
  <2> QED BY <2>1, <2>2
<1>9. SymbolsRead' /\ ~Stripped'
  BY <1>1, <1>7, SymbolsKept DEF AfterSymbols
<1>10. Accounts'
  <2>1. Len(heap') \in Nat
    BY <1>8 DEF Balanced, Typed
  <2>2. pc' = "error" => \A k \in 1 .. Len(heap') : ~Dangling(k)'
    BY <1>9, <2>1, NoneDangles
  <2> QED BY <1>7, <1>8, <2>2, StillBalanced DEF Reading, AfterSymbols
<1>11. Cursors'
  <2>1. i' \in 1 .. L + 1 /\ table' \in 0 .. L
    BY <1>1, <1>3
  <2> QED BY <1>1, <1>6, <1>7, <2>1 DEF IInv, Cursors, Reading, AfterSymbols
<1>12. Pending'
  BY <1>7 DEF Pending, BeforeSymbols
<1>13. RelsRead'
  <2>1. UpTo(rels', RelSections', i', table')
    BY <1>1, <1>3, <1>6, UpToStart
  <2>2. ASSUME pc' = "relocations" PROVE \A t \in table' + 1 .. Len(rels') : rels'[t] = NoRelTable
    <3>1. table' + 1 .. Len(rels') = 1 .. n
      BY <1>1, <1>8, <2>2
    <3> QED BY <1>8, <2>2, <3>1
  <2>3. RelsFilled(table)'
    <3>1. 1 .. table' = {}
      BY <1>1
    <3> QED BY <3>1 DEF RelsFilled
  <2>4. pc' = "relocations" => Len(rels') = Cardinality(RelSections')
    BY <1>6, <1>8
  <2>5. pc' \notin BeforeSymbols \cup {"symbols", "dynamic", "rel_tables"} /\ pc' # "done"
    BY <1>7 DEF BeforeSymbols
  <2> QED BY <2>1, <2>2, <2>3, <2>4, <2>5 DEF RelsRead
<1> QED
  BY <1>9, <1>10, <1>11, <1>12, <1>13 DEF IInv

\* One section is read or converted, or the error path drops the array.
LEMMA ReadRelTableStep == IInv /\ ReadRelTable => IInv'
<1> SUFFICES ASSUME IInv, ReadRelTable PROVE IInv'
  OBVIOUS
<1> DEFINE L == Len(file.sections)
           Q == RelSections
           t == table + 1
<1>1. /\ pc = "relocations" /\ pc \in Reading /\ i \in Q /\ i' = i + 1 /\ table' = t
      /\ pc \in AfterSymbols \ {"dynamic"} /\ UNCHANGED <<file, symbol_table, symbols>>
  BY DEF ReadRelTable, Reading, AfterSymbols
<1>2. L \in Nat /\ Q \in SUBSET (1 .. L) /\ table \in 0 .. L /\ file \in Files
  BY <1>1, SectionsAre DEF IInv, Cursors
<1>3. /\ UpTo(rels, Q, i, table) /\ Len(rels) = Cardinality(Q) /\ RelsFilled(table)
      /\ \A u \in t .. Len(rels) : rels[u] = NoRelTable
  BY <1>1 DEF IInv, RelsRead
<1>4. i \in 1 .. L /\ i \in Nat \ {0} /\ table \in Nat
  <2>1. i \in 1 .. L
    BY <1>1, <1>2
  <2> QED BY <1>2, <2>1
<1>5. t \in 1 .. Cardinality(Q) /\ table < i
  BY <1>1, <1>2, <1>3, <1>4, UpToRoom
<1>6. Balanced(heap, elf_file, symbols, rels) /\ heap \in Seq(Nat) /\ rels \in Seq(RelTable)
  BY <1>1, ReadingBalanced DEF Typed
<1>7. /\ DOMAIN rels = 1 .. Len(rels) /\ Len(rels) \in Nat /\ t \in DOMAIN rels
      /\ t \in t .. Len(rels)
  BY <1>3, <1>5, <1>6
<1>8. rels[t] = NoRelTable
  BY <1>3, <1>7
<1>9. file' = file /\ Q' = Q /\ L' = L
  BY <1>1 DEF RelSections, SectionsOf
<1>10. PICK o \in IF file.sections[i].sh_type = "SHT_RELA" THEN ElfRead2(heap)
                  ELSE ConvertRelToRela(heap) :
          IF o[2] = NULL
          THEN /\ heap' = ElfFree(ElfFree(o[1], [k \in DOMAIN o[1] |-> RelRefs(rels, k)]),
                                  Only(o[1], elf_file["rel_tables"]))
               /\ elf_file' = [elf_file EXCEPT !["rel_tables"] = NULL]
               /\ rels' = << >>
               /\ pc' = "error"
          ELSE /\ heap' = o[1]
               /\ rels' = [rels EXCEPT ![table + 1] = Relocations(o[2])]
               /\ UNCHANGED <<pc, elf_file>>
  BY DEF ReadRelTable
<1>11. Outcome(heap, o)
  BY <1>6, <1>10, ReadOutcome, ConvertOutcome
<1>12. /\ Relocations(o[2]).relocations = o[2] /\ Relocations(o[2]).section = i
       /\ o[2] \in Nat => Relocations(o[2]) \in RelTable
  <2>1. /\ file.sections[i].sh_size \in Nat /\ file.sections[i].sh_entsize \in Nat \ {0}
    BY <1>2, <1>4, SectionsAre
  <2>2. \A a \in Nat, b \in Nat \ {0} : a \div b \in Nat
    OBVIOUS
  <2>3. /\ file.sections[i].sh_size \div file.sections[i].sh_entsize \in Nat
        /\ file.sections[i].sh_size \div SIZEOF_RELA \in Nat
        /\ file.sections[i].sh_size \div SIZEOF_SHDR \in Nat
    BY <2>1, <2>2 DEF SIZEOF_RELA, SIZEOF_SHDR
  <2> QED BY <1>4, <2>3 DEF Relocations, RelTable
<1> HIDE DEF L, Q, t
<1>13. SymbolsRead' /\ ~Stripped'
  <2>1. pc' \in {"relocations", "error"}
    BY <1>1, <1>10
  <2> QED BY <1>1, <2>1, SymbolsKept DEF AfterSymbols
<1>14. Cursors'
  <2>1. i' \in 1 .. L + 1 /\ table' \in 0 .. L
    BY <1>1, <1>2, <1>4, <1>5 DEF t
  <2>2. pc' \in {"relocations", "error"}
    BY <1>1, <1>10
  <2> QED BY <1>1, <1>2, <1>9, <2>1, <2>2 DEF IInv, Cursors, L, Reading, AfterSymbols
<1>15. CASE o[2] = NULL
  <2>1. /\ heap' = ElfFree(ElfFree(o[1], [k \in DOMAIN o[1] |-> RelRefs(rels, k)]),
                           Only(o[1], elf_file["rel_tables"]))
        /\ elf_file' = [elf_file EXCEPT !["rel_tables"] = NULL]
        /\ rels' = << >> /\ pc' = "error"
    BY <1>10, <1>15
  <2>2. Balanced(o[1], elf_file, symbols, rels)
    <3>1. \A k \in 1 .. Len(o[1]) : k # o[2]
      <4>1. Len(o[1]) \in Nat
        BY <1>11 DEF Outcome
      <4> QED BY <1>15, <4>1 DEF NULL
    <3>2. ASSUME NEW k \in 1 .. Len(o[1]) PROVE Account(o[1], elf_file, symbols, rels, k) = 1
      <4>1. Pointers(elf_file, symbols, rels, k) \in Nat
        BY <1>6, CountTypes DEF Balanced, Typed
      <4>2. Pointers(elf_file, symbols, rels, k)
              = Pointers(elf_file, symbols, rels, k) + (IF k = o[2] THEN 1 ELSE 0)
        BY <3>1, <4>1
      <4> QED BY <1>6, <1>11, <4>2, NewAccounts
    <3> QED BY <1>6, <1>11, <3>2, TypedLater DEF Balanced
  <2>3. Balanced(heap', elf_file', symbols', rels')
    BY <1>1, <2>1, <2>2, DropRelsBalances DEF Field
  <2>4. Accounts'
    <3>1. Len(heap') \in Nat
      BY <2>3 DEF Balanced, Typed
    <3>2. \A k \in 1 .. Len(heap') : ~Dangling(k)'
      BY <1>13, <2>1, <3>1, NoneDangles
    <3> QED BY <2>1, <2>3, <3>2, StillBalanced
  <2>5. Pending' /\ RelsRead'
    BY <2>1 DEF Pending, RelsRead, BeforeSymbols
  <2> QED BY <1>13, <1>14, <2>4, <2>5 DEF IInv
<1>16. CASE o[2] # NULL
  <2>1. /\ heap' = o[1] /\ rels' = [rels EXCEPT ![t] = Relocations(o[2])]
        /\ pc' = pc /\ elf_file' = elf_file
    BY <1>10, <1>16 DEF t
  <2>2. Balanced(heap', elf_file', symbols', rels')
    <3>1. rels[t].relocations = NULL
      BY <1>8 DEF NoRelTable
    <3> QED BY <1>1, <1>6, <1>7, <1>11, <1>12, <2>1, <3>1, FillRelTable
  <2>3. Accounts'
    BY <1>1, <2>1, <2>2, StillBalanced
  <2>4. /\ Len(rels') = Len(rels) /\ rels'[t] = Relocations(o[2])
        /\ \A u \in 1 .. Len(rels) : u # t => rels'[u] = rels[u]
    BY <1>6, <1>7, <2>1
  <2>5. Pending'
    BY <1>1, <2>1 DEF Pending, BeforeSymbols
  <2>6. \A u : (u \in 1 .. table => u \in 1 .. Len(rels) /\ u # t)
               /\ (u \in t + 1 .. Len(rels) => u \in 1 .. Len(rels) /\ u # t /\ u \in t .. Len(rels))
               /\ (u \in 1 .. t => u \in 1 .. table \/ u = t)
    BY <1>3, <1>4, <1>5, <1>7 DEF t
  <2>7. UpTo(rels', Q', i', table')
    <3>1. \A u \in 1 .. table : rels'[u] = rels[u]
      BY <2>4, <2>6
    <3>2. rels'[table + 1].section = i
      BY <1>12, <2>4 DEF t
    <3>3. UpTo(rels', Q, i + 1, table + 1)
      BY <1>1, <1>2, <1>3, <3>1, <3>2, UpToFill
    <3> QED BY <1>1, <1>9, <3>3 DEF t
  <2>8. RelsFilled(table)'
    BY <1>1, <1>3, <1>12, <1>16, <2>4, <2>6 DEF RelsFilled
  <2>9. \A u \in table' + 1 .. Len(rels') : rels'[u] = NoRelTable
    BY <1>1, <1>3, <2>4, <2>6
  <2>10. RelsRead'
    <3>1. Len(rels') = Cardinality(Q')
      BY <1>3, <1>9, <2>4
    <3> QED BY <1>1, <2>1, <2>7, <2>8, <2>9, <3>1 DEF RelsRead, BeforeSymbols, Q
  <2> QED BY <1>13, <1>14, <2>3, <2>5, <2>10 DEF IInv
<1> QED
  BY <1>15, <1>16

\* At the end of the sections every element is filled.
LEMMA RelTablesReadStep == IInv /\ RelTablesRead => IInv'
<1> SUFFICES ASSUME IInv, RelTablesRead PROVE IInv'
  OBVIOUS
<1> DEFINE L == Len(file.sections)
<1>1. /\ pc = "relocations" /\ pc \in Reading /\ i > L /\ Skip("done") /\ pc' = "done"
      /\ pc \in AfterSymbols \ {"dynamic"} /\ pc' \in AfterSymbols \ {"dynamic"}
      /\ UNCHANGED <<file, heap, elf_file, symbol_table, symbols, rels, i, table>>
  BY DEF RelTablesRead, Skip, tables, Reading, BeforeSymbols, AfterSymbols
<1>2. L \in Nat /\ RelSections \in SUBSET (1 .. L) /\ i \in 1 .. L + 1
  BY SectionsAre DEF IInv, Cursors
<1>3. i = L + 1
  BY <1>1, <1>2
<1>4. /\ UpTo(rels, RelSections, i, table) /\ RelsFilled(table)
      /\ Len(rels) = Cardinality(RelSections)
  BY <1>1 DEF IInv, RelsRead
<1>5. RelSections' = RelSections /\ L' = L
  BY <1>1 DEF RelSections, SectionsOf
<1>6. table = Len(rels)
  BY <1>2, <1>3, <1>4, UpToEnd
<1> HIDE DEF L
<1>7. Cursors'
  BY <1>1, <1>5 DEF IInv, Cursors, Reading, L
<1>8. Accounts'
  BY <1>1, SkipStep DEF Reading
<1>9. Pending'
  BY <1>1 DEF Pending, BeforeSymbols
<1>10. SymbolsRead'
  BY <1>1, SymbolsKept
<1>11. RelsRead'
  <2>1. UpTo(rels', RelSections', L' + 1, Len(rels'))
    BY <1>1, <1>3, <1>4, <1>5, <1>6
  <2>2. RelsFilled(Len(rels))'
    BY <1>1, <1>4, <1>6 DEF RelsFilled
  <2> QED BY <1>1, <2>1, <2>2 DEF RelsRead, BeforeSymbols, L
<1> QED
  BY <1>7, <1>8, <1>9, <1>10, <1>11 DEF IInv
-----------------------------------------------------------------------------
(***************************************************************************)
(* Freeing everything.                                                     *)
(***************************************************************************)

\* free_elf_file follows the pointers that the accounts count.
LEMMA RefsAre ==
    ASSUME Typed(heap, elf_file, symbols, rels), NEW k
    PROVE  Refs(k) = Pointers(elf_file, symbols, rels, k) /\ Refs(k) \in Nat
<1>1. /\ FieldRefs(k) = Cardinality(Fields(elf_file, k))
      /\ SymbolRefs(symbols, k) = Cardinality(Symbols(symbols, k)) + Cardinality(Names(symbols, k))
      /\ RelRefs(rels, k) = Cardinality(Rels(rels, k))
  BY DEF FieldRefs, SymbolRefs, RelRefs, Fields, Symbols, Names, Rels
<1>2. Refs(k) = Pointers(elf_file, symbols, rels, k)
  BY <1>1 DEF Refs, Pointers
<1>3. Pointers(elf_file, symbols, rels, k) \in Nat
  BY CountTypes DEF Typed
<1> QED
  BY <1>2, <1>3

\* After it each buffer has been freed as often as it is accounted for.
LEMMA FreeElfFileIs ==
    ASSUME Typed(heap, elf_file, symbols, rels), NEW h, h = FreeElfFile
    PROVE  /\ h \in Seq(Nat) /\ Len(h) = Len(heap)
           /\ \A k \in 1 .. Len(heap) : h[k] = Account(heap, elf_file, symbols, rels, k)
<1> DEFINE n == [k \in DOMAIN heap |-> Refs(k)]
<1>1. heap \in Seq(Nat) /\ DOMAIN heap = 1 .. Len(heap)
  BY DEF Typed
<1>2. \A k \in 1 .. Len(heap) : n[k] = Refs(k) /\ n[k] \in Nat
  BY <1>1, RefsAre
<1>3. h = ElfFree(heap, n)
  BY DEF FreeElfFile
<1> HIDE DEF n
<1>4. /\ h \in Seq(Nat) /\ Len(h) = Len(heap)
      /\ \A k \in 1 .. Len(heap) : h[k] = heap[k] + n[k]
  BY <1>1, <1>2, <1>3, ElfFreeIs
<1>5. \A k \in 1 .. Len(heap) : h[k] = heap[k] + Pointers(elf_file, symbols, rels, k)
  BY <1>2, <1>4, RefsAre
<1> QED
  BY <1>4, <1>5 DEF Account

\* The error path of readelf frees every buffer that is not freed yet.
LEMMA FailStep == IInv /\ Fail => IInv'
<1> SUFFICES ASSUME IInv, Fail PROVE IInv'
  OBVIOUS
<1>1. /\ pc = "error" /\ pc' = "failed" /\ heap' = FreeElfFile /\ elf_file' = NullFile
      /\ symbol_table' = 0 /\ symbols' = << >> /\ rels' = << >> /\ UNCHANGED <<file, i, table>>
  BY DEF Fail
<1>2. /\ Typed(heap, elf_file, symbols, rels)
      /\ \A k \in 1 .. Len(heap) :
            Account(heap, elf_file, symbols, rels, k) = IF Dangling(k) THEN 2 ELSE 1
  BY <1>1 DEF IInv, Accounts
<1>3. /\ heap' \in Seq(Nat) /\ Len(heap') = Len(heap)
      /\ \A k \in 1 .. Len(heap) : heap'[k] = Account(heap, elf_file, symbols, rels, k)
  BY <1>1, <1>2, FreeElfFileIs
<1>4. \A k \in 1 .. Len(heap') : heap'[k] = 1 \/ Dangling(k)'
  <2> SUFFICES ASSUME NEW k \in 1 .. Len(heap') PROVE heap'[k] = 1 \/ Dangling(k)'
    OBVIOUS
  <2>1. heap'[k] = IF Dangling(k) THEN 2 ELSE 1
    BY <1>2, <1>3
  <2>2. Dangling(k) => Stripped'
    BY <1>1 DEF Dangling, Stripped, HasPhdr, SectionsOf
  <2> QED BY <1>1, <2>1, <2>2 DEF Dangling
<1>5. Typed(heap', elf_file', symbols', rels')
  <2>1. << >> \in Seq(SymbolTable) /\ << >> \in Seq(RelTable) /\ DOMAIN << >> = {}
    OBVIOUS
  <2>2. Len(heap') \in Nat
    BY <1>3
  <2>3. NullFile \in [Field -> 0 .. Len(heap')]
    BY <2>2 DEF NullFile, NULL
  <2> QED BY <1>1, <1>3, <2>1, <2>3 DEF Typed
<1>6. Accounts'
  BY <1>1, <1>4, <1>5 DEF Accounts
<1>7. Cursors'
  <2>1. symbol_table' \in 0 .. Len(symbols')
    BY <1>1
  <2> QED BY <1>1, <2>1 DEF IInv, Cursors
<1>8. Pending' /\ SymbolsRead' /\ RelsRead'
  BY <1>1 DEF Pending, SymbolsRead, RelsRead, BeforeSymbols, AfterSymbols
<1> QED
  BY <1>6, <1>7, <1>8 DEF IInv

\* free_elf_file, called by the owner of the file, frees every buffer.
LEMMA CloseStep == IInv /\ Close => IInv'
<1> SUFFICES ASSUME IInv, Close PROVE IInv'
  OBVIOUS
<1>1. /\ pc = "done" /\ pc \in Reading /\ pc' = "closed" /\ heap' = FreeElfFile
      /\ UNCHANGED <<file, elf_file, symbol_table, symbols, rels, i, table>>
  BY DEF Close, tables, Reading, AfterSymbols
<1>2. Balanced(heap, elf_file, symbols, rels) /\ Typed(heap, elf_file, symbols, rels)
  BY <1>1, ReadingBalanced
<1>3. /\ heap' \in Seq(Nat) /\ Len(heap') = Len(heap)
      /\ \A k \in 1 .. Len(heap) : heap'[k] = Account(heap, elf_file, symbols, rels, k)
  BY <1>1, <1>2, FreeElfFileIs
<1>4. \A k \in 1 .. Len(heap') : heap'[k] = 1
  BY <1>2, <1>3 DEF Balanced
<1>5. Typed(heap', elf_file', symbols', rels')
  BY <1>1, <1>2, <1>3 DEF Typed
<1>6. Accounts'
  BY <1>1, <1>4, <1>5 DEF Accounts
<1>7. Cursors'
  BY <1>1 DEF IInv, Cursors
<1>8. Pending' /\ SymbolsRead' /\ RelsRead'
  BY <1>1 DEF Pending, SymbolsRead, RelsRead, BeforeSymbols, AfterSymbols
<1> QED
  BY <1>6, <1>7, <1>8 DEF IInv

-----------------------------------------------------------------------------
(***************************************************************************)
(* The invariant holds, and what the runs check of readelf follows.        *)
(***************************************************************************)

\* readelf starts with an empty heap and no pointers.
LEMMA InitHolds == Init => IInv
<1> SUFFICES ASSUME Init PROVE IInv
  OBVIOUS
<1>1. /\ file \in Files /\ pc = "header" /\ heap = << >> /\ elf_file = NullFile
      /\ symbol_table = 0 /\ symbols = << >> /\ rels = << >> /\ i = 1 /\ table = 0
  BY DEF Init
<1>2. Balanced(heap, elf_file, symbols, rels)
  <2>1. /\ << >> \in Seq(SymbolTable) /\ << >> \in Seq(RelTable) /\ << >> \in Seq(Nat)
        /\ DOMAIN << >> = {} /\ Len(<< >>) = 0 /\ 1 .. 0 = {}
    OBVIOUS
  <2>2. NullFile \in [Field -> 0 .. 0]
    BY DEF NullFile, NULL
  <2> QED BY <1>1, <2>1, <2>2 DEF Balanced, Typed
<1>3. Accounts
  BY <1>1, <1>2 DEF Accounts, Balanced
<1>4. Cursors
  <2>1. Len(file.sections) \in Nat
    BY <1>1, SectionsAre
  <2>2. i \in 1 .. Len(file.sections) + 1 /\ table \in 0 .. Len(file.sections)
        /\ symbol_table \in 0 .. Len(symbols)
    BY <1>1, <2>1
  <2> QED BY <1>1, <2>2 DEF Cursors, Reading, BeforeSymbols
<1>5. Pending
  BY <1>1 DEF Pending, NullFile, Field, NULL
<1>6. SymbolsRead /\ RelsRead
  BY <1>1 DEF SymbolsRead, RelsRead, BeforeSymbols, AfterSymbols
<1> QED
  BY <1>3, <1>4, <1>5, <1>6 DEF IInv

\* Nothing changes after readelf has returned.
LEMMA StutterStep == IInv /\ UNCHANGED vars => IInv'
<1> SUFFICES ASSUME IInv, UNCHANGED vars PROVE IInv'
  OBVIOUS
<1> USE DEF vars
<1>1. Cursors'
  BY DEF IInv, Cursors
<1>2. Pending'
  BY DEF IInv, Pending
<1>3. Accounts'
  <2>1. \A k : Dangling(k)' <=> Dangling(k)
    BY DEF Dangling, Stripped, HasPhdr, SectionsOf
  <2> QED BY <2>1 DEF IInv, Accounts
<1>4. SymbolsRead'
  BY DEF IInv, SymbolsRead, SymbolsFilled, SymbolSections, SectionsOf, HasPhdr, IsDynsym
<1>5. RelsRead'
  BY DEF IInv, RelsRead, RelsFilled, RelSections, SectionsOf
<1> QED
  BY <1>1, <1>2, <1>3, <1>4, <1>5 DEF IInv

\* Every step of readelf and of its caller keeps the accounts, the cursors and
\* the tables filled so far.
LEMMA StepHolds == IInv /\ [Next]_vars => IInv'
  BY AllocHeaderStep, ReadProgramHeadersStep, ReadSectionsStep, ReadSectionNamesStep,
     ReadInterpreterStep, AllocSymbolTablesStep, ReadSymbolTableStep, SkipSectionStep,
     SymbolTablesReadStep, ReadDynamicStep, AllocRelTablesStep, ReadRelTableStep,
     RelTablesReadStep, FailStep, CloseStep, StutterStep
     DEF Next, Returned

\* readelf's pointers and cursors stay in range, and the accounts of its buffers
\* are right, for every set of files.
THEOREM ReadElfInvariant == Spec => []IInv /\ []TypeOK
<1>1. IInv => TypeOK
  BY TypesFollow
<1> QED
  BY <1>1, InitHolds, StepHolds, PTL DEF Spec

\* However many sections a file has and whichever calls of elf_alloc and elf_read
\* fail, every buffer is freed once or held by one pointer that free_elf_file
\* follows, but for the dynamic table of a stripped file.
THEOREM ReadElfOwnedOnce == Spec => []OwnedOnce
<1>1. ASSUME IInv PROVE OwnedOnce
  <2> SUFFICES ASSUME pc # "closed", NEW k \in DOMAIN heap
               PROVE  \/ heap[k] + Refs(k) = 1
                      \/ Stripped /\ k = elf_file["dynamic"] /\ pc = "error"
                      \/ Stripped /\ pc = "failed" /\ heap[k] = 2
    BY DEF OwnedOnce
  <2>1. Typed(heap, elf_file, symbols, rels)
    BY <1>1 DEF IInv, Accounts
  <2>2. k \in 1 .. Len(heap) /\ Len(heap) \in Nat
    BY <2>1 DEF Typed
  <2>3. heap[k] + Refs(k) = Account(heap, elf_file, symbols, rels, k)
    BY <2>1, RefsAre DEF Account
  <2>4. CASE pc = "error"
    <3>1. Account(heap, elf_file, symbols, rels, k) = IF Dangling(k) THEN 2 ELSE 1
      BY <1>1, <2>2, <2>4 DEF IInv, Accounts
    <3> QED BY <2>3, <2>4, <3>1 DEF Dangling
  <2>5. CASE pc = "failed"
    <3>1. /\ heap[k] = 1 \/ Dangling(k)
          /\ elf_file = NullFile /\ symbols = << >> /\ rels = << >>
      BY <1>1, <2>2, <2>5 DEF IInv, Accounts
    <3>2. Fields(elf_file, k) = {}
      BY <2>2, <3>1 DEF Fields, NullFile, NULL
    <3>3. Pointers(elf_file, symbols, rels, k) = 0
      <4>1. Symbols(symbols, k) = {} /\ Names(symbols, k) = {} /\ Rels(rels, k) = {}
        BY <3>1, EmptyArrays
      <4>2. Pointers(elf_file, symbols, rels, k) = (0 + (0 + 0)) + 0
        BY <3>2, <4>1, EmptyArrays DEF Pointers
      <4> QED BY <4>2
    <3>4. heap[k] = 1 => heap[k] + Refs(k) = 1
      BY <2>1, <3>3, RefsAre
    <3> QED BY <2>5, <3>1, <3>4 DEF Dangling
  <2>6. CASE pc \notin {"error", "failed"}
    BY <1>1, <2>2, <2>3, <2>6 DEF IInv, Accounts, Balanced
  <2> QED BY <2>4, <2>5, <2>6
<1> QED
  BY <1>1, ReadElfInvariant, PTL

\* Nothing is left allocated when readelf has failed or its caller has closed the
\* file: the error paths free all that the parts read so far have allocated.
THEOREM ReadElfNoLeak == Spec => []NoLeak
<1>1. ASSUME IInv PROVE NoLeak
  <2> SUFFICES ASSUME pc \in {"failed", "closed"}, NEW k \in DOMAIN heap PROVE heap[k] >= 1
    BY DEF NoLeak
  <2>1. k \in 1 .. Len(heap)
    BY <1>1 DEF IInv, Accounts, Typed
  <2>2. heap[k] = 1 \/ heap[k] = 2
    BY <1>1, <2>1 DEF IInv, Accounts, Dangling
  <2> QED BY <2>2
<1> QED
  BY <1>1, ReadElfInvariant, PTL

\* A file that is read without an error has all its symbol and relocation
\* sections, in the order of the file, and the symbols of its dynamic table.
THEOREM ReadElfDoneIsComplete == Spec => []DoneIsComplete
<1>1. ASSUME NEW a, NEW Q, NEW n, NEW m \in Nat, UpTo(a, Q, n + 1, m), n \in Nat,
             Q \subseteq 1 .. n, DOMAIN a = 1 .. m
      PROVE  /\ {a[t].section : t \in DOMAIN a} = Q
             /\ \A t, u \in DOMAIN a : t < u => a[t].section < a[u].section
  <2>1. \A q \in Q : q < n + 1
    BY <1>1
  <2> QED BY <1>1, <2>1 DEF UpTo
<1>2. ASSUME IInv PROVE DoneIsComplete
  <2> SUFFICES ASSUME pc = "done" PROVE DoneIsComplete
    BY DEF DoneIsComplete
  <2> DEFINE L == Len(file.sections)
  <2>1. /\ L \in Nat /\ SymbolSections \subseteq 1 .. L /\ RelSections \subseteq 1 .. L
    BY <1>2, SectionsAre DEF IInv, Cursors
  <2>2. /\ symbols \in Seq(SymbolTable) /\ rels \in Seq(RelTable)
    BY <1>2 DEF IInv, Accounts, Typed
  <2>3. /\ DOMAIN symbols = 1 .. Len(symbols) /\ Len(symbols) \in Nat
        /\ DOMAIN rels = 1 .. Len(rels) /\ Len(rels) \in Nat
    BY <2>2
  <2>4. /\ UpTo(symbols, SymbolSections, L + 1, Len(symbols)) /\ SymbolsFilled(Len(symbols))
        /\ UpTo(rels, RelSections, L + 1, Len(rels)) /\ RelsFilled(Len(rels))
        /\ HasPhdr("PT_DYNAMIC") => symbol_table # 0 /\ IsDynsym(symbol_table)
    BY <1>2 DEF IInv, SymbolsRead, RelsRead, AfterSymbols
  <2> HIDE DEF L
  <2>5. /\ {symbols[t].section : t \in DOMAIN symbols} = SymbolSections
        /\ \A t, u \in DOMAIN symbols : t < u => symbols[t].section < symbols[u].section
    BY <1>1, <2>1, <2>3, <2>4
  <2>6. /\ {rels[t].section : t \in DOMAIN rels} = RelSections
        /\ \A t, u \in DOMAIN rels : t < u => rels[t].section < rels[u].section
    BY <1>1, <2>1, <2>3, <2>4
  <2>7. /\ \A t \in DOMAIN symbols : symbols[t].symbols # NULL /\ symbols[t].names # NULL
        /\ \A t \in DOMAIN rels : rels[t].relocations # NULL
    BY <2>3, <2>4 DEF SymbolsFilled, RelsFilled
  <2> QED BY <2>4, <2>5, <2>6, <2>7 DEF DoneIsComplete
<1> QED
  BY <1>2, ReadElfInvariant, PTL
=============================================================================
