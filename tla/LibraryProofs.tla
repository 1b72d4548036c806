---------------------------- MODULE LibraryProofs ----------------------------
(***************************************************************************)
(* The string functions do what C says of them, for a memory of any size   *)
(* with any bytes in it and every call the standard allows, but for        *)
(* strncpy's of a source that does not fit: the invariants of their loops. *)
(* And generic_printf writes the text of any format once and in order.     *)
(***************************************************************************)
EXTENDS MCLibrary, LeastNatural

-----------------------------------------------------------------------------
(***************************************************************************)
(* Lengths, areas and differences.                                         *)
(***************************************************************************)
\* Min of a set of naturals is its least element.
LEMMA MinOf ==
    ASSUME NEW X \in SUBSET Nat, X # {}
    PROVE  S!Min(X) \in X /\ \A x \in X : S!Min(X) <= x
<1>1. \E m \in X : \A x \in X : m <= x
  BY LeastElement
<1> QED BY <1>1 DEF S!Min

\* That of two is the smaller.
LEMMA MinOfTwo ==
    ASSUME NEW x \in Nat, NEW y \in Nat
    PROVE  S!Min({x, y}) = IF x <= y THEN x ELSE y
<1>1. S!Min({x, y}) \in {x, y} /\ S!Min({x, y}) <= x /\ S!Min({x, y}) <= y
  BY MinOf
<1> QED BY <1>1

\* A string of l characters lies at a.
TextAt(m, a, l) ==
    /\ l \in Nat /\ a + l \in S!Addr /\ m[a + l] = 0
    /\ \A h \in 0 .. l - 1 : m[a + h] # 0

\* strlen finds its end.
LEMMA StrlenIs ==
    ASSUME NEW m \in [S!Addr -> Byte], NEW a \in S!Addr, \E b \in S!Addr : b >= a /\ m[b] = 0
    PROVE  TextAt(m, a, S!strlen(m, a))
<1> DEFINE E == {k \in 0 .. MemSize - 1 - a : m[a + k] = 0}
           l == S!Min(E)
<1>1. MemSize \in Nat /\ a \in 0 .. MemSize - 1
  BY LibraryAssumption DEF S!Addr
<1>2. E \in SUBSET Nat
  BY <1>1
<1>3. E # {}
  <2>1. PICK b \in S!Addr : b >= a /\ m[b] = 0
    OBVIOUS
  <2>2. b \in 0 .. MemSize - 1
    BY <2>1 DEF S!Addr
  <2>3. b - a \in 0 .. MemSize - 1 - a /\ a + (b - a) = b
    BY <1>1, <2>1, <2>2
  <2>4. m[a + (b - a)] = 0
    BY <2>1, <2>3
  <2> QED BY <2>3, <2>4
<1> HIDE DEF E
<1>4. l \in E /\ \A x \in E : l <= x
  BY <1>2, <1>3, MinOf
<1> HIDE DEF l
<1>5. l \in 0 .. MemSize - 1 - a /\ m[a + l] = 0
  BY <1>4 DEF E
<1>6. l \in Nat /\ a + l \in S!Addr
  BY <1>1, <1>5 DEF S!Addr
<1>7. \A h \in 0 .. l - 1 : m[a + h] # 0
  <2> SUFFICES ASSUME NEW h \in 0 .. l - 1, m[a + h] = 0 PROVE FALSE
    OBVIOUS
  <2>1. h \in 0 .. MemSize - 1 - a
    BY <1>1, <1>5
  <2>2. h \in E
    BY <2>1 DEF E
  <2>3. l <= h
    BY <1>4, <2>2
  <2> QED BY <1>6, <2>3
<1>8. S!strlen(m, a) = l
  BY DEF S!strlen, l, E
<1> QED BY <1>5, <1>6, <1>7, <1>8 DEF TextAt

\* The lengths of the strings at the two arguments of call c.
LenP(c) == S!strlen(c.mem, c.p)
LenQ(c) == S!strlen(c.mem, c.q)

\* Fields, and what each function may rely on.
LEMMA CallFacts ==
    ASSUME NEW c \in S!Calls
    PROVE  /\ c.fn \in S!Functions /\ c.p \in S!Addr /\ c.q \in S!Addr
           /\ c.p \in Nat /\ c.q \in Nat /\ c.n \in Nat /\ c.n <= MemSize
           /\ c.c \in Fill /\ c.mem \in [S!Addr -> Byte]
           /\ c.fn \in {"memset", "memmove", "memcmp", "strncpy", "safestrcpy"} =>
                 \A k \in 0 .. c.n - 1 : c.p + k \in S!Addr
           /\ c.fn \in {"memmove", "memcmp"} => \A k \in 0 .. c.n - 1 : c.q + k \in S!Addr
           /\ c.fn \in {"strncpy", "safestrcpy"} =>
                 /\ TextAt(c.mem, c.q, LenQ(c))
                 /\ \A h \in 0 .. LenQ(c), k \in 0 .. c.n - 1 : c.q + h # c.p + k
           /\ c.fn \in {"strncmp", "strcmp", "StartsWith"} =>
                 TextAt(c.mem, c.p, LenP(c)) /\ TextAt(c.mem, c.q, LenQ(c))
<1>1. /\ c.fn \in S!Functions /\ c.p \in S!Addr /\ c.q \in S!Addr /\ c.n \in 0 .. MemSize
      /\ c.c \in Fill /\ c.mem \in [S!Addr -> Byte] /\ S!Allowed(c)
  BY DEF S!Calls
<1>2. c.p \in Nat /\ c.q \in Nat /\ c.n \in Nat /\ c.n <= MemSize
  BY <1>1, LibraryAssumption DEF S!Addr
<1>3. ASSUME NEW a \in Nat, S!Area(a, c.n) \subseteq S!Addr
      PROVE  \A k \in 0 .. c.n - 1 : a + k \in S!Addr
  <2> SUFFICES ASSUME NEW k \in 0 .. c.n - 1 PROVE a + k \in S!Area(a, c.n)
    BY <1>3
  <2> QED BY <1>2, <1>3 DEF S!Area
<1>4. c.fn \in {"memset", "memmove", "memcmp", "strncpy", "safestrcpy"} =>
         \A k \in 0 .. c.n - 1 : c.p + k \in S!Addr
  <2>1. c.fn \in {"memset", "memmove", "memcmp", "strncpy", "safestrcpy"} =>
           S!Area(c.p, c.n) \subseteq S!Addr
    BY <1>1 DEF S!Allowed
  <2> QED BY <1>2, <1>3, <2>1
<1>5. c.fn \in {"memmove", "memcmp"} => \A k \in 0 .. c.n - 1 : c.q + k \in S!Addr
  <2>1. c.fn \in {"memmove", "memcmp"} => S!Area(c.q, c.n) \subseteq S!Addr
    BY <1>1 DEF S!Allowed
  <2> QED BY <1>2, <1>3, <2>1
<1>6. ASSUME c.fn \in {"strncpy", "safestrcpy"}
      PROVE  /\ TextAt(c.mem, c.q, LenQ(c))
             /\ \A h \in 0 .. LenQ(c), k \in 0 .. c.n - 1 : c.q + h # c.p + k
  <2>1. /\ \E b \in S!Addr : b >= c.q /\ c.mem[b] = 0
        /\ S!Area(c.q, S!strlen(c.mem, c.q) + 1) \cap S!Area(c.p, c.n) = {}
    BY <1>1, <1>6 DEF S!Allowed
  <2>2. TextAt(c.mem, c.q, LenQ(c))
    BY <1>1, <2>1, StrlenIs DEF LenQ
  <2>3. LenQ(c) \in Nat
    BY <2>2 DEF TextAt
  <2>4. ASSUME NEW h \in 0 .. LenQ(c), NEW k \in 0 .. c.n - 1 PROVE c.q + h # c.p + k
    <3>1. c.q + h \in S!Area(c.q, LenQ(c) + 1) /\ c.p + k \in S!Area(c.p, c.n)
      BY <1>2, <2>3 DEF S!Area
    <3> QED BY <2>1, <3>1 DEF LenQ
  <2> QED BY <2>2, <2>4
<1>7. ASSUME c.fn \in {"strncmp", "strcmp", "StartsWith"}
      PROVE  TextAt(c.mem, c.p, LenP(c)) /\ TextAt(c.mem, c.q, LenQ(c))
  <2>1. /\ \E b \in S!Addr : b >= c.p /\ c.mem[b] = 0
        /\ \E b \in S!Addr : b >= c.q /\ c.mem[b] = 0
    BY <1>1, <1>7 DEF S!Allowed
  <2> QED BY <1>1, <2>1, StrlenIs DEF LenP, LenQ
<1> QED BY <1>1, <1>2, <1>4, <1>5, <1>6, <1>7

\* A count that is not zero is decremented without a wrap.
LEMMA Decremented ==
    ASSUME NEW x \in Nat, 0 < x, x <= MemSize PROVE (x - 1) % SIZE_T = x - 1
<1>1. MemSize \in Nat /\ SIZE_T \in Nat /\ SIZE_T > 2 * MemSize
  BY LibraryAssumption
<1>2. \A y \in Nat, z \in Nat : y < z => y % z = y
  OBVIOUS
<1>3. x - 1 \in Nat /\ x - 1 < SIZE_T
  BY <1>1
<1> QED BY <1>1, <1>2, <1>3

\* The first k bytes of the arguments are the same; the first k of the first one
\* are not its end.
Equal(c, k) == \A h \in 0 .. k - 1 : c.mem[c.p + h] = c.mem[c.q + h]
Running(c, k) == \A h \in 0 .. k - 1 : c.mem[c.p + h] # 0

\* The difference is that of the first bytes that differ.
LEMMA DifferenceIs ==
    ASSUME NEW k \in Nat
    PROVE  /\ Equal(call, k) => S!Difference(k) = 0
           /\ \A h \in 0 .. k - 1 :
                 Equal(call, h) /\ call.mem[call.p + h] # call.mem[call.q + h] =>
                    S!Difference(k) = call.mem[call.p + h] - call.mem[call.q + h]
<1> DEFINE D == S!Differ(k)
<1>1. D = {h \in 0 .. k - 1 : call.mem[call.p + h] # call.mem[call.q + h]}
  BY DEF S!Differ, S!p, S!q
<1>2. S!Difference(k) = IF D = {} THEN 0
                        ELSE call.mem[call.p + S!Min(D)] - call.mem[call.q + S!Min(D)]
  BY DEF S!Difference, S!p, S!q
<1>3. Equal(call, k) => D = {}
  BY <1>1 DEF Equal
<1>4. ASSUME NEW h \in 0 .. k - 1, Equal(call, h), call.mem[call.p + h] # call.mem[call.q + h]
      PROVE  D # {} /\ S!Min(D) = h
  <2>1. h \in D /\ D \in SUBSET Nat
    BY <1>1, <1>4
  <2> HIDE DEF D
  <2>2. S!Min(D) \in D /\ S!Min(D) <= h
    BY <2>1, MinOf
  <2> DEFINE x == S!Min(D)
  <2>3. x \in 0 .. k - 1 /\ call.mem[call.p + x] # call.mem[call.q + x] /\ x <= h
    BY <1>1, <2>2
  <2> HIDE DEF x
  <2>4. ~(x < h)
    BY <1>4, <2>3 DEF Equal
  <2>5. x = h
    BY <2>3, <2>4
  <2> QED BY <2>1, <2>5 DEF x
<1> HIDE DEF D
<1> QED BY <1>2, <1>3, <1>4

\* It does not change during a call.
LEMMA DifferenceKept ==
    ASSUME call' = call, NEW k PROVE S!Difference(k)' = S!Difference(k)
  BY DEF S!Difference, S!Differ, S!p, S!q

-----------------------------------------------------------------------------
(***************************************************************************)
(* The loops.                                                              *)
(***************************************************************************)
\* Memory m at the offsets D of dst: it has the bytes src had, or zeros, and
\* nothing else has changed.
Taken(c, m, D) == \A k \in D : m[c.p + k] = c.mem[c.q + k]
Zeros(c, m, D) == \A k \in D : m[c.p + k] = 0
Only(c, m, D) == \A a \in S!Addr : a - c.p \notin D => m[a] = c.mem[a]

\* The offsets memmove has copied after k iterations, and the count strncmp is
\* given, by its caller or by strcmp.
Reaches(c) == c.q < c.p /\ c.q + c.n > c.p
Moved(c, k) == IF Reaches(c) THEN c.n - k .. c.n - 1 ELSE 0 .. k - 1
Limit(c) == IF c.fn = "strncmp" THEN c.n ELSE LenP(c) + 1

\* Each loop of call c in memory m, after k iterations and with x left.
Setting(c, m, k, x) == c.fn = "memset" /\ m = c.mem /\ k = 0 /\ x = c.n
Comparing(c, m, k, x) ==
    c.fn = "memcmp" /\ m = c.mem /\ k <= c.n /\ x = c.n - k /\ Equal(c, k)
Moving(c, m, k, x) ==
    /\ c.fn = "memmove" /\ k <= c.n /\ x = c.n - k
    /\ Taken(c, m, Moved(c, k)) /\ Only(c, m, Moved(c, k))
Entering(c, m, k, x) == c.fn = "strcmp" /\ m = c.mem /\ k = 0
ComparingText(c, m, k, x) ==
    /\ c.fn \in {"strncmp", "strcmp"} /\ m = c.mem /\ k <= Limit(c) /\ x = Limit(c) - k
    /\ Equal(c, k) /\ Running(c, k)
CopyingText(c, m, k, x) ==
    /\ c.fn = "strncpy" /\ LenQ(c) < c.n /\ k <= LenQ(c) /\ x = c.n - k
    /\ Taken(c, m, 0 .. k - 1) /\ Only(c, m, 0 .. k - 1)
Padding(c, m, k, x) ==
    /\ c.fn = "strncpy" /\ LenQ(c) < k /\ k <= c.n /\ x = c.n - k
    /\ Taken(c, m, 0 .. LenQ(c)) /\ Zeros(c, m, LenQ(c) .. k - 1) /\ Only(c, m, 0 .. k - 1)
CopyingSafely(c, m, k, x) ==
    /\ c.fn = "safestrcpy" /\ k <= LenQ(c) /\ x = c.n - k /\ (k = 0 \/ k < c.n)
    /\ Taken(c, m, 0 .. k - 1) /\ Only(c, m, 0 .. k - 1)
Terminating(c, m, k, x) ==
    /\ c.fn = "safestrcpy" /\ k < c.n /\ (k = LenQ(c) + 1 \/ (k = c.n - 1 /\ k <= LenQ(c)))
    /\ Taken(c, m, 0 .. k - 1) /\ Only(c, m, 0 .. k - 1)
Matching(c, m, k, x) ==
    c.fn = "StartsWith" /\ m = c.mem /\ Equal(c, k) /\ Running(c, k)

\* In each loop its invariant holds, and at the end what C says.
LoopInv ==
    /\ call \in S!Calls /\ mem \in [S!Addr -> Byte] /\ i \in Nat
    /\ pc \in S!Functions \cup {"padding", "terminate", "done"}
    /\ pc = "memset" => Setting(call, mem, i, n)
    /\ pc = "memcmp" => Comparing(call, mem, i, n)
    /\ pc = "memmove" => Moving(call, mem, i, n)
    /\ pc = "strcmp" => Entering(call, mem, i, n)
    /\ pc = "strncmp" => ComparingText(call, mem, i, n)
    /\ pc = "strncpy" => CopyingText(call, mem, i, n)
    /\ pc = "padding" => Padding(call, mem, i, n)
    /\ pc = "safestrcpy" => CopyingSafely(call, mem, i, n)
    /\ pc = "terminate" => Terminating(call, mem, i, n)
    /\ pc = "StartsWith" => Matching(call, mem, i, n)
    /\ pc = "done" => S!OutsideUntouched /\ S!CopiesExact /\ S!ComparesUnsigned

\* What is written at offsets below n is written in dst.
LEMMA OnlyInside ==
    ASSUME call \in S!Calls, NEW D \in SUBSET (0 .. call.n - 1), Only(call, mem, D),
           call.fn \in {"memset", "memmove", "strncpy", "safestrcpy"}
    PROVE  S!OutsideUntouched
<1> SUFFICES ASSUME NEW a \in S!Addr, mem[a] # call.mem[a] PROVE a \in S!Area(call.p, call.n)
  BY DEF S!OutsideUntouched, S!p
<1>1. a - call.p \in 0 .. call.n - 1
  BY DEF Only
<1>2. call.p \in Nat /\ call.n \in Nat /\ a \in Nat
  BY CallFacts, LibraryAssumption DEF S!Addr
<1> QED BY <1>1, <1>2 DEF S!Area

\* One more byte is written, at offset k: the others stay.
LEMMA OtherBytes ==
    ASSUME NEW c \in S!Calls, NEW m, NEW k \in Nat, NEW v, NEW D \in SUBSET Nat, k \notin D
    PROVE  /\ \A x \in D : [m EXCEPT ![c.p + k] = v][c.p + x] = m[c.p + x]
           /\ Taken(c, m, D) => Taken(c, [m EXCEPT ![c.p + k] = v], D)
           /\ Zeros(c, m, D) => Zeros(c, [m EXCEPT ![c.p + k] = v], D)
<1> DEFINE m2 == [m EXCEPT ![c.p + k] = v]
<1>1. c.p \in Nat
  BY CallFacts
<1>2. \A x \in D : m2[c.p + x] = m[c.p + x]
  <2> SUFFICES ASSUME NEW x \in D PROVE m2[c.p + x] = m[c.p + x]
    OBVIOUS
  <2>1. x \in Nat /\ x # k
    OBVIOUS
  <2>2. c.p + x # c.p + k
    BY <1>1, <2>1
  <2> QED BY <2>2
<1> HIDE DEF m2
<1>3. Taken(c, m, D) => Taken(c, m2, D)
  BY <1>2 DEF Taken
<1>4. Zeros(c, m, D) => Zeros(c, m2, D)
  BY <1>2 DEF Zeros
<1> QED BY <1>2, <1>3, <1>4 DEF m2

\* One more byte is written inside the memory, at offset k: with it, D is all that has
\* changed.
LEMMA OneMore ==
    ASSUME NEW c \in S!Calls, NEW m \in [S!Addr -> Byte], NEW k \in Nat, NEW v \in Byte,
           NEW D \in SUBSET Nat, c.p + k \in S!Addr
    PROVE  /\ Only(c, m, D) => Only(c, [m EXCEPT ![c.p + k] = v], D \cup {k})
           /\ [m EXCEPT ![c.p + k] = v] \in [S!Addr -> Byte]
           /\ [m EXCEPT ![c.p + k] = v][c.p + k] = v
<1> DEFINE m2 == [m EXCEPT ![c.p + k] = v]
<1>1. c.p \in Nat
  BY CallFacts
<1>2. m2 \in [S!Addr -> Byte] /\ m2[c.p + k] = v
  OBVIOUS
<1>3. ASSUME Only(c, m, D) PROVE Only(c, m2, D \cup {k})
  <2> SUFFICES ASSUME NEW a \in S!Addr, a - c.p \notin D \cup {k} PROVE m2[a] = c.mem[a]
    BY DEF Only
  <2>1. a \in Nat
    BY LibraryAssumption DEF S!Addr
  <2>2. a # c.p + k
    BY <1>1, <2>1
  <2> QED BY <1>3, <2>2 DEF Only
<1> QED BY <1>2, <1>3

\* Comparisons write nothing.
LEMMA NothingWritten ==
    (call.fn \in {"memcmp", "strncmp", "strcmp", "StartsWith"} /\ mem = call.mem =>
        S!OutsideUntouched /\ S!CopiesExact)'
<1>1. ASSUME call.fn \in {"memcmp", "strncmp", "strcmp", "StartsWith"}, mem = call.mem
      PROVE  S!OutsideUntouched /\ S!CopiesExact
  <2>1. S!OutsideUntouched
    BY <1>1 DEF S!OutsideUntouched
  <2>2. S!CopiesExact
    BY <1>1 DEF S!CopiesExact
  <2> QED BY <2>1, <2>2
<1> QED BY <1>1, PTL

\* The same bytes, one further.
LEMMA OneFurther ==
    ASSUME NEW c, NEW k \in Nat
    PROVE  /\ Equal(c, k) /\ c.mem[c.p + k] = c.mem[c.q + k] => Equal(c, k + 1)
           /\ Running(c, k) /\ c.mem[c.p + k] # 0 => Running(c, k + 1)
<1>1. \A x : x \in 0 .. (k + 1) - 1 <=> x \in 0 .. k - 1 \/ x = k
  OBVIOUS
<1> QED BY <1>1 DEF Equal, Running

\* Bytes are read as they are.
LEMMA Unsigned == \A b \in Byte : S!AsUnsigned(b) = b /\ b \in Nat
  BY LibraryAssumption DEF S!AsUnsigned

\* memset, in one step.
LEMMA MemsetKeeps == ASSUME LoopInv, S!memset PROVE LoopInv'
<1>1. /\ call \in S!Calls /\ mem \in [S!Addr -> Byte] /\ i \in Nat /\ Setting(call, mem, i, n)
      /\ pc' = "done" /\ UNCHANGED <<call, i, n>>
  BY DEF LoopInv, S!memset
<1>2. /\ call.fn = "memset" /\ mem = call.mem /\ n = call.n /\ n \in Nat /\ call.p \in Nat
      /\ call.c \in Fill
  BY <1>1, CallFacts DEF Setting
<1> DEFINE v == call.c % 256
<1>3. v \in Byte
  BY <1>2, LibraryAssumption
<1> HIDE DEF v
<1>4. \A a \in S!Addr : mem'[a] = IF a \in S!Area(call.p, n) THEN v ELSE mem[a]
  <2>1. CASE call.p % 4 = 0 /\ n % 4 = 0
    <3>1. mem' = S!Stos(call.p, [k \in 0 .. 3 |-> v], 4, n \div 4)
      BY <2>1 DEF S!memset, S!p, v
    <3>2. 4 * (n \div 4) = n
      BY <1>2, <2>1
    <3>3. \A a \in S!Addr : a \in Nat
      BY LibraryAssumption DEF S!Addr
    <3>4. \A a \in S!Addr : [k \in 0 .. 3 |-> v][(a - call.p) % 4] = v
      <4>1. \A x \in Int : x % 4 \in 0 .. 3
        OBVIOUS
      <4> QED BY <1>2, <3>3, <4>1
    <3> QED BY <3>1, <3>2, <3>4 DEF S!Stos
  <2>2. CASE ~(call.p % 4 = 0 /\ n % 4 = 0)
    <3>1. mem' = S!Stos(call.p, [k \in {0} |-> v], 1, n)
      BY <2>2 DEF S!memset, S!p, v
    <3>2. 1 * n = n
      BY <1>2
    <3>3. \A a \in S!Addr : a \in Nat
      BY LibraryAssumption DEF S!Addr
    <3>4. \A a \in S!Addr : [k \in {0} |-> v][(a - call.p) % 1] = v
      <4>1. \A x \in Int : x % 1 = 0
        OBVIOUS
      <4> QED BY <1>2, <3>3, <4>1
    <3> QED BY <3>1, <3>2, <3>4 DEF S!Stos
  <2> QED BY <2>1, <2>2
<1>5. mem' \in [S!Addr -> Byte]
  <2>1. DOMAIN mem' = S!Addr /\ mem' = [a \in S!Addr |-> mem'[a]]
    BY DEF S!memset, S!Stos
  <2>2. \A a \in S!Addr : mem'[a] \in Byte
    BY <1>1, <1>3, <1>4
  <2> QED BY <2>1, <2>2
<1>6. S!OutsideUntouched'
  BY <1>1, <1>2, <1>4 DEF S!OutsideUntouched, S!p
<1>7. S!CopiesExact'
  <2>1. \A a \in S!Area(call.p, call.n) : mem'[a] = v
    <3>1. \A a \in S!Area(call.p, call.n) : a \in S!Addr
      <4> SUFFICES ASSUME NEW a \in S!Area(call.p, call.n) PROVE a \in S!Addr
        OBVIOUS
      <4>1. a - call.p \in 0 .. call.n - 1 /\ call.p + (a - call.p) = a
        BY <1>2 DEF S!Area
      <4> QED BY <1>1, <1>2, <4>1, CallFacts
    <3> QED BY <1>2, <1>4, <3>1
  <2> QED BY <1>1, <1>2, <2>1 DEF S!CopiesExact, S!p, v
<1>8. S!ComparesUnsigned'
  BY <1>1, <1>2 DEF S!ComparesUnsigned
<1> QED BY <1>1, <1>5, <1>6, <1>7, <1>8 DEF LoopInv

\* memcmp: the bytes passed are the same.
LEMMA MemcmpKeeps == ASSUME LoopInv, S!memcmp PROVE LoopInv'
<1>1. /\ call \in S!Calls /\ mem \in [S!Addr -> Byte] /\ i \in Nat
      /\ Comparing(call, mem, i, n) /\ UNCHANGED <<call, mem>> /\ n' = (n - 1) % SIZE_T
  BY DEF LoopInv, S!memcmp, S!Return, S!ReturnDifference, S!Advance, S!Decrement
<1>2. /\ call.fn = "memcmp" /\ mem = call.mem /\ n = call.n - i /\ i <= call.n /\ call.n \in Nat
      /\ call.n <= MemSize /\ Equal(call, i) /\ MemSize \in Nat
  BY <1>1, CallFacts, LibraryAssumption DEF Comparing
<1>3. CASE n > 0 /\ mem[S!p + i] = mem[S!q + i] /\ S!Advance /\ UNCHANGED <<mem, pc>>
  <2>1. n' = n - 1 /\ i' = i + 1 /\ pc' = "memcmp"
    <3>1. n \in Nat /\ 0 < n /\ n <= MemSize
      BY <1>1, <1>2, <1>3
    <3> QED BY <1>1, <1>3, <3>1, Decremented DEF S!memcmp, S!Advance
  <2>2. Equal(call, i + 1)
    BY <1>1, <1>2, <1>3, OneFurther DEF S!p, S!q
  <2>3. Comparing(call', mem', i', n')
    BY <1>1, <1>2, <1>3, <2>1, <2>2 DEF Comparing
  <2>4. i' \in Nat
    BY <1>1, <2>1
  <2> QED BY <1>1, <2>1, <2>3, <2>4 DEF LoopInv, S!Functions
<1>4. CASE pc' = "done" /\ ret' = S!Difference(call.n) /\ i' = i
  <2>1. S!OutsideUntouched' /\ S!CopiesExact'
    <3>1. call'.fn \in {"memcmp", "strncmp", "strcmp", "StartsWith"} /\ mem' = call'.mem
      BY <1>1, <1>2
    <3> QED BY <3>1, NothingWritten
  <2>2. S!ComparesUnsigned'
    <3>1. S!Difference(call.n)' = S!Difference(call.n)
      BY <1>1, DifferenceKept
    <3> QED BY <1>1, <1>2, <1>4, <3>1 DEF S!ComparesUnsigned
  <2> QED BY <1>1, <1>4, <2>1, <2>2 DEF LoopInv
<1>5. CASE n = 0 /\ S!Return(0)
  <2>1. i = call.n
    BY <1>1, <1>2, <1>5
  <2>2. S!Difference(call.n) = 0
    BY <1>2, <2>1, DifferenceIs
  <2> QED BY <1>4, <1>5, <2>2 DEF S!Return
<1>6. CASE n > 0 /\ mem[S!p + i] # mem[S!q + i] /\ S!ReturnDifference
  <2>1. i \in 0 .. call.n - 1
    BY <1>1, <1>2, <1>6
  <2>2. S!Difference(call.n) = call.mem[call.p + i] - call.mem[call.q + i]
    BY <1>2, <1>6, <2>1, DifferenceIs DEF S!p, S!q
  <2>3. call.p + i \in S!Addr /\ call.q + i \in S!Addr
    BY <1>1, <1>2, <2>1, CallFacts
  <2>4. ret' = call.mem[call.p + i] - call.mem[call.q + i] /\ pc' = "done" /\ i' = i
    BY <1>1, <1>2, <1>6, <2>3, Unsigned DEF S!ReturnDifference, S!Return, S!p, S!q
  <2> QED BY <1>4, <2>2, <2>4
<1> QED BY <1>3, <1>5, <1>6 DEF S!memcmp

\* memmove reads bytes it has not yet written, from whichever end it copies.
LEMMA MemmoveKeeps == ASSUME LoopInv, S!memmove PROVE LoopInv'
<1> DEFINE c == call
           D == Moved(c, i)
           k == IF S!Backward THEN call.n - 1 - i ELSE i
<1>1. /\ c \in S!Calls /\ mem \in [S!Addr -> Byte] /\ i \in Nat
      /\ Moving(c, mem, i, n) /\ UNCHANGED call /\ n' = (n - 1) % SIZE_T
  BY DEF LoopInv, S!memmove, S!Return, S!Advance, S!Decrement
<1>2. /\ c.fn = "memmove" /\ n = c.n - i /\ i <= c.n /\ c.n \in Nat /\ c.n <= MemSize
      /\ MemSize \in Nat /\ c.p \in Nat /\ c.q \in Nat
      /\ Taken(c, mem, D) /\ Only(c, mem, D)
  BY <1>1, CallFacts, LibraryAssumption DEF Moving
<1>3. S!Backward <=> Reaches(c)
  BY DEF S!Backward, Reaches, S!p, S!q
<1>4. D \in SUBSET (0 .. c.n - 1) /\ D \in SUBSET Nat
  BY <1>1, <1>2 DEF Moved
<1>5. CASE n > 0 /\ mem' = [mem EXCEPT ![S!p + k] = mem[S!q + k]] /\ S!Advance /\ pc' = pc
  <2>1. n' = n - 1 /\ i' = i + 1 /\ pc' = "memmove"
    <3>1. n \in Nat /\ 0 < n /\ n <= MemSize
      BY <1>1, <1>2, <1>5
    <3> QED BY <1>1, <1>5, <3>1, Decremented DEF S!memmove, S!Advance
  <2>2. k \in 0 .. c.n - 1 /\ k \in Nat /\ k \notin D /\ Moved(c, i + 1) = D \cup {k}
    <3>1. CASE Reaches(c)
      <4>1. D = c.n - i .. c.n - 1 /\ k = c.n - 1 - i /\ Moved(c, i + 1) = c.n - (i + 1) .. c.n - 1
        BY <1>3, <3>1 DEF Moved
      <4> HIDE DEF D, k
      <4>2. c.n \in Nat /\ i \in Nat /\ i < c.n
        BY <1>1, <1>2, <1>5
      <4>3. k \in 0 .. c.n - 1 /\ k \in Nat /\ k \notin D
        BY <4>1, <4>2
      <4>4. \A x : x \in c.n - (i + 1) .. c.n - 1 <=> x \in c.n - i .. c.n - 1 \/ x = k
        BY <4>1, <4>2
      <4> QED BY <4>1, <4>3, <4>4
    <3>2. CASE ~Reaches(c)
      <4>1. D = 0 .. i - 1 /\ k = i /\ Moved(c, i + 1) = 0 .. (i + 1) - 1
        BY <1>3, <3>2 DEF Moved
      <4> HIDE DEF D, k
      <4> QED BY <1>1, <1>2, <1>5, <4>1
    <3> QED BY <3>1, <3>2
  <2>3. (c.q + k) - c.p \notin D
    <3>1. c.q \in Nat /\ c.p \in Nat /\ c.n \in Nat /\ i \in Nat /\ i < c.n
      BY <1>1, <1>2, <1>5
    <3>2. CASE Reaches(c)
      <4>1. D = c.n - i .. c.n - 1 /\ k = c.n - 1 - i /\ c.q < c.p
        BY <1>3, <3>2 DEF Moved, Reaches
      <4> HIDE DEF D, k
      <4>2. (c.q + k) - c.p < c.n - i
        BY <3>1, <4>1
      <4> QED BY <3>1, <4>1, <4>2
    <3>3. CASE ~Reaches(c)
      <4>1. D = 0 .. i - 1 /\ k = i /\ ~(c.q < c.p /\ c.q + c.n > c.p)
        BY <1>3, <3>3 DEF Moved, Reaches
      <4> HIDE DEF D, k
      <4>2. (c.q + k) - c.p < 0 \/ (c.q + k) - c.p >= i
        BY <3>1, <4>1
      <4> QED BY <3>1, <4>1, <4>2
    <3> QED BY <3>2, <3>3
  <2> HIDE DEF D, k
  <2>4. c.p + k \in S!Addr /\ c.q + k \in S!Addr
    BY <1>1, <1>2, <2>2, CallFacts
  <2>5. mem[c.q + k] = c.mem[c.q + k] /\ mem[c.q + k] \in Byte
    BY <1>1, <1>2, <2>3, <2>4 DEF Only
  <2>6. mem' = [mem EXCEPT ![c.p + k] = mem[c.q + k]]
    BY <1>5 DEF S!p, S!q
  <2>7. /\ Only(c, mem', D \cup {k}) /\ Taken(c, mem', D) /\ mem' \in [S!Addr -> Byte]
        /\ mem'[c.p + k] = mem[c.q + k]
    BY <1>1, <1>2, <1>4, <2>2, <2>4, <2>5, <2>6, OneMore, OtherBytes
  <2>8. Taken(c, mem', D \cup {k})
    BY <2>5, <2>7 DEF Taken
  <2>9. Moving(call', mem', i', n')
    <3>1. i + 1 <= c.n /\ n - 1 = c.n - (i + 1)
      BY <1>1, <1>2, <1>5
    <3>2. Taken(c, mem', Moved(c, i + 1)) /\ Only(c, mem', Moved(c, i + 1))
      BY <2>2, <2>7, <2>8
    <3> QED BY <1>1, <1>2, <2>1, <3>1, <3>2 DEF Moving
  <2>10. i' \in Nat
    BY <1>1, <2>1
  <2> QED BY <1>1, <2>1, <2>7, <2>9, <2>10 DEF LoopInv, S!Functions
<1>6. CASE n = 0 /\ S!Return(S!p)
  <2>1. D = 0 .. c.n - 1
    <3>1. i = c.n
      BY <1>1, <1>2, <1>6
    <3>2. c.n - c.n .. c.n - 1 = 0 .. c.n - 1
      BY <1>2
    <3> QED BY <3>1, <3>2 DEF Moved
  <2>2. UNCHANGED <<call, mem, i>> /\ pc' = "done"
    BY <1>6 DEF S!Return
  <2>3. S!OutsideUntouched
    BY <1>1, <1>2, <1>4, OnlyInside
  <2>4. S!OutsideUntouched'
    BY <2>2, <2>3 DEF S!OutsideUntouched, S!p
  <2>5. \A x \in 0 .. call.n - 1 : mem[call.p + x] = call.mem[call.q + x]
    BY <1>2, <2>1 DEF Taken
  <2>6. S!CopiesExact'
    BY <1>2, <2>2, <2>5 DEF S!CopiesExact, S!Copied, S!p, S!q
  <2>7. S!ComparesUnsigned'
    BY <1>2, <2>2 DEF S!ComparesUnsigned
  <2> QED BY <1>1, <2>2, <2>4, <2>6, <2>7 DEF LoopInv
<1> QED BY <1>5, <1>6 DEF S!memmove

\* strcmp passes a count that ends the comparison behind the end of p.
LEMMA StrcmpKeeps == ASSUME LoopInv, S!strcmp PROVE LoopInv'
<1>1. /\ call \in S!Calls /\ mem \in [S!Addr -> Byte] /\ i \in Nat
      /\ Entering(call, mem, i, n) /\ UNCHANGED <<call, mem, i>> /\ pc' = "strncmp"
      /\ n' = S!strlen(mem, call.p) + 1
  BY DEF LoopInv, S!strcmp, S!p
<1>2. call.fn = "strcmp" /\ mem = call.mem /\ i = 0 /\ LenP(call) \in Nat
  BY <1>1, CallFacts DEF Entering, TextAt
<1>3. ComparingText(call, mem, 0, LenP(call) + 1)
  BY <1>2 DEF ComparingText, Limit, Equal, Running
<1>4. ComparingText(call', mem', i', n')
  BY <1>1, <1>2, <1>3 DEF LenP
<1> QED BY <1>1, <1>4 DEF LoopInv, S!Functions

\* A comparison of text that has come to position k is short of both ends.
LEMMA ShortOfEnds ==
    ASSUME NEW c \in S!Calls, c.fn \in {"strncmp", "strcmp", "StartsWith"},
           NEW k \in Nat, Equal(c, k), Running(c, k)
    PROVE  /\ TextAt(c.mem, c.p, LenP(c)) /\ TextAt(c.mem, c.q, LenQ(c))
           /\ LenP(c) \in Nat /\ LenQ(c) \in Nat /\ k <= LenP(c) /\ k <= LenQ(c)
           /\ c.p + k \in S!Addr /\ c.q + k \in S!Addr
           /\ c.mem[c.p + k] = 0 <=> k = LenP(c)
           /\ c.mem[c.q + k] = 0 <=> k = LenQ(c)
<1> DEFINE l == LenP(c)
           r == LenQ(c)
<1>1. /\ TextAt(c.mem, c.p, l) /\ TextAt(c.mem, c.q, r) /\ c.p \in Nat /\ c.q \in Nat
      /\ MemSize \in Nat
  BY CallFacts, LibraryAssumption
<1> HIDE DEF l, r
<1>2. /\ l \in Nat /\ c.p + l \in 0 .. MemSize - 1 /\ c.mem[c.p + l] = 0
      /\ \A x \in 0 .. l - 1 : c.mem[c.p + x] # 0
      /\ r \in Nat /\ c.q + r \in 0 .. MemSize - 1 /\ c.mem[c.q + r] = 0
      /\ \A x \in 0 .. r - 1 : c.mem[c.q + x] # 0
  BY <1>1 DEF TextAt, S!Addr
<1>3. k <= l
  <2> SUFFICES ASSUME l < k PROVE FALSE
    BY <1>2
  <2>1. l \in 0 .. k - 1
    BY <1>2
  <2> QED BY <1>2, <2>1 DEF Running
<1>4. k <= r
  <2> SUFFICES ASSUME r < k PROVE FALSE
    BY <1>2
  <2>1. r \in 0 .. k - 1
    BY <1>2
  <2> QED BY <1>2, <2>1 DEF Running, Equal
<1>5. c.p + k \in S!Addr /\ c.q + k \in S!Addr
  BY <1>1, <1>2, <1>3, <1>4 DEF S!Addr
<1>6. c.mem[c.p + k] = 0 <=> k = l
  <2>1. k # l => k \in 0 .. l - 1
    BY <1>2, <1>3
  <2> QED BY <1>2, <2>1
<1>7. c.mem[c.q + k] = 0 <=> k = r
  <2>1. k # r => k \in 0 .. r - 1
    BY <1>2, <1>4
  <2> QED BY <1>2, <2>1
<1> QED BY <1>1, <1>2, <1>3, <1>4, <1>5, <1>6, <1>7 DEF l, r

\* strncmp, called by strcmp or not.
LEMMA StrncmpKeeps == ASSUME LoopInv, S!strncmp PROVE LoopInv'
<1> DEFINE c == call
           l == LenP(c)
           r == LenQ(c)
           upto == S!Min({l, r}) + 1
           K == IF c.fn = "strncmp" THEN S!Min({c.n, upto}) ELSE upto
<1>1. /\ c \in S!Calls /\ mem \in [S!Addr -> Byte] /\ i \in Nat
      /\ ComparingText(c, mem, i, n) /\ UNCHANGED <<call, mem>>
  BY DEF LoopInv, S!strncmp, S!Return, S!ReturnDifference, S!Advance
<1>2. /\ c.fn \in {"strncmp", "strcmp"} /\ mem = c.mem /\ i <= Limit(c) /\ n = Limit(c) - i
      /\ Equal(c, i) /\ Running(c, i) /\ c.n \in Nat
  BY <1>1, CallFacts DEF ComparingText
<1>3. /\ l \in Nat /\ r \in Nat /\ i <= l /\ i <= r
      /\ c.p + i \in S!Addr /\ c.q + i \in S!Addr
      /\ c.mem[c.p + i] = 0 <=> i = l
      /\ c.mem[c.q + i] = 0 <=> i = r
  BY <1>1, <1>2, ShortOfEnds
<1>4. Limit(c) = (IF c.fn = "strncmp" THEN c.n ELSE l + 1) /\ Limit(c) \in Nat
  BY <1>2, <1>3 DEF Limit
<1>5. upto = (IF l <= r THEN l ELSE r) + 1 /\ upto \in Nat
  BY <1>3, MinOfTwo
<1>6. /\ K = IF c.fn = "strncmp" /\ c.n <= upto THEN c.n ELSE upto
      /\ K \in Nat /\ i <= K
  <2> HIDE DEF upto, l, r
  <2>1. S!Min({c.n, upto}) = IF c.n <= upto THEN c.n ELSE upto
    BY <1>2, <1>5, MinOfTwo
  <2> QED BY <1>1, <1>2, <1>3, <1>4, <1>5, <2>1
<1> HIDE DEF l, r, K, upto
<1>7. CASE pc' = "done" /\ ret' = S!Difference(K) /\ i' = i
  <2>1. S!OutsideUntouched' /\ S!CopiesExact'
    <3>1. call'.fn \in {"memcmp", "strncmp", "strcmp", "StartsWith"} /\ mem' = call'.mem
      BY <1>1, <1>2
    <3> QED BY <3>1, NothingWritten
  <2>2. S!ComparesUnsigned'
    <3>1. \A k : S!Difference(k)' = S!Difference(k)
      BY <1>1, DifferenceKept
    <3> QED BY <1>1, <1>2, <1>7, <3>1
      DEF S!ComparesUnsigned, S!p, S!q, K, upto, l, r, LenP, LenQ
  <2> QED BY <1>1, <1>7, <2>1, <2>2 DEF LoopInv
<1>8. CASE n > 0 /\ mem[S!p + i] # 0 /\ mem[S!p + i] = mem[S!q + i] /\ n' = n - 1 /\ S!Advance
           /\ UNCHANGED <<mem, pc>>
  <2>1. Equal(c, i + 1) /\ Running(c, i + 1) /\ i' = i + 1 /\ pc' = "strncmp"
    BY <1>1, <1>2, <1>8, OneFurther DEF S!p, S!q, S!Advance, S!strncmp
  <2>2. i + 1 <= Limit(c) /\ n' = Limit(c) - (i + 1)
    BY <1>1, <1>2, <1>4, <1>8
  <2>3. ComparingText(call', mem', i', n')
    BY <1>1, <1>2, <2>1, <2>2 DEF ComparingText
  <2>4. i' \in Nat
    BY <1>1, <2>1
  <2> QED BY <1>1, <2>1, <2>3, <2>4 DEF LoopInv, S!Functions
<1>9. CASE n > 0 /\ ~(mem[S!p + i] # 0 /\ mem[S!p + i] = mem[S!q + i]) /\ S!ReturnDifference
  <2>1. ret' = c.mem[c.p + i] - c.mem[c.q + i] /\ pc' = "done" /\ i' = i
    BY <1>1, <1>2, <1>3, <1>9, Unsigned DEF S!ReturnDifference, S!Return, S!p, S!q
  <2>2. c.mem[c.p + i] \in Nat /\ c.mem[c.q + i] \in Nat
    BY <1>1, <1>2, <1>3, Unsigned
  <2>3. CASE c.mem[c.p + i] # c.mem[c.q + i]
    <3>1. i \in 0 .. K - 1
      BY <1>1, <1>2, <1>3, <1>4, <1>5, <1>6, <1>9
    <3>2. S!Difference(K) = c.mem[c.p + i] - c.mem[c.q + i]
      BY <1>2, <1>6, <2>3, <3>1, DifferenceIs
    <3> QED BY <1>7, <2>1, <3>2
  <2>4. CASE c.mem[c.p + i] = c.mem[c.q + i]
    <3>1. c.mem[c.p + i] = 0 /\ i = l /\ i = r
      BY <1>2, <1>3, <1>9, <2>4 DEF S!p, S!q
    <3>2. K <= i + 1
      BY <1>1, <1>3, <1>5, <1>6, <3>1
    <3>6. Equal(c, i + 1)
      BY <1>1, <1>2, <2>4, OneFurther
    <3>3. Equal(c, K)
      BY <1>1, <1>6, <3>2, <3>6 DEF Equal
    <3>4. S!Difference(K) = 0
      BY <1>6, <3>3, DifferenceIs
    <3>5. ret' = 0
      BY <2>1, <2>2, <2>4
    <3> QED BY <1>7, <2>1, <3>4, <3>5
  <2> QED BY <2>3, <2>4
<1>10. CASE n = 0 /\ S!Return(0)
  <2>1. K = i
    BY <1>1, <1>2, <1>3, <1>4, <1>5, <1>6, <1>10
  <2>2. S!Difference(K) = 0
    BY <1>2, <1>6, <2>1, DifferenceIs
  <2> QED BY <1>7, <1>10, <2>2 DEF S!Return
<1> QED BY <1>8, <1>9, <1>10 DEF S!strncmp

\* The copying of text reads what the string had, and writes offset k of dst, which
\* the string does not have.
LEMMA CopiesCharacter ==
    ASSUME NEW c \in S!Calls, c.fn \in {"strncpy", "safestrcpy"}, NEW m \in [S!Addr -> Byte],
           NEW k \in Nat, k < c.n, k <= LenQ(c), Taken(c, m, 0 .. k - 1), Only(c, m, 0 .. k - 1)
    PROVE  /\ m[c.q + k] = c.mem[c.q + k] /\ m[c.q + k] \in Byte /\ c.p + k \in S!Addr
           /\ c.mem[c.q + k] = 0 <=> k = LenQ(c)
           /\ [m EXCEPT ![c.p + k] = m[c.q + k]] \in [S!Addr -> Byte]
           /\ Taken(c, [m EXCEPT ![c.p + k] = m[c.q + k]], 0 .. (k + 1) - 1)
           /\ Only(c, [m EXCEPT ![c.p + k] = m[c.q + k]], 0 .. (k + 1) - 1)
<1> DEFINE l == LenQ(c)
           m2 == [m EXCEPT ![c.p + k] = m[c.q + k]]
           D == 0 .. k - 1
<1>1. /\ TextAt(c.mem, c.q, l) /\ c.p \in Nat /\ c.q \in Nat /\ MemSize \in Nat /\ c.n \in Nat
      /\ \A h1 \in 0 .. l, x \in 0 .. c.n - 1 : c.q + h1 # c.p + x
  BY CallFacts, LibraryAssumption
<1> HIDE DEF l
<1>2. /\ l \in Nat /\ c.q + l \in 0 .. MemSize - 1 /\ c.mem[c.q + l] = 0
      /\ \A x \in 0 .. l - 1 : c.mem[c.q + x] # 0
  BY <1>1 DEF TextAt, S!Addr
<1>3. k <= l
  BY DEF l
<1>4. c.q + k \in S!Addr /\ c.p + k \in S!Addr
  <2>1. c.q + k \in S!Addr
    BY <1>1, <1>2, <1>3 DEF S!Addr
  <2>2. k \in 0 .. c.n - 1
    BY <1>1
  <2> QED BY <2>1, <2>2, CallFacts
<1>5. (c.q + k) - c.p \notin D
  <2> SUFFICES ASSUME (c.q + k) - c.p \in D PROVE FALSE
    OBVIOUS
  <2> DEFINE x == (c.q + k) - c.p
  <2>1. x \in 0 .. c.n - 1 /\ k \in 0 .. l /\ c.p + x = c.q + k
    <3>1. c.p \in Nat /\ c.q \in Nat /\ c.n \in Nat /\ l \in Nat
      BY <1>1, <1>2
    <3>2. x \in Int /\ c.p + x = c.q + k
      BY <3>1
    <3>3. x \in 0 .. k - 1
      OBVIOUS
    <3> HIDE DEF x
    <3>4. x \in 0 .. c.n - 1
      BY <3>1, <3>3
    <3>5. k \in 0 .. l
      BY <1>3, <3>1
    <3> QED BY <3>2, <3>4, <3>5
  <2> HIDE DEF x
  <2> QED BY <1>1, <2>1
<1>6. m[c.q + k] = c.mem[c.q + k] /\ m[c.q + k] \in Byte
  BY <1>4, <1>5 DEF Only
<1>7. c.mem[c.q + k] = 0 <=> k = l
  <2>1. k # l => k \in 0 .. l - 1
    BY <1>2, <1>3
  <2> QED BY <1>2, <2>1
<1>8. D \in SUBSET Nat /\ k \notin D /\ 0 .. (k + 1) - 1 = D \cup {k}
  OBVIOUS
<1> HIDE DEF D
<1>9. Only(c, m, D) /\ Taken(c, m, D)
  BY DEF D
<1>10. /\ Only(c, m2, D \cup {k}) /\ m2 \in [S!Addr -> Byte] /\ m2[c.p + k] = m[c.q + k]
       /\ Taken(c, m2, D)
  BY <1>4, <1>6, <1>8, <1>9, OneMore, OtherBytes
<1>11. Taken(c, m2, D \cup {k})
  BY <1>6, <1>10 DEF Taken
<1> HIDE DEF m2
<1> QED BY <1>4, <1>6, <1>7, <1>8, <1>10, <1>11 DEF m2, l

\* strncpy up to the NUL it copies, of a string that is shorter than n.
LEMMA StrncpyKeeps == ASSUME LoopInv, S!strncpy PROVE LoopInv'
<1> DEFINE c == call
           l == LenQ(c)
           m2 == [mem EXCEPT ![c.p + i] = mem[c.q + i]]
<1>1. /\ c \in S!Calls /\ mem \in [S!Addr -> Byte] /\ i \in Nat
      /\ CopyingText(c, mem, i, n) /\ UNCHANGED call /\ n' = (n - 1) % SIZE_T
  BY DEF LoopInv, S!strncpy, S!CopyChar, S!Advance, S!Decrement
<1>2. /\ c.fn = "strncpy" /\ l < c.n /\ i <= l /\ n = c.n - i
      /\ Taken(c, mem, 0 .. i - 1) /\ Only(c, mem, 0 .. i - 1)
      /\ l \in Nat /\ c.n \in Nat /\ c.n <= MemSize /\ MemSize \in Nat
  BY <1>1, CallFacts, LibraryAssumption DEF CopyingText, TextAt
<1> HIDE DEF l
<1>3. n \in Nat /\ 0 < n /\ n <= MemSize /\ i < c.n
  BY <1>1, <1>2
<1>4. n' = n - 1 /\ S!CopyChar("strncpy", "padding")
  BY <1>1, <1>3, Decremented DEF S!strncpy
<1>5. /\ mem[c.q + i] = c.mem[c.q + i] /\ c.p + i \in S!Addr
      /\ c.mem[c.q + i] = 0 <=> i = l
      /\ m2 \in [S!Addr -> Byte]
      /\ Taken(c, m2, 0 .. (i + 1) - 1) /\ Only(c, m2, 0 .. (i + 1) - 1)
  <2>1. c \in S!Calls /\ c.fn \in {"strncpy", "safestrcpy"} /\ mem \in [S!Addr -> Byte]
    BY <1>1, <1>2
  <2>2. i \in Nat /\ i < c.n /\ i <= LenQ(c)
    BY <1>1, <1>2, <1>3 DEF l
  <2>3. Taken(c, mem, 0 .. i - 1) /\ Only(c, mem, 0 .. i - 1)
    BY <1>2
  <2> HIDE DEF c
  <2> QED BY <2>1, <2>2, <2>3, CopiesCharacter DEF l, m2
<1>6. /\ mem' = m2 /\ pc' = (IF mem[c.q + i] # 0 THEN "strncpy" ELSE "padding")
      /\ i' = i + 1
  BY <1>4, <1>5 DEF S!CopyChar, S!Store, S!Advance, S!p, S!q
<1> HIDE DEF m2
<1>7. n' = c.n - (i + 1) /\ i + 1 <= c.n /\ i' \in Nat
  BY <1>1, <1>2, <1>3, <1>4, <1>6
<1>8. CASE i # l
  <2>1. pc' = "strncpy" /\ i + 1 <= l
    BY <1>1, <1>2, <1>5, <1>6, <1>8
  <2>2. CopyingText(call', mem', i', n')
    BY <1>1, <1>2, <1>5, <1>6, <1>7, <2>1 DEF CopyingText, l
  <2> QED BY <1>1, <1>5, <1>6, <1>7, <2>1, <2>2 DEF LoopInv, S!Functions
<1>9. CASE i = l
  <2>1. pc' = "padding" /\ l < i + 1
    BY <1>2, <1>5, <1>6, <1>9
  <2>2. Taken(c, m2, 0 .. l) /\ Zeros(c, m2, l .. i)
    <3>1. 0 .. (i + 1) - 1 = 0 .. l /\ l .. i = {l} /\ l \in 0 .. l
      BY <1>2, <1>9
    <3>2. Taken(c, m2, 0 .. l)
      BY <1>5, <3>1
    <3>3. m2[c.p + l] = 0
      BY <1>5, <1>9, <3>1, <3>2 DEF Taken
    <3> QED BY <3>1, <3>2, <3>3 DEF Zeros
  <2>3. l .. (i + 1) - 1 = l .. i
    BY <1>1
  <2>4. Padding(call', mem', i', n')
    BY <1>1, <1>2, <1>5, <1>6, <1>7, <2>1, <2>2, <2>3 DEF Padding, l
  <2> QED BY <1>1, <1>5, <1>6, <1>7, <2>1, <2>4 DEF LoopInv
<1> QED BY <1>8, <1>9

\* Then zeros, and it ends as it should.
LEMMA PaddingKeeps == ASSUME LoopInv, S!padding PROVE LoopInv'
<1> DEFINE c == call
           l == LenQ(c)
           m2 == [mem EXCEPT ![c.p + i] = 0]
<1>1. /\ c \in S!Calls /\ mem \in [S!Addr -> Byte] /\ i \in Nat
      /\ Padding(c, mem, i, n) /\ UNCHANGED call /\ n' = (n - 1) % SIZE_T
  BY DEF LoopInv, S!padding, S!Return, S!Advance, S!Decrement
<1>2. /\ c.fn = "strncpy" /\ l < i /\ i <= c.n /\ n = c.n - i
      /\ Taken(c, mem, 0 .. l) /\ Zeros(c, mem, l .. i - 1) /\ Only(c, mem, 0 .. i - 1)
      /\ l \in Nat /\ c.n \in Nat /\ c.n <= MemSize /\ MemSize \in Nat /\ 0 \in Byte
      /\ c.p \in Nat
  BY <1>1, CallFacts, LibraryAssumption DEF Padding, TextAt
<1> HIDE DEF l
<1>3. CASE n > 0 /\ S!Store(0, "padding") /\ S!Advance
  <2>1. n \in Nat /\ 0 < n /\ n <= MemSize /\ i < c.n /\ i \in 0 .. c.n - 1
    BY <1>1, <1>2, <1>3
  <2>2. c.p + i \in S!Addr
    BY <1>1, <1>2, <2>1, CallFacts
  <2>3. n' = c.n - (i + 1) /\ i + 1 <= c.n /\ l < i + 1
    <3>1. n' = n - 1
      BY <1>1, <2>1, Decremented
    <3> QED BY <1>1, <1>2, <2>1, <3>1
  <2>4. mem' = m2 /\ pc' = "padding" /\ i' = i + 1
    BY <1>3, <2>2 DEF S!Store, S!Advance, S!p
  <2>5. /\ 0 .. l \in SUBSET Nat /\ i \notin 0 .. l /\ l .. i - 1 \in SUBSET Nat
        /\ i \notin l .. i - 1 /\ 0 .. i - 1 \in SUBSET Nat
        /\ 0 .. (i + 1) - 1 = 0 .. i - 1 \cup {i} /\ l .. (i + 1) - 1 = l .. i - 1 \cup {i}
    BY <1>1, <1>2
  <2>6. Taken(c, m2, 0 .. l)
    BY <1>1, <1>2, <2>5, OtherBytes
  <2>7. Zeros(c, m2, l .. i - 1)
    BY <1>1, <1>2, <2>5, OtherBytes
  <2>8. /\ Only(c, m2, 0 .. i - 1 \cup {i}) /\ m2 \in [S!Addr -> Byte] /\ m2[c.p + i] = 0
    BY <1>1, <1>2, <2>2, <2>5, OneMore
  <2> HIDE DEF m2
  <2>9. Zeros(c, m2, l .. i - 1 \cup {i})
    BY <2>7, <2>8 DEF Zeros
  <2>10. Padding(call', mem', i', n')
    BY <1>1, <1>2, <2>3, <2>4, <2>5, <2>6, <2>8, <2>9 DEF Padding, l
  <2>11. i' \in Nat
    BY <1>1, <2>4
  <2> QED BY <1>1, <2>4, <2>8, <2>10, <2>11 DEF LoopInv
<1>4. CASE n = 0 /\ S!Return(S!p)
  <2>1. UNCHANGED <<call, mem, i>> /\ pc' = "done" /\ i = c.n
    BY <1>1, <1>2, <1>4 DEF S!Return
  <2>2. S!OutsideUntouched
    <3>1. 0 .. i - 1 \in SUBSET (0 .. call.n - 1)
      BY <2>1
    <3> QED BY <1>1, <1>2, <3>1, OnlyInside
  <2>3. S!OutsideUntouched'
    BY <2>1, <2>2 DEF S!OutsideUntouched, S!p
  <2>4. \A x \in 0 .. l - 1 : mem[c.p + x] = c.mem[c.q + x]
    BY <1>2 DEF Taken
  <2>5. \A a \in S!Area(c.p, c.n) : a >= c.p + l => mem[a] = 0
    <3> SUFFICES ASSUME NEW a \in S!Area(c.p, c.n), a >= c.p + l PROVE mem[a] = 0
      OBVIOUS
    <3>1. a - c.p \in l .. i - 1 /\ c.p + (a - c.p) = a
      BY <1>2, <2>1 DEF S!Area
    <3>2. mem[c.p + (a - c.p)] = 0
      BY <1>2, <3>1 DEF Zeros
    <3> QED BY <3>1, <3>2
  <2>6. S!CopiesExact'
    BY <1>2, <2>1, <2>4, <2>5 DEF S!CopiesExact, S!Copied, S!p, S!q, l, LenQ
  <2>7. S!ComparesUnsigned'
    BY <1>2, <2>1 DEF S!ComparesUnsigned
  <2> QED BY <1>1, <2>1, <2>3, <2>6, <2>7 DEF LoopInv
<1> QED BY <1>3, <1>4 DEF S!padding

\* safestrcpy keeps the last byte for the NUL.
LEMMA SafestrcpyKeeps == ASSUME LoopInv, S!safestrcpy PROVE LoopInv'
<1> DEFINE c == call
           l == LenQ(c)
           m2 == [mem EXCEPT ![c.p + i] = mem[c.q + i]]
<1>1. /\ c \in S!Calls /\ mem \in [S!Addr -> Byte] /\ i \in Nat
      /\ CopyingSafely(c, mem, i, n) /\ UNCHANGED call
  BY DEF LoopInv, S!safestrcpy, S!CopyChar, S!Advance, S!Return
<1>2. /\ c.fn = "safestrcpy" /\ i <= l /\ n = c.n - i /\ (i = 0 \/ i < c.n)
      /\ Taken(c, mem, 0 .. i - 1) /\ Only(c, mem, 0 .. i - 1)
      /\ l \in Nat /\ c.n \in Nat
  BY <1>1, CallFacts DEF CopyingSafely, TextAt
<1> HIDE DEF l
<1>3. CASE n = 0 /\ S!Return(S!p)
  <2>1. UNCHANGED <<call, mem, i>> /\ pc' = "done" /\ c.n = 0 /\ i = 0
    BY <1>1, <1>2, <1>3 DEF S!Return
  <2>2. S!OutsideUntouched
    <3>1. 0 .. i - 1 \in SUBSET (0 .. call.n - 1)
      BY <2>1
    <3> QED BY <1>1, <1>2, <3>1, OnlyInside
  <2>3. S!OutsideUntouched'
    BY <2>1, <2>2 DEF S!OutsideUntouched, S!p
  <2>4. S!CopiesExact' /\ S!ComparesUnsigned'
    BY <1>2, <2>1 DEF S!CopiesExact, S!ComparesUnsigned
  <2> QED BY <1>1, <2>1, <2>3, <2>4 DEF LoopInv
<1>4. CASE n > 1 /\ n' = n - 1 /\ S!CopyChar("safestrcpy", "terminate")
  <2>1. i < c.n /\ i + 1 < c.n /\ n' = c.n - (i + 1)
    BY <1>1, <1>2, <1>4
  <2>2. /\ mem[c.q + i] = c.mem[c.q + i] /\ c.p + i \in S!Addr
        /\ c.mem[c.q + i] = 0 <=> i = l
        /\ m2 \in [S!Addr -> Byte]
        /\ Taken(c, m2, 0 .. (i + 1) - 1) /\ Only(c, m2, 0 .. (i + 1) - 1)
    <3>1. c \in S!Calls /\ c.fn \in {"strncpy", "safestrcpy"} /\ mem \in [S!Addr -> Byte]
      BY <1>1, <1>2
    <3>2. i \in Nat /\ i < c.n /\ i <= LenQ(c)
      BY <1>1, <1>2, <2>1 DEF l
    <3>3. Taken(c, mem, 0 .. i - 1) /\ Only(c, mem, 0 .. i - 1)
      BY <1>2
    <3> HIDE DEF c
    <3> QED BY <3>1, <3>2, <3>3, CopiesCharacter DEF l, m2
  <2>3. /\ mem' = m2 /\ pc' = (IF mem[c.q + i] # 0 THEN "safestrcpy" ELSE "terminate")
        /\ i' = i + 1
    BY <1>4, <2>2 DEF S!CopyChar, S!Store, S!Advance, S!p, S!q
  <2> HIDE DEF m2
  <2>4. i' \in Nat
    BY <1>1, <2>3
  <2>5. CASE i # l
    <3>1. pc' = "safestrcpy" /\ i + 1 <= l
      BY <1>1, <1>2, <2>2, <2>3, <2>5
    <3>2. CopyingSafely(call', mem', i', n')
      BY <1>1, <1>2, <2>1, <2>2, <2>3, <3>1 DEF CopyingSafely, l
    <3> QED BY <1>1, <2>2, <2>3, <2>4, <3>1, <3>2 DEF LoopInv, S!Functions
  <2>6. CASE i = l
    <3>1. pc' = "terminate"
      BY <2>2, <2>3, <2>6
    <3>2. Terminating(call', mem', i', n')
      BY <1>1, <1>2, <2>1, <2>2, <2>3, <2>6 DEF Terminating, l
    <3> QED BY <1>1, <2>2, <2>3, <2>4, <3>1, <3>2 DEF LoopInv
  <2> QED BY <2>5, <2>6
<1>5. CASE n = 1 /\ n' = 0 /\ pc' = "terminate" /\ UNCHANGED <<call, mem, i, ret>>
  <2>1. i = c.n - 1 /\ i < c.n
    BY <1>1, <1>2, <1>5
  <2>2. Terminating(call', mem', i', n')
    BY <1>2, <1>5, <2>1 DEF Terminating, l
  <2> QED BY <1>1, <1>5, <2>2 DEF LoopInv
<1> QED BY <1>3, <1>4, <1>5 DEF S!safestrcpy

\* The NUL, behind what fits or on top of the one copied.
LEMMA TerminateKeeps == ASSUME LoopInv, S!terminate PROVE LoopInv'
<1> DEFINE c == call
           l == LenQ(c)
           fits == S!Min({l, c.n - 1})
           m2 == [mem EXCEPT ![c.p + i] = 0]
<1>1. /\ c \in S!Calls /\ mem \in [S!Addr -> Byte] /\ i \in Nat
      /\ Terminating(c, mem, i, n) /\ UNCHANGED <<call, i>> /\ S!Store(0, "done")
  BY DEF LoopInv, S!terminate
<1>2. /\ c.fn = "safestrcpy" /\ i < c.n /\ (i = l + 1 \/ (i = c.n - 1 /\ i <= l))
      /\ Taken(c, mem, 0 .. i - 1) /\ Only(c, mem, 0 .. i - 1)
      /\ TextAt(c.mem, c.q, l) /\ c.n \in Nat /\ 0 \in Byte
  BY <1>1, CallFacts, LibraryAssumption DEF Terminating
<1> HIDE DEF l
<1>3. l \in Nat /\ c.mem[c.q + l] = 0
  BY <1>2 DEF TextAt
<1>4. c.p + i \in S!Addr
  <2>1. i \in 0 .. c.n - 1
    BY <1>1, <1>2
  <2> QED BY <1>1, <1>2, <2>1, CallFacts
<1>5. mem' = m2 /\ pc' = "done"
  BY <1>1, <1>4 DEF S!Store, S!p
<1>6. /\ 0 .. i - 1 \in SUBSET Nat /\ i \notin 0 .. i - 1
      /\ 0 .. i - 1 \cup {i} \in SUBSET (0 .. c.n - 1)
  BY <1>1, <1>2
<1>7. /\ Taken(c, m2, 0 .. i - 1) /\ Only(c, m2, 0 .. i - 1 \cup {i})
      /\ m2 \in [S!Addr -> Byte] /\ m2[c.p + i] = 0
  BY <1>1, <1>2, <1>4, <1>6, OneMore, OtherBytes
<1> HIDE DEF m2
<1>8. fits = (IF l <= c.n - 1 THEN l ELSE c.n - 1) /\ c.n - 1 \in Nat
  BY <1>1, <1>2, <1>3, MinOfTwo
<1> HIDE DEF fits
<1>9. fits <= i /\ fits \in Nat /\ (fits = i \/ (fits = l /\ fits < i))
  BY <1>1, <1>2, <1>3, <1>8
<1>10. \A x \in 0 .. fits - 1 : m2[c.p + x] = c.mem[c.q + x]
  <2>1. 0 .. fits - 1 \in SUBSET (0 .. i - 1)
    BY <1>1, <1>9
  <2> QED BY <1>7, <2>1 DEF Taken
<1>11. m2[c.p + fits] = 0
  <2>1. CASE fits = i
    BY <1>7, <2>1
  <2>2. CASE fits = l /\ fits < i
    <3>1. l \in 0 .. i - 1
      BY <1>1, <1>3, <2>2
    <3> QED BY <1>3, <1>7, <2>2, <3>1 DEF Taken
  <2> QED BY <1>9, <2>1, <2>2
<1>12. S!CopiesExact'
  BY <1>1, <1>2, <1>5, <1>10, <1>11
  DEF S!CopiesExact, S!Copied, S!p, S!q, fits, l, LenQ
<1>13. S!OutsideUntouched'
  <2> SUFFICES ASSUME NEW a \in S!Addr, m2[a] # call.mem[a] PROVE a \in S!Area(call.p, call.n)
    BY <1>1, <1>2, <1>5 DEF S!OutsideUntouched, S!p
  <2>1. a - c.p \in 0 .. c.n - 1
    BY <1>6, <1>7 DEF Only
  <2>2. c.p \in Nat /\ a \in Nat
    BY <1>1, CallFacts, LibraryAssumption DEF S!Addr
  <2> QED BY <1>2, <2>1, <2>2 DEF S!Area
<1>14. S!ComparesUnsigned'
  BY <1>1, <1>2, <1>5 DEF S!ComparesUnsigned
<1> QED BY <1>1, <1>5, <1>7, <1>12, <1>13, <1>14 DEF LoopInv

\* StartsWith reads no further than the shorter of the strings.
LEMMA StartsWithKeeps == ASSUME LoopInv, S!StartsWith PROVE LoopInv'
<1> DEFINE c == call
           l == LenP(c)
           r == LenQ(c)
           cs == mem[c.p + i]
           cp == IF cs # 0 THEN mem[c.q + i] ELSE IF i = 0 THEN 0 ELSE mem[c.q + i - 1]
           Prefix == l = 0 \/ (r < l /\ Equal(c, r))
<1>1. /\ c \in S!Calls /\ mem \in [S!Addr -> Byte] /\ i \in Nat
      /\ Matching(c, mem, i, n) /\ UNCHANGED <<call, mem, n>>
  BY DEF LoopInv, S!StartsWith, S!Return, S!Advance
<1>2. c.fn = "StartsWith" /\ mem = c.mem /\ Equal(c, i) /\ Running(c, i)
  BY <1>1 DEF Matching
<1>3. /\ TextAt(c.mem, c.p, l) /\ TextAt(c.mem, c.q, r)
      /\ l \in Nat /\ r \in Nat /\ i <= l /\ i <= r
      /\ c.mem[c.p + i] = 0 <=> i = l
      /\ c.mem[c.q + i] = 0 <=> i = r
  BY <1>1, <1>2, ShortOfEnds
<1> HIDE DEF l, r
<1>4. \/ cs # 0 /\ cp = cs /\ S!Advance /\ UNCHANGED <<mem, pc>>
      \/ cs # 0 /\ cp \notin {0, cs} /\ S!Return(0)
      \/ (cs = 0 \/ cp = 0) /\ S!Return(IF cp = 0 THEN 1 ELSE 0)
  BY DEF S!StartsWith, S!p, S!q
<1>5. ASSUME pc' = "done", i' = i, ret' = 1 <=> Prefix PROVE LoopInv'
  <2>1. S!OutsideUntouched' /\ S!CopiesExact'
    <3>1. call'.fn \in {"memcmp", "strncmp", "strcmp", "StartsWith"} /\ mem' = call'.mem
      BY <1>1, <1>2
    <3> QED BY <3>1, NothingWritten
  <2>2. \A k : S!Differ(k)' = {} <=> Equal(c, k)
    BY <1>1 DEF S!Differ, S!p, S!q, Equal
  <2>3. S!LenString' = l /\ S!LenPrefix' = r
    BY <1>1 DEF S!LenString, S!LenPrefix, S!p, S!q, l, r, LenP, LenQ
  <2>4. S!IsPrefix' <=> r <= l /\ Equal(c, r)
    BY <2>2, <2>3 DEF S!IsPrefix
  <2>5. S!Deviates' <=> (l = 0 /\ r > 0) \/ (l > 0 /\ r = l /\ Equal(c, r))
    BY <1>3, <2>3, <2>4 DEF S!Deviates
  <2>6. Equal(c, 0)
    BY DEF Equal
  <2>7. ~S!Deviates' => (ret' = 1 <=> S!IsPrefix')
    <3> DEFINE Eq == Equal(c, r)
    <3>1. r = 0 => Eq
      BY <2>6
    <3>2. /\ ret' = 1 <=> l = 0 \/ (r < l /\ Eq)
          /\ S!IsPrefix' <=> r <= l /\ Eq
          /\ S!Deviates' <=> (l = 0 /\ r > 0) \/ (l > 0 /\ r = l /\ Eq)
      BY <1>5, <2>4, <2>5
    <3> HIDE DEF Eq
    <3> QED BY <1>3, <3>1, <3>2
  <2>8. call'.fn = "StartsWith"
    BY <1>1, <1>2
  <2>9. S!ComparesUnsigned'
    BY <2>7, <2>8 DEF S!ComparesUnsigned
  <2> QED BY <1>1, <1>5, <2>1, <2>9 DEF LoopInv
<1>6. CASE cs # 0 /\ cp = cs /\ S!Advance /\ UNCHANGED <<mem, pc>>
  <2>1. Equal(c, i + 1) /\ Running(c, i + 1)
    BY <1>1, <1>2, <1>6, OneFurther
  <2>2. i' = i + 1 /\ pc' = "StartsWith" /\ i' \in Nat
    BY <1>1, <1>6 DEF S!Advance, S!StartsWith
  <2>3. Matching(call', mem', i', n')
    BY <1>1, <1>2, <2>1, <2>2 DEF Matching
  <2> QED BY <1>1, <2>2, <2>3 DEF LoopInv, S!Functions
<1>7. CASE cs # 0 /\ cp \notin {0, cs} /\ S!Return(0)
  <2>1. pc' = "done" /\ i' = i /\ ret' = 0
    BY <1>7 DEF S!Return
  <2>2. c.mem[c.p + i] # c.mem[c.q + i] /\ i # l /\ i # r
    BY <1>2, <1>3, <1>7
  <2>3. i \in 0 .. r - 1 /\ l # 0
    BY <1>1, <1>3, <2>2
  <2>4. ~Equal(c, r)
    BY <2>2, <2>3 DEF Equal
  <2> QED BY <1>5, <2>1, <2>3, <2>4
<1>8. CASE cs # 0 /\ cp = 0 /\ S!Return(1)
  <2>1. pc' = "done" /\ i' = i /\ ret' = 1
    BY <1>8 DEF S!Return
  <2>2. i = r /\ i # l
    BY <1>2, <1>3, <1>8
  <2>3. r < l /\ Equal(c, r)
    BY <1>1, <1>2, <1>3, <2>2
  <2> QED BY <1>5, <2>1, <2>3
<1>9. CASE cs = 0 /\ S!Return(IF cp = 0 THEN 1 ELSE 0)
  <2>1. pc' = "done" /\ i' = i /\ ret' = (IF cp = 0 THEN 1 ELSE 0) /\ i = l
    BY <1>2, <1>3, <1>9 DEF S!Return
  <2>2. CASE i = 0
    BY <1>5, <1>9, <2>1, <2>2
  <2>3. CASE i # 0
    <3>1. cp = c.mem[c.q + i - 1]
      BY <1>2, <1>9, <2>3
    <3>2. c.q \in Nat /\ i - 1 \in 0 .. i - 1 /\ c.q + i - 1 = c.q + (i - 1)
      BY <1>1, <2>3, CallFacts
    <3>3. cp # 0
      BY <1>2, <3>1, <3>2 DEF Equal, Running
    <3>4. l # 0 /\ ~(r < l)
      BY <1>1, <1>3, <2>1, <2>3
    <3> QED BY <1>5, <2>1, <3>3, <3>4
  <2> QED BY <2>2, <2>3
<1> QED BY <1>4, <1>6, <1>7, <1>8, <1>9

\* All of them.
LEMMA LoopInvNext == ASSUME LoopInv, S!Next PROVE LoopInv'
  BY MemsetKeeps, MemcmpKeeps, MemmoveKeeps, StrncmpKeeps, StrcmpKeeps, StrncpyKeeps,
     PaddingKeeps, SafestrcpyKeeps, TerminateKeeps, StartsWithKeeps DEF S!Next

-----------------------------------------------------------------------------
(***************************************************************************)
(* The calls.                                                              *)
(***************************************************************************)
\* A call begins in the loop of its function, with nothing passed.
LEMMA LoopInvInit == ASSUME S!Init, ~S!Truncates PROVE LoopInv
<1>1. /\ call \in S!Calls /\ mem = call.mem /\ i = 0 /\ n = call.n /\ pc = call.fn
      /\ call.fn \in S!Functions /\ call.mem \in [S!Addr -> Byte] /\ call.n \in Nat
  BY CallFacts DEF S!Init
<1>2. Taken(call, mem, {}) /\ Only(call, mem, {}) /\ 0 .. 0 - 1 = {}
  BY <1>1 DEF Taken, Only
<1>3. Equal(call, 0) /\ Running(call, 0)
  BY <1>2 DEF Equal, Running
<1>4. call.fn \in {"strncpy", "safestrcpy"} => LenQ(call) \in Nat
  BY <1>1, CallFacts DEF TextAt
<1>5. call.fn = "strncpy" => LenQ(call) < call.n
  BY <1>1, <1>4 DEF S!Truncates, S!q, LenQ
<1>6. Moved(call, 0) = {}
  BY <1>1, <1>2 DEF Moved
<1>7. pc = "memset" => Setting(call, mem, i, n)
  BY <1>1 DEF Setting
<1>8. pc = "memcmp" => Comparing(call, mem, i, n)
  BY <1>1, <1>3 DEF Comparing
<1>9. pc = "memmove" => Moving(call, mem, i, n)
  BY <1>1, <1>2, <1>6 DEF Moving
<1>10. pc = "strcmp" => Entering(call, mem, i, n)
  BY <1>1 DEF Entering
<1>11. pc = "strncmp" => ComparingText(call, mem, i, n)
  BY <1>1, <1>3 DEF ComparingText, Limit
<1>12. pc = "strncpy" => CopyingText(call, mem, i, n)
  BY <1>1, <1>2, <1>4, <1>5 DEF CopyingText
<1>13. pc = "safestrcpy" => CopyingSafely(call, mem, i, n)
  BY <1>1, <1>2, <1>4 DEF CopyingSafely
<1>14. pc = "StartsWith" => Matching(call, mem, i, n)
  BY <1>1, <1>3 DEF Matching
<1>15. pc \in S!Functions /\ pc \notin {"padding", "terminate", "done"} /\ i \in Nat
  BY <1>1 DEF S!Functions
<1> QED BY <1>1, <1>7, <1>8, <1>9, <1>10, <1>11, <1>12, <1>13, <1>14, <1>15 DEF LoopInv

\* In every loop, what is written is in dst.
LEMMA LoopsInside == ASSUME LoopInv, pc # "done" PROVE S!OutsideUntouched
<1>1. call \in S!Calls /\ i \in Nat /\ call.n \in Nat
  BY CallFacts DEF LoopInv
<1>2. CASE mem = call.mem
  BY <1>2 DEF S!OutsideUntouched
<1>3. ASSUME NEW D \in SUBSET (0 .. call.n - 1), Only(call, mem, D),
             call.fn \in {"memmove", "strncpy", "safestrcpy"}
      PROVE  S!OutsideUntouched
  BY <1>1, <1>3, OnlyInside
<1>4. CASE pc = "memmove"
  <2>1. call.fn = "memmove" /\ i <= call.n /\ Only(call, mem, Moved(call, i))
    BY <1>4 DEF LoopInv, Moving
  <2>2. Moved(call, i) \in SUBSET (0 .. call.n - 1)
    BY <1>1, <2>1 DEF Moved
  <2> QED BY <1>3, <2>1, <2>2
<1>5. CASE pc \in {"strncpy", "padding", "safestrcpy", "terminate"}
  <2>1. call.fn \in {"strncpy", "safestrcpy"} /\ Only(call, mem, 0 .. i - 1)
    BY <1>5 DEF LoopInv, CopyingText, Padding, CopyingSafely, Terminating
  <2>2. call.fn \in {"strncpy", "safestrcpy"} => LenQ(call) \in Nat
    BY <1>1, CallFacts DEF TextAt
  <2>3. i <= call.n
    BY <1>1, <1>5, <2>1, <2>2 DEF LoopInv, CopyingText, Padding, CopyingSafely, Terminating
  <2>4. 0 .. i - 1 \in SUBSET (0 .. call.n - 1)
    BY <1>1, <2>3
  <2> QED BY <1>3, <2>1, <2>4
<1>6. CASE pc \in {"memset", "memcmp", "strcmp", "strncmp", "StartsWith"}
  BY <1>2, <1>6 DEF LoopInv, Setting, Comparing, Entering, ComparingText, Matching
<1> QED BY <1>4, <1>5, <1>6 DEF LoopInv, S!Functions

\* A call of Strings is in its loop, unless strncpy was given n characters or more.
StringsInv == which = "Strings" /\ ~S!Truncates => LoopInv

\* The invariant says what C says; of strncpy's long source StringsAsC says nothing.
LEMMA StringsInvAsC == StringsInv => StringsAsC
<1> SUFFICES ASSUME StringsInv, which = "Strings"
             PROVE  S!WritesOnlyDst /\ S!CopiesExact /\ S!ComparesUnsigned
  BY DEF StringsAsC
<1>1. CASE S!Truncates
  <2>1. call.fn = "strncpy"
    BY <1>1 DEF S!Truncates
  <2>2. S!WritesOnlyDst
    BY <1>1 DEF S!WritesOnlyDst
  <2>3. S!CopiesExact
    BY <1>1, <2>1 DEF S!CopiesExact
  <2>4. S!ComparesUnsigned
    BY <2>1 DEF S!ComparesUnsigned
  <2> QED BY <2>2, <2>3, <2>4
<1>2. CASE ~S!Truncates
  <2>1. LoopInv
    BY <1>2 DEF StringsInv
  <2>2. pc # "fault"
    BY <2>1 DEF LoopInv, S!Functions
  <2>3. S!OutsideUntouched
    BY <2>1, LoopsInside DEF LoopInv
  <2>4. S!CopiesExact
    BY <2>1 DEF LoopInv, S!CopiesExact
  <2>5. S!ComparesUnsigned
    BY <2>1 DEF LoopInv, S!ComparesUnsigned
  <2> QED BY <2>2, <2>3, <2>4, <2>5 DEF S!WritesOnlyDst
<1> QED BY <1>1, <1>2

\* The run starts with a call, or with another algorithm.
LEMMA StringsInvInit == Init => StringsInv
  BY LoopInvInit DEF Init, StringsInv

\* A step keeps the call and the algorithm; when nothing changes, nothing changes.
LEMMA StringsInvNext == StringsInv /\ [Next]_vars => StringsInv'
<1> SUFFICES ASSUME StringsInv, [Next]_vars, which' = "Strings", ~S!Truncates' PROVE LoopInv'
  BY DEF StringsInv
<1>1. CASE S!Next /\ which = "Strings"
  <2>1. call' = call
    BY <1>1 DEF S!Next, S!memset, S!memcmp, S!memmove, S!strncmp, S!strcmp, S!strncpy,
                S!padding, S!safestrcpy, S!terminate, S!StartsWith, S!CopyChar, S!Store,
                S!Return, S!ReturnDifference, S!Advance
  <2>2. ~S!Truncates
    BY <2>1 DEF S!Truncates, S!q
  <2> QED BY <1>1, <2>2, LoopInvNext DEF StringsInv
<1>2. CASE UNCHANGED vars
  <2>1. /\ which = "Strings"
        /\ call' = call /\ mem' = mem /\ i' = i /\ n' = n /\ pc' = pc /\ ret' = ret
    BY <1>2 DEF vars, bytes
  <2>2. ~S!Truncates
    BY <2>1 DEF S!Truncates, S!q
  <2>3. LoopInv
    BY <2>1, <2>2 DEF StringsInv
  <2>4. /\ S!OutsideUntouched' <=> S!OutsideUntouched
        /\ S!CopiesExact' <=> S!CopiesExact
        /\ S!ComparesUnsigned' <=> S!ComparesUnsigned
    <3>1. \A k : S!Difference(k)' = S!Difference(k) /\ S!Differ(k)' = S!Differ(k)
      BY <2>1 DEF S!Difference, S!Differ, S!p, S!q
    <3>2. S!OutsideUntouched' <=> S!OutsideUntouched
      BY <2>1 DEF S!OutsideUntouched, S!p, S!q
    <3>3. S!CopiesExact' <=> S!CopiesExact
      BY <2>1 DEF S!CopiesExact, S!Copied, S!Truncates, S!p, S!q
    <3>4. S!ComparesUnsigned' <=> S!ComparesUnsigned
      BY <2>1, <3>1 DEF S!ComparesUnsigned, S!Deviates, S!IsPrefix, S!LenString, S!LenPrefix,
                        S!p, S!q
    <3> QED BY <3>2, <3>3, <3>4
  <2> QED BY <2>1, <2>3, <2>4 DEF LoopInv
<1> QED BY <1>1, <1>2 DEF Next

\* The functions of lib/string.c do what C says of them, in a memory of any size,
\* whatever bytes are in it, on every call C allows, but for strncpy with a source of
\* n characters or more and the calls on which StartsWith is no prefix test: no
\* iteration writes outside the n bytes of dst, and what they leave in it and return
\* is what C says.
THEOREM LibraryStrings == Spec => []StringsAsC
<1>1. Init => StringsInv
  BY StringsInvInit
<1>2. StringsInv /\ [Next]_vars => StringsInv'
  BY StringsInvNext
<1>3. StringsInv => StringsAsC
  BY StringsInvAsC
<1> QED BY <1>1, <1>2, <1>3, PTL DEF Spec

-----------------------------------------------------------------------------
(***************************************************************************)
(* The scan of a format.                                                   *)
(***************************************************************************)
\* What was written are positions of the format and conversions; text is in order, and
\* stems from below position b.
Item == [kind : {"text", "NULL"} \cup P!Char, at : Nat,
         type : {"char", "int", "long", "long long", "size_t", "char*"}]
InOrder(s) ==
    \A h, k \in DOMAIN s :
        h < k /\ s[h].kind = "text" /\ s[k].kind = "text" => s[h].at < s[k].at
Below(s, b) == \A k \in DOMAIN s : s[k].kind = "text" => s[k].at < b

\* Positions are numbers.
LEMMA Positions == \A s \in Seq(Item) : \A k \in DOMAIN s : s[k] \in Item /\ s[k].at \in Nat
<1> SUFFICES ASSUME NEW s \in Seq(Item), NEW k \in DOMAIN s PROVE s[k] \in Item /\ s[k].at \in Nat
  OBVIOUS
<1>1. s[k] \in Item
  OBVIOUS
<1> QED BY <1>1 DEF Item

\* A character of the format that is text.
LEMMA LiteralIs ==
    \A x \in Nat : P!Literal(x) \in Item /\ P!Literal(x).kind = "text" /\ P!Literal(x).at = x
  BY DEF P!Literal, Item

\* Text that is passed but not written lies from first on, or is skipped in a directive.
ScanInv ==
    /\ format \in Seq(P!Char) /\ out \in Seq(Item)
    /\ first \in Nat /\ last \in Nat /\ first <= last
    /\ format_mode \in BOOLEAN /\ done \in BOOLEAN
    /\ ~done /\ ~format_mode => InOrder(out) /\ Below(out, first)
    /\ ~done /\ format_mode => InOrder(out) /\ Below(out, last)
    /\ done /\ ~format_mode => InOrder(out)

\* write(first, last - first) adds the text in between.
LEMMA TextWritten ==
    ASSUME ScanInv, InOrder(out), Below(out, first)
    PROVE  /\ out \o P!Written \in Seq(Item)
           /\ InOrder(out \o P!Written) /\ Below(out \o P!Written, last)
<1> DEFINE w == P!Written
           s == out \o w
           l == Len(out)
<1>1. /\ out \in Seq(Item) /\ first \in Nat /\ last \in Nat /\ first <= last
      /\ l \in Nat /\ DOMAIN out = 1 .. l
  BY DEF ScanInv
<1>2. w = [k \in 1 .. last - first |-> P!Literal(first + k - 1)] /\ last - first \in Nat
  BY <1>1 DEF P!Written
<1>3. \A k \in 1 .. last - first :
         /\ w[k] \in Item /\ w[k].kind = "text" /\ w[k].at = first + k - 1
  <2> SUFFICES ASSUME NEW k \in 1 .. last - first
               PROVE  w[k] \in Item /\ w[k].kind = "text" /\ w[k].at = first + k - 1
    OBVIOUS
  <2>1. w[k] = P!Literal(first + k - 1)
    BY <1>2
  <2>2. first + k - 1 \in Nat
    BY <1>1
  <2> QED BY <2>1, <2>2, LiteralIs
<1> HIDE DEF w
<1>4. w \in Seq(Item) /\ Len(w) = last - first
  BY <1>2, <1>3
<1>5. /\ s \in Seq(Item) /\ DOMAIN s = 1 .. l + (last - first)
      /\ \A k \in 1 .. l : s[k] = out[k]
      /\ \A k \in l + 1 .. l + (last - first) : s[k] = w[k - l]
  BY <1>1, <1>4
<1> HIDE DEF s, l
<1>6. \A k \in 1 .. l + (last - first) :
         \/ k \in 1 .. l /\ s[k] = out[k]
         \/ k > l /\ s[k].kind = "text" /\ s[k].at = first + (k - l) - 1
  <2> SUFFICES ASSUME NEW k \in 1 .. l + (last - first), k \notin 1 .. l
               PROVE  k > l /\ s[k].kind = "text" /\ s[k].at = first + (k - l) - 1
    BY <1>5
  <2>1. k \in l + 1 .. l + (last - first) /\ k - l \in 1 .. last - first /\ k > l
    BY <1>1
  <2>2. s[k] = w[k - l]
    BY <1>5, <2>1
  <2>3. w[k - l].kind = "text" /\ w[k - l].at = first + (k - l) - 1
    BY <1>3, <2>1
  <2> QED BY <2>1, <2>2, <2>3
<1>7. \A k \in 1 .. l : out[k].kind = "text" => out[k].at \in Nat /\ out[k].at < first
  BY <1>1, Positions DEF Below
<1>8. Below(s, last)
  <2> SUFFICES ASSUME NEW k \in 1 .. l + (last - first), s[k].kind = "text" PROVE s[k].at < last
    BY <1>5 DEF Below
  <2> QED BY <1>1, <1>6, <1>7
<1>9. InOrder(s)
  <2> SUFFICES ASSUME NEW h \in 1 .. l + (last - first), NEW k \in 1 .. l + (last - first),
                      h < k, s[h].kind = "text", s[k].kind = "text"
               PROVE  s[h].at < s[k].at
    BY <1>5 DEF InOrder
  <2>1. CASE k \in 1 .. l
    <3>1. h \in 1 .. l /\ s[h] = out[h] /\ s[k] = out[k]
      BY <1>1, <1>5, <2>1
    <3>2. h \in DOMAIN out /\ k \in DOMAIN out
      BY <1>1, <2>1, <3>1
    <3> QED BY <3>1, <3>2 DEF InOrder
  <2>2. CASE k > l /\ s[k].at = first + (k - l) - 1
    BY <1>1, <1>6, <1>7, <2>2
  <2> QED BY <1>6, <2>1, <2>2
<1> QED BY <1>5, <1>8, <1>9 DEF s, w

\* A conversion is no text.
LEMMA ConversionWritten ==
    ASSUME ScanInv, InOrder(out), NEW b \in Nat, Below(out, b),
           NEW e \in Item, e.kind # "text"
    PROVE  Append(out, e) \in Seq(Item) /\ InOrder(Append(out, e)) /\ Below(Append(out, e), b)
<1> DEFINE s == Append(out, e)
<1>1. out \in Seq(Item) /\ Len(out) \in Nat /\ DOMAIN out = 1 .. Len(out)
  BY DEF ScanInv
<1>2. /\ s \in Seq(Item) /\ DOMAIN s = 1 .. Len(out) + 1
      /\ s[Len(out) + 1] = e /\ \A k \in 1 .. Len(out) : s[k] = out[k]
  BY <1>1
<1> HIDE DEF s
<1>3. \A k \in DOMAIN s : s[k].kind = "text" => k \in DOMAIN out /\ s[k] = out[k]
  <2>1. \A k \in DOMAIN s : k \in 1 .. Len(out) \/ k = Len(out) + 1
    BY <1>1, <1>2
  <2> QED BY <1>1, <1>2, <2>1
<1>4. InOrder(s) /\ Below(s, b)
  BY <1>3 DEF InOrder, Below
<1> QED BY <1>2, <1>4 DEF s

\* A step of the scan.
LEMMA ScanInvNext == ASSUME ScanInv, P!Next PROVE ScanInv'
<1>1. /\ format \in Seq(P!Char) /\ out \in Seq(Item)
      /\ first \in Nat /\ last \in Nat /\ first <= last
      /\ format_mode \in BOOLEAN /\ done \in BOOLEAN /\ format' = format
      /\ ~done /\ ~format_mode => InOrder(out) /\ Below(out, first)
      /\ ~done /\ format_mode => InOrder(out) /\ Below(out, last)
  BY DEF ScanInv, P!Next, P!Percent, P!Text, P!Modifier, P!Conversion, P!End
<1>2. \A x \in Nat, y \in Nat : x <= y /\ Below(out, x) => Below(out, y)
  <2>1. \A k \in DOMAIN out : out[k].at \in Nat
    BY <1>1, Positions
  <2> QED BY <2>1 DEF Below
<1>3. CASE P!Percent
  <2>1. /\ ~done /\ done' = done /\ format_mode' = ~format_mode /\ last' = last + 1
        /\ \/ format_mode /\ first' = last /\ out' = out
           \/ ~format_mode /\ out' = out \o P!Written /\ first' = first
    BY <1>3 DEF P!Percent, P!Scanning
  <2>2. CASE format_mode
    BY <1>1, <2>1, <2>2 DEF ScanInv
  <2>3. CASE ~format_mode
    <3>1. out' \in Seq(Item) /\ InOrder(out') /\ Below(out', last)
      BY <1>1, <2>1, <2>3, TextWritten
    <3>2. Below(out', last + 1)
      <4>1. \A k \in DOMAIN out' : out'[k].at \in Nat
        BY <3>1, Positions
      <4> QED BY <1>1, <3>1, <4>1 DEF Below
    <3>3. format_mode' = TRUE /\ done' = FALSE /\ first' = first
      BY <1>1, <2>1, <2>3
    <3> QED BY <1>1, <2>1, <3>1, <3>2, <3>3 DEF ScanInv
  <2> QED BY <2>2, <2>3
<1>4. CASE P!Text
  BY <1>1, <1>4 DEF ScanInv, P!Text, P!Scanning
<1>5. CASE P!Modifier
  <2>1. /\ ~done /\ format_mode /\ first' = last + 1 /\ last' = last + 1
        /\ format_mode' = format_mode /\ out' = out /\ done' = done
    BY <1>5 DEF P!Modifier, P!Scanning
  <2>2. Below(out, last + 1)
    BY <1>1, <1>2, <2>1
  <2> QED BY <1>1, <2>1, <2>2 DEF ScanInv
<1>6. CASE P!Conversion
  <2> DEFINE e == P!Printed(P!Current, P!VaArg(P!Current, n_long))
  <2>1. /\ ~done /\ format_mode /\ first' = last + 1 /\ last' = last + 1
        /\ format_mode' = FALSE /\ out' = Append(out, e) /\ done' = done
        /\ P!Current \in {"d", "u", "s", "c", "x", "p"}
    BY <1>6 DEF P!Conversion, P!Scanning
  <2>2. P!VaArg(P!Current, n_long) \in {"int", "long", "long long", "size_t", "char*"}
    BY <2>1 DEF P!VaArg
  <2>3. e \in Item /\ e.kind # "text"
    BY <2>1, <2>2 DEF P!Printed, P!Converted, Item, P!Char
  <2> HIDE DEF e
  <2>4. Below(out, last + 1) /\ last + 1 \in Nat
    BY <1>1, <1>2, <2>1
  <2>5. out' \in Seq(Item) /\ InOrder(out') /\ Below(out', last + 1)
    BY <1>1, <2>1, <2>3, <2>4, ConversionWritten
  <2>6. /\ format_mode' = FALSE /\ done' = FALSE /\ first' \in Nat /\ last' \in Nat
        /\ first' <= last'
    BY <1>1, <2>1
  <2>7. Below(out', first')
    BY <2>1, <2>5
  <2> QED BY <1>1, <2>5, <2>6, <2>7 DEF ScanInv
<1>7. CASE P!End
  <2>1. /\ ~done /\ done' = TRUE /\ out' = out \o P!Written
        /\ UNCHANGED <<first, last, format_mode>>
    BY <1>7 DEF P!End
  <2>2. CASE ~format_mode
    <3>1. out' \in Seq(Item) /\ InOrder(out')
      BY <1>1, <2>1, <2>2, TextWritten
    <3> QED BY <1>1, <2>1, <2>2, <3>1 DEF ScanInv
  <2>3. CASE format_mode
    <3>1. P!Written \in Seq(Item)
      <4>1. \A k \in 1 .. last - first : P!Literal(first + k - 1) \in Item
        <5> SUFFICES ASSUME NEW k \in 1 .. last - first PROVE P!Literal(first + k - 1) \in Item
          OBVIOUS
        <5>1. first + k - 1 \in Nat
          BY <1>1
        <5> QED BY <5>1, LiteralIs
      <4>2. last - first \in Nat
        BY <1>1
      <4> QED BY <4>1, <4>2 DEF P!Written
    <3>2. out' \in Seq(Item)
      BY <1>1, <2>1, <3>1
    <3> QED BY <1>1, <2>1, <2>3, <3>2 DEF ScanInv
  <2> QED BY <1>1, <2>2, <2>3
<1> QED BY <1>3, <1>4, <1>5, <1>6, <1>7 DEF P!Next

\* Whatever the format, of any length: no length generic_printf passes to write wraps,
\* and text is written in order and at most once, unless the format ends within a
\* directive.
THEOREM LibraryTextOnce == Spec => [](which = "Printf" => P!TextOnce)
<1> DEFINE I == which = "Printf" => ScanInv
<1>1. Init => I
  <2> SUFFICES ASSUME P!Init PROVE ScanInv
    BY DEF Init
  <2>1. /\ format \in P!BoundedSeq(P!Char, MaxLength) /\ first = 1 /\ last = 1
        /\ format_mode = FALSE /\ out = << >> /\ done = FALSE
    BY DEF P!Init
  <2>2. format \in Seq(P!Char)
    <3>1. PICK l \in 0 .. MaxLength : format \in [1 .. l -> P!Char]
      BY <2>1 DEF P!BoundedSeq, P!SeqOf
    <3>2. l \in Nat
      BY LibraryAssumption
    <3> QED BY <3>1, <3>2
  <2>3. << >> \in Seq(Item) /\ InOrder(<< >>) /\ Below(<< >>, 1)
    BY DEF InOrder, Below
  <2>4. out \in Seq(Item) /\ InOrder(out) /\ Below(out, first)
    BY <2>1, <2>3
  <2>5. first \in Nat /\ last \in Nat /\ first <= last
    BY <2>1
  <2> QED BY <2>1, <2>2, <2>4, <2>5 DEF ScanInv
<1>2. I /\ [Next]_vars => I'
  <2>1. ASSUME ScanInv, P!Next PROVE ScanInv'
    BY <2>1, ScanInvNext
  <2>2. ASSUME ScanInv, UNCHANGED vars PROVE ScanInv'
    BY <2>2 DEF ScanInv, vars, scan
  <2> QED BY <2>1, <2>2 DEF Next, vars
<1>3. I => (which = "Printf" => P!TextOnce)
  BY DEF ScanInv, P!TextOnce, InOrder
<1> QED BY <1>1, <1>2, <1>3, PTL DEF Spec
=============================================================================
