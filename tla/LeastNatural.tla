----------------------------- MODULE LeastNatural -----------------------------
(***************************************************************************)
(* The least-number principle in first-order form, which the other proofs  *)
(* use for the CHOOSE of a smallest index (the loops of readelf and of the *)
(* boot order that stop at the first match) and as their only induction.   *)
(***************************************************************************)
EXTENDS Integers, WellFoundedInduction, FiniteSetTheorems, TLAPS

\* A set of naturals that is not empty has a least element.
LEMMA LeastElement ==
    ASSUME NEW S \in SUBSET Nat, S # {}
    PROVE  \E m \in S : \A n \in S : m <= n
<1> DEFINE R == {p \in Nat \X Nat : p[1] < p[2]}
<1>1. IsWellFoundedOn(R, Nat)
  <2>1. OpToRel(<, Nat) = R
    BY Zenon DEF OpToRel
  <2> QED BY <2>1, NatLessThanWellFounded, Zenon
<1>2. \A n, k \in Nat : n < k => <<n, k>> \in R
  BY SMT
<1> HIDE DEF R
<1>3. PICK m \in S : \A n \in S : ~ (<<n, m>> \in R)
  BY <1>1, WFMin
<1>4. ASSUME NEW n \in S, n < m PROVE FALSE
  <2>1. n \in Nat /\ m \in Nat
    OBVIOUS
  <2>2. <<n, m>> \in R
    BY <1>2, <1>4, <2>1, Zenon
  <2> QED BY <1>3, <2>2, Zenon
<1>5. \A n \in S : n \in Nat /\ m \in Nat
  OBVIOUS
<1> QED BY <1>4, <1>5
-----------------------------------------------------------------------------
\* A finite set of naturals that is not empty has a greatest element.
LEMMA GreatestElement ==
    ASSUME NEW S \in SUBSET Nat, S # {}, IsFiniteSet(S)
    PROVE  \E m \in S : \A n \in S : n <= m
<1> DEFINE HasMax(U) == \E m \in U : \A n \in U : n <= m
           Bad == {n \in Nat : \E U \in SUBSET S : U # {} /\ Cardinality(U) = n /\ ~HasMax(U)}
<1> SUFFICES ASSUME ~HasMax(S) PROVE FALSE
  OBVIOUS
<1>1. \A U \in SUBSET S : IsFiniteSet(U) /\ Cardinality(U) \in Nat
  BY FS_Subset, FS_CardinalityType
<1>2. Cardinality(S) \in Bad
  BY <1>1
<1>3. PICK n \in Bad : \A k \in Bad : n <= k
  <2> HIDE DEF Bad
  <2>1. Bad \subseteq Nat
    BY DEF Bad
  <2> QED BY <1>2, <2>1, LeastElement
<1>4. PICK U \in SUBSET S : U # {} /\ Cardinality(U) = n /\ ~HasMax(U)
  OBVIOUS
<1>5. PICK x \in U : TRUE
  BY <1>4
<1>6. Cardinality(U \ {x}) = n - 1 /\ n \in Nat
  BY <1>1, <1>4, FS_RemoveElement
<1>7. U \ {x} # {}
  <2> SUFFICES ASSUME U \ {x} = {} PROVE FALSE
    OBVIOUS
  <2>1. U = {x} /\ x \in Nat
    OBVIOUS
  <2>2. HasMax(U)
    BY <2>1
  <2> QED BY <1>4, <2>2
<1>8. HasMax(U \ {x})
  <2> SUFFICES ASSUME ~HasMax(U \ {x}) PROVE FALSE
    OBVIOUS
  <2>1. U \ {x} \in SUBSET S
    OBVIOUS
  <2>2. Cardinality(U \ {x}) \in Nat
    BY <1>1, <2>1
  <2>3. Cardinality(U \ {x}) \in Bad
    BY <1>7, <2>1, <2>2
  <2> HIDE DEF Bad
  <2> QED BY <1>3, <1>6, <2>3
<1>9. PICK y \in U \ {x} : \A k \in U \ {x} : k <= y
  BY <1>8
<1>10. x \in Nat /\ y \in Nat /\ \A k \in U : k \in Nat
  OBVIOUS
<1>11. \A k \in U : k <= (IF x <= y THEN y ELSE x)
  BY <1>9, <1>10
<1>12. HasMax(U)
  BY <1>5, <1>9, <1>11
<1> QED BY <1>4, <1>12

\* The elements of a finite set of naturals are numbered by how many are smaller.
LEMMA RankIsBijection ==
    ASSUME NEW S \in SUBSET Nat, IsFiniteSet(S)
    PROVE  LET r == [x \in S |-> Cardinality({y \in S : y < x}) + 1] IN
           /\ Cardinality(S) \in Nat
           /\ r \in [S -> 1 .. Cardinality(S)]
           /\ \A x, z \in S : x < z => r[x] < r[z]
           /\ \A i \in 1 .. Cardinality(S) : \E x \in S : r[x] = i
<1> DEFINE Below(x) == {y \in S : y < x}
           r == [x \in S |-> Cardinality(Below(x)) + 1]
           n == Cardinality(S)
<1>1. n \in Nat
  BY FS_CardinalityType
<1>2. \A x \in S : IsFiniteSet(Below(x)) /\ Cardinality(Below(x)) \in Nat
  BY FS_Subset, FS_CardinalityType
<1>3. \A x \in S : IsFiniteSet(Below(x) \cup {x})
                   /\ Cardinality(Below(x) \cup {x}) = Cardinality(Below(x)) + 1
  <2> TAKE x \in S
  <2>1. x \notin Below(x)
    OBVIOUS
  <2> HIDE DEF Below
  <2> QED BY <1>2, <2>1, FS_AddElement
<1>4. \A x \in S : Cardinality(Below(x)) + 1 <= n
  <2> TAKE x \in S
  <2>1. Below(x) \cup {x} \in SUBSET S
    OBVIOUS
  <2> HIDE DEF Below
  <2>2. Cardinality(Below(x) \cup {x}) <= Cardinality(S)
    BY <2>1, FS_Subset
  <2> QED BY <1>3, <2>2
<1>5. r \in [S -> 1 .. n]
  <2> HIDE DEF Below, n
  <2> QED BY <1>1, <1>2, <1>4
<1>6. \A x, z \in S : x < z => r[x] < r[z]
  <2> SUFFICES ASSUME NEW x \in S, NEW z \in S, x < z PROVE r[x] < r[z]
    OBVIOUS
  <2>1. Below(x) \cup {x} \in SUBSET Below(z)
    <3>1. \A y \in S : y \in Nat /\ x \in Nat /\ z \in Nat
      OBVIOUS
    <3>2. \A y \in S : y < x => y < z
      BY <3>1
    <3> QED BY <3>2
  <2>2. Cardinality(Below(x)) + 1 <= Cardinality(Below(z))
    <3> HIDE DEF Below
    <3> QED BY <1>2, <1>3, <2>1, FS_Subset
  <2> HIDE DEF Below
  <2> QED BY <1>2, <2>2
<1>7. r \in Injection(S, 1 .. n)
  <2>1. \A x, z \in S : x # z => r[x] # r[z]
    <3> SUFFICES ASSUME NEW x \in S, NEW z \in S, x # z PROVE r[x] # r[z]
      OBVIOUS
    <3>1. r[x] \in Nat /\ r[z] \in Nat
      BY <1>5, <1>1 DEF n
    <3>2. x < z \/ z < x
      OBVIOUS
    <3> HIDE DEF r
    <3> QED BY <1>6, <3>1, <3>2
  <2> HIDE DEF r, n
  <2> QED BY <1>5, <2>1 DEF Injection, IsInjective
<1>8. IsFiniteSet(1 .. n) /\ Cardinality(1 .. n) = n
  <2> HIDE DEF n
  <2> QED BY <1>1, FS_Interval
<1>9. r \in Surjection(S, 1 .. n)
  <2> HIDE DEF r
  <2> QED BY <1>7, <1>8, FS_Injection DEF n
<1> HIDE DEF r, n
<1>10. \A i \in 1 .. n : \E x \in S : r[x] = i
  BY <1>9 DEF Surjection
<1> QED BY <1>1, <1>5, <1>6, <1>10 DEF r, n
=============================================================================
