------------------------------ MODULE DataLemmas ------------------------------
(***************************************************************************)
(* Facts about data that the proofs of several modules rest on: induction, *)
(* rising functions, division, matching and sums.                          *)
(*                                                                         *)
(* Induction is stated for the members of a set and rests on the library's *)
(* theorem that the naturals are well founded, so that no step has to      *)
(* instantiate an operator.                                                *)
(***************************************************************************)
EXTENDS Integers, Sequences, Functions, FiniteSets,
        FiniteSetTheorems, FunctionTheorems, WellFoundedInduction, TLAPS

------------------------------------------------------------------------------
(* Induction. *)

\* A set of numbers that is not empty has a least one.
LEMMA NatHasMinimum ==
  ASSUME NEW T \in SUBSET Nat, T # {}
  PROVE  \E m \in T : \A k \in T : m <= k
<1>1. IsWellFoundedOn(OpToRel(<, Nat), Nat)
  BY NatLessThanWellFounded
<1>2. PICK m \in T : \A k \in T : ~ (<<k, m>> \in OpToRel(<, Nat))
  BY <1>1, WFMin
<1>3. \A k \in T : <<k, m>> \in OpToRel(<, Nat) <=> k < m
  BY DEF OpToRel
<1>4. ASSUME NEW k \in T PROVE m <= k
  <2>1. ~ (k < m)
    BY <1>2, <1>3
  <2> QED
    BY <2>1
<1> QED
  BY <1>4

\* Induction over the naturals, for the members of a set.
LEMMA NatSetInduction ==
  ASSUME NEW T, 0 \in T, \A n \in Nat : n \in T => n + 1 \in T
  PROVE  Nat \subseteq T
<1> DEFINE U == Nat \ T
<1> SUFFICES ASSUME U # {} PROVE FALSE
  OBVIOUS
<1>1. PICK m \in U : \A k \in U : m <= k
  BY NatHasMinimum
<1>2. m \in Nat /\ m # 0 /\ m \notin T
  OBVIOUS
<1>3. m - 1 \in Nat /\ m - 1 \notin U
  BY <1>1, <1>2
<1>4. m - 1 \in T
  BY <1>3
<1>5. (m - 1) + 1 \in T
  BY <1>3, <1>4
<1> QED
  BY <1>2, <1>5

\* Induction over the subsets of a finite set, for the members of a set T of sets.
LEMMA FiniteSetInduction ==
  ASSUME NEW S, IsFiniteSet(S), NEW T, {} \in T,
         \A U \in SUBSET S : \A x \in S \ U : U \in T => U \cup {x} \in T
  PROVE  SUBSET S \subseteq T
<1> DEFINE Sizes == {n \in Nat : \A U \in SUBSET S : Cardinality(U) = n => U \in T}
<1>1. \A U \in SUBSET S : IsFiniteSet(U) /\ Cardinality(U) \in Nat
  BY FS_Subset, FS_CardinalityType
<1>2. 0 \in Sizes
  BY <1>1, FS_EmptySet
<1>3. ASSUME NEW n \in Nat, n \in Sizes
      PROVE  n + 1 \in Sizes
  <2> SUFFICES ASSUME NEW U \in SUBSET S, Cardinality(U) = n + 1
               PROVE  U \in T
    OBVIOUS
  <2>1. U # {}
    BY FS_EmptySet, n + 1 # 0
  <2>2. PICK x : x \in U
    BY <2>1
  <2>3. IsFiniteSet(U)
    BY <1>1
  <2>4. Cardinality(U \ {x}) = n
    <3>1. Cardinality(U \ {x}) = Cardinality(U) - 1
      BY <2>2, <2>3, FS_RemoveElement
    <3> QED
      BY <3>1
  <2>5. U \ {x} \in T
    BY <1>3, <2>4
  <2>6. (U \ {x}) \cup {x} = U /\ x \in S \ (U \ {x})
    BY <2>2
  <2> QED
    BY <2>5, <2>6
<1> HIDE DEF Sizes
<1>4. Nat \subseteq Sizes
  BY <1>2, <1>3, NatSetInduction
<1> QED
  BY <1>1, <1>4 DEF Sizes
------------------------------------------------------------------------------
(* Rising functions. *)

\* A rising function from 1..n into itself moves nothing.
LEMMA RisingIsIdentity ==
  ASSUME NEW n \in Nat, NEW f \in [1..n -> 1..n],
         \A i, j \in 1..n : i < j => f[i] < f[j]
  PROVE  \A i \in 1..n : f[i] = i
<1> DEFINE Above == {k \in Nat : k \in 1..n => k <= f[k]}
           Below == {k \in Nat : k \in 0..n - 1 => f[n - k] <= n - k}
<1>1. Nat \subseteq Above
  <2>1. 0 \in Above
    OBVIOUS
  <2>2. ASSUME NEW k \in Nat, k \in Above
        PROVE  k + 1 \in Above
    <3> SUFFICES ASSUME k + 1 \in 1..n PROVE k + 1 <= f[k + 1]
      OBVIOUS
    <3>1. CASE k = 0
      BY <3>1
    <3>2. CASE k # 0
      <4>1. k \in 1..n /\ k <= f[k]
        BY <2>2, <3>2
      <4>2. f[k] < f[k + 1]
        BY <4>1
      <4> QED
        BY <4>1, <4>2
    <3> QED
      BY <3>1, <3>2
  <2> HIDE DEF Above
  <2> QED
    BY <2>1, <2>2, NatSetInduction
<1>2. Nat \subseteq Below
  <2>1. 0 \in Below
    OBVIOUS
  <2>2. ASSUME NEW k \in Nat, k \in Below
        PROVE  k + 1 \in Below
    <3> SUFFICES ASSUME k + 1 \in 0..n - 1
                 PROVE  f[n - (k + 1)] <= n - (k + 1)
      OBVIOUS
    <3>1. n - k \in 1..n /\ n - (k + 1) \in 1..n /\ f[n - k] <= n - k
      BY <2>2
    <3>2. f[n - (k + 1)] < f[n - k]
      BY <3>1
    <3> QED
      BY <3>1, <3>2
  <2> HIDE DEF Below
  <2> QED
    BY <2>1, <2>2, NatSetInduction
<1>3. ASSUME NEW i \in 1..n
      PROVE  f[i] = i
  <2>1. i \in Above /\ n - i \in Below
    BY <1>1, <1>2
  <2>2. i <= f[i]
    BY <2>1
  <2>3. n - i \in 0..n - 1 /\ n - (n - i) = i
    OBVIOUS
  <2>4. f[i] <= i
    BY <2>1, <2>3
  <2> QED
    BY <2>2, <2>4
<1> QED
  BY <1>3

------------------------------------------------------------------------------
(* Division. *)

\* Quotient and remainder.
LEMMA Division ==
  ASSUME NEW m \in Nat \ {0}, NEW a \in Int
  PROVE  /\ a \div m \in Int
         /\ a % m \in 0..m - 1
         /\ a = m * (a \div m) + (a % m)
  OBVIOUS

\* ... are the only ones.
LEMMA DivisionUnique ==
  ASSUME NEW m \in Nat \ {0}, NEW a \in Int, NEW q \in Int, NEW r \in 0..m - 1,
         a = m * q + r
  PROVE  a \div m = q /\ a % m = r
  OBVIOUS

\* Sums may be reduced as they are made.
LEMMA ReducedSum ==
  ASSUME NEW m \in Nat \ {0}, NEW a \in Int, NEW b \in Int
  PROVE  ((a % m) + b) % m = (a + b) % m
<1>1. PICK q \in Int, r \in Int : q = a \div m /\ r = a % m /\ a = m * q + r
  BY Division
<1>2. PICK s \in Int : s = r + b
  OBVIOUS
<1>3. PICK p \in Int, t \in 0..m - 1 : t = s % m /\ s = m * p + t
  BY <1>2, Division
<1>4. a + b = m * (q + p) + t
  BY <1>1, <1>2, <1>3
<1>5. q + p \in Int /\ a + b \in Int
  OBVIOUS
<1>6. (a + b) % m = t
  BY <1>3, <1>4, <1>5, DivisionUnique
<1> QED
  BY <1>1, <1>2, <1>3, <1>6

\* Two summands may be added modulo m in either order.
LEMMA ReducedSumSwaps ==
  ASSUME NEW m \in Nat \ {0}, NEW a \in Int, NEW b \in Int, NEW c \in Int
  PROVE  (((a + b) % m) + c) % m = (((a + c) % m) + b) % m
<1>1. PICK s \in Int, t \in Int : s = a + b /\ t = a + c
  OBVIOUS
<1>2. ((s % m) + c) % m = (s + c) % m /\ ((t % m) + b) % m = (t + b) % m
  BY ReducedSum
<1>3. s + c = t + b
  BY <1>1
<1> QED
  BY <1>1, <1>2, <1>3

------------------------------------------------------------------------------
(* Matching. *)

\* Sets that hold as many members of each kind match, member by member.
LEMMA EqualCountsMatch ==
  ASSUME NEW S, IsFiniteSet(S), NEW T, IsFiniteSet(T),
         NEW Kind, NEW a \in [S -> Kind], NEW b \in [T -> Kind],
         \A k \in Kind : Cardinality({i \in S : a[i] = k}) = Cardinality({j \in T : b[j] = k})
  PROVE  \E f \in Bijection(S, T) : \A i \in S : b[f[i]] = a[i]
<1> DEFINE Of(k) == {i \in S : a[i] = k}
           To(k) == {j \in T : b[j] = k}
           match == [k \in Kind |-> CHOOSE f : f \in Bijection(Of(k), To(k))]
           f == [i \in S |-> match[a[i]][i]]
<1>1. ASSUME NEW k \in Kind
      PROVE  match[k] \in Bijection(Of(k), To(k))
  <2>1. IsFiniteSet(Of(k)) /\ IsFiniteSet(To(k))
    BY FS_Subset
  <2>2. ExistsBijection(Of(k), To(k))
    BY <2>1, FS_SameCardinalityBij
  <2>3. \E g : g \in Bijection(Of(k), To(k))
    BY <2>2 DEF ExistsBijection
  <2> HIDE DEF Of, To
  <2> QED
    BY <2>3
<1> HIDE DEF match
<1>2. ASSUME NEW k \in Kind
      PROVE  /\ match[k] \in [Of(k) -> To(k)]
             /\ \A i, j \in Of(k) : match[k][i] = match[k][j] => i = j
             /\ \A t \in To(k) : \E i \in Of(k) : match[k][i] = t
  <2> HIDE DEF Of, To
  <2> QED
    BY <1>1, Fun_BijectionProperties
<1>3. ASSUME NEW i \in S
      PROVE  f[i] \in T /\ b[f[i]] = a[i]
  <2>1. i \in Of(a[i]) /\ a[i] \in Kind
    OBVIOUS
  <2>2. match[a[i]][i] \in To(a[i])
    <3> HIDE DEF Of, To, f
    <3>1. match[a[i]] \in [Of(a[i]) -> To(a[i])]
      BY <2>1, <1>2
    <3> QED
      BY <2>1, <3>1
  <2> QED
    BY <2>2
<1>4. ASSUME NEW i \in S, NEW j \in S, f[i] = f[j]
      PROVE  i = j
  <2>1. a[i] = a[j]
    BY <1>3, <1>4
  <2>2. i \in Of(a[i]) /\ j \in Of(a[i]) /\ a[i] \in Kind
    BY <2>1
  <2>3. match[a[i]][i] = match[a[i]][j]
    BY <1>4, <2>1
  <2> QED
    BY <1>2, <2>2, <2>3
<1>5. ASSUME NEW t \in T
      PROVE  \E i \in S : f[i] = t
  <2>1. t \in To(b[t]) /\ b[t] \in Kind
    OBVIOUS
  <2>2. PICK i \in Of(b[t]) : match[b[t]][i] = t
    BY <1>2, <2>1
  <2>3. a[i] = b[t] /\ i \in S
    BY <2>2
  <2> QED
    BY <2>2, <2>3
<1>6. f \in [S -> T]
  BY <1>3
<1>7. f \in Bijection(S, T)
  <2> HIDE DEF f
  <2> QED
    BY <1>4, <1>5, <1>6, Fun_IsBij
<1> QED
  BY <1>3, <1>7

LEMMA CountUpTo ==
  ASSUME NEW n \in Nat
  PROVE  IsFiniteSet(1..n) /\ Cardinality(1..n) = n
<1>1. IsFiniteSet(1..n) /\ Cardinality(1..n) = IF 1 > n THEN 0 ELSE n - 1 + 1
  BY FS_Interval
<1> QED
  BY <1>1

\* k numbers do not fit below k.
LEMMA OneTooMany ==
  ASSUME NEW k \in Nat, NEW q \in [1..k -> 1..k - 1], k # 0
  PROVE  \E i, j \in 1..k : i # j /\ q[i] = q[j]
<1>1. PICK n \in Nat : n = k - 1
  OBVIOUS
<1>2. IsFiniteSet(1..k) /\ Cardinality(1..k) = k
  BY CountUpTo
<1>3. IsFiniteSet(1..n) /\ Cardinality(1..n) = n
  BY CountUpTo
<1>4. PICK S, T : S = 1..k /\ T = 1..n
  OBVIOUS
<1>5. IsFiniteSet(S) /\ IsFiniteSet(T) /\ Cardinality(T) < Cardinality(S) /\ q \in [S -> T]
  BY <1>1, <1>2, <1>3, <1>4
<1>6. \E i, j \in S : i # j /\ q[i] = q[j]
  BY <1>5, FS_PigeonHole
<1> QED
  BY <1>4, <1>6

------------------------------------------------------------------------------
(* Sums over the subsets of a finite set. *)

\* sum[U] is what e adds up to over each U within S.
Adds(sum, e, S) ==
  /\ sum \in [SUBSET S -> Int]
  /\ sum[{}] = 0
  /\ \A U \in SUBSET S : \A x \in S \ U : sum[U \cup {x}] = sum[U] + e[x]

LEMMA SumExists ==
  ASSUME NEW S, IsFiniteSet(S), NEW e \in [S -> Int]
  PROVE  \E sum : Adds(sum, e, S)
<1> DEFINE Summed == {U \in SUBSET S : \E sum : Adds(sum, e, U)}
<1>1. {} \in Summed
  <2> DEFINE sum == [U \in SUBSET {} |-> 0]
  <2>1. Adds(sum, e, {})
    BY DEF Adds
  <2> QED
    BY <2>1
<1>2. ASSUME NEW U \in SUBSET S, NEW x \in S \ U, U \in Summed
      PROVE  U \cup {x} \in Summed
  <2>1. PICK sum : Adds(sum, e, U)
    BY <1>2
  <2> DEFINE W == U \cup {x}
             more == [V \in SUBSET W |-> IF x \in V THEN sum[V \ {x}] + e[x] ELSE sum[V]]
  <2>2. more \in [SUBSET W -> Int]
    <3>1. ASSUME NEW V \in SUBSET W
          PROVE  V \ {x} \in SUBSET U /\ (x \notin V => V \in SUBSET U)
      OBVIOUS
    <3> QED
      BY <2>1, <3>1 DEF Adds
  <2>3. more[{}] = 0
    BY <2>1 DEF Adds
  <2>4. ASSUME NEW V \in SUBSET W, NEW y \in W \ V
        PROVE  more[V \cup {y}] = more[V] + e[y]
    <3>0. V \cup {y} \in SUBSET W /\ e[x] \in Int /\ e[y] \in Int
      OBVIOUS
    <3>1. CASE y = x
      <4>1. (V \cup {y}) \ {x} = V /\ x \in V \cup {y} /\ x \notin V
        BY <3>1
      <4> QED
        BY <3>0, <3>1, <4>1
    <3>2. CASE y # x /\ x \notin V
      <4>1. x \notin V \cup {y} /\ V \in SUBSET U /\ y \in U \ V
        BY <3>2
      <4>2. sum[V \cup {y}] = sum[V] + e[y]
        BY <2>1, <4>1 DEF Adds
      <4> QED
        BY <3>0, <3>2, <4>1, <4>2
    <3>3. CASE y # x /\ x \in V
      <4> DEFINE R == V \ {x}
      <4>1. x \in V \cup {y} /\ (V \cup {y}) \ {x} = R \cup {y}
        BY <3>3
      <4>2. R \in SUBSET U /\ y \in U \ R
        BY <3>3
      <4>3. sum[R \cup {y}] = sum[R] + e[y] /\ sum[R] \in Int
        BY <2>1, <4>2 DEF Adds
      <4>4. more[V \cup {y}] = sum[R \cup {y}] + e[x] /\ more[V] = sum[R] + e[x]
        BY <3>0, <3>3, <4>1
      <4> QED
        BY <3>0, <4>3, <4>4
    <3> QED
      BY <3>1, <3>2, <3>3
  <2>5. Adds(more, e, W)
    <3> HIDE DEF more
    <3> QED
      BY <2>2, <2>3, <2>4 DEF Adds
  <2> HIDE DEF more
  <2> QED
    BY <2>5
<1> HIDE DEF Summed
<1>3. S \in Summed
  BY <1>1, <1>2, FiniteSetInduction
<1> QED
  BY <1>3 DEF Summed

\* Matching sets of equal addends add up to the same.
LEMMA SumOfMatching ==
  ASSUME NEW S, IsFiniteSet(S), NEW T, NEW f \in Bijection(S, T),
         NEW e, NEW g, \A i \in S : g[f[i]] = e[i],
         NEW sum, Adds(sum, e, S), NEW total, Adds(total, g, T)
  PROVE  sum[S] = total[T]
<1> DEFINE Image(U) == {f[i] : i \in U}
           Same == {U \in SUBSET S : sum[U] = total[Image(U)]}
<1>0. /\ f \in [S -> T]
      /\ \A i, j \in S : f[i] = f[j] => i = j
      /\ \A t \in T : \E i \in S : f[i] = t
  BY Fun_BijectionProperties
<1>1. {} \in Same
  <2>1. Image({}) = {}
    OBVIOUS
  <2> QED
    BY <2>1 DEF Adds
<1>2. ASSUME NEW U \in SUBSET S, NEW x \in S \ U, U \in Same
      PROVE  U \cup {x} \in Same
  <2>1. Image(U \cup {x}) = Image(U) \cup {f[x]}
    OBVIOUS
  <2>2. Image(U) \in SUBSET T /\ f[x] \in T \ Image(U)
    BY <1>0
  <2> HIDE DEF Image
  <2>3. sum[U \cup {x}] = sum[U] + e[x]
    BY DEF Adds
  <2>4. total[Image(U) \cup {f[x]}] = total[Image(U)] + g[f[x]]
    BY <2>2 DEF Adds
  <2> QED
    BY <1>2, <2>1, <2>3, <2>4
<1>3. S \in Same
  <2> HIDE DEF Same
  <2> QED
    BY <1>1, <1>2, FiniteSetInduction
<1>4. Image(S) = T
  BY <1>0
<1> QED
  BY <1>3, <1>4
==============================================================================
