------------------------------ MODULE Induction ------------------------------
(***************************************************************************)
(* Division, minimum and maximum of sets of numbers, and induction.  A     *)
(* property is proved by induction as a set of numbers, those that have    *)
(* it, so that no fact here takes an operator.                             *)
(***************************************************************************)
EXTENDS Integers, FiniteSetsExt, FiniteSetTheorems, TLAPS

\* Division, and multiples that differ.
LEMMA DivMod ==
  ASSUME NEW n \in Nat \ {0}, NEW a \in Nat
  PROVE  a = n * (a \div n) + (a % n) /\ a % n \in 0..n-1 /\ a \div n \in Nat
OBVIOUS

LEMMA Multiples ==
  ASSUME NEW n \in Nat \ {0}, NEW p \in Nat, NEW q \in Nat, p < q
  PROVE  n * q >= n * p + n
<1>1. q - p \in Nat /\ q - p >= 1
  OBVIOUS
<1>2. n * (q - p) >= n
  BY <1>1
<1>3. n * (q - p) = n * q - n * p
  OBVIOUS
<1> QED BY <1>2, <1>3

\* A set of numbers that is not empty has a least one.
LEMMA Least ==
  ASSUME NEW T \in SUBSET Nat, T # {}
  PROVE  \E x \in T : \A y \in T : x <= y
<1> DEFINE R == OpToRel(<, Nat)
<1>1. IsWellFoundedOn(R, Nat)
  BY NatLessThanWellFounded
<1>2. \A x, y \in Nat : y < x => <<y, x>> \in R
  BY DEF OpToRel
<1> HIDE DEF R
<1>3. PICK x \in T : \A y \in T : ~ (<<y, x>> \in R)
  BY <1>1, WFMin
<1>4. x \in Nat /\ \A y \in T : y \in Nat /\ ~ (y < x)
  BY <1>2, <1>3
<1>5. \A y \in T : x <= y
  BY <1>4
<1> QED BY <1>5

\* What holds of 0, and of n + 1 if of n, holds of every number.
LEMMA Induct ==
  ASSUME NEW S, 0 \in S, \A n \in Nat : n \in S => n + 1 \in S
  PROVE  Nat \subseteq S
<1> SUFFICES ASSUME NEW k \in Nat, k \notin S PROVE FALSE
  OBVIOUS
<1> DEFINE T == {n \in Nat : n \notin S}
<1>1. PICK x \in T : \A y \in T : x <= y
  BY Least
<1>2. x # 0 /\ x - 1 \in Nat
  BY <1>1
<1>3. x - 1 \in S
  BY <1>1, <1>2
<1> QED BY <1>1, <1>2, <1>3

\* Min and Max of the community modules.
LEMMA MinNat ==
  ASSUME NEW T \in SUBSET Nat, T # {}
  PROVE  Min(T) \in T /\ \A y \in T : Min(T) <= y
<1>1. \E x \in T : \A y \in T : x =< y
  BY Least
<1> QED BY <1>1 DEF Min

LEMMA Bounded ==
  ASSUME NEW T \in SUBSET Nat, IsFiniteSet(T)
  PROVE  \E b \in Nat : \A y \in T : y <= b
<1>1. PICK n \in Nat : ExistsSurjection(1..n, T)
  BY FS_NatSurjection
<1>2. PICK f \in Surjection(1..n, T) : TRUE
  BY <1>1 DEF ExistsSurjection
<1>3. f \in [1..n -> T] /\ \A y \in T : \E i \in 1..n : f[i] = y
  BY <1>2 DEF Surjection
<1>a. \A i \in 1..n : f[i] \in Nat
  BY <1>3
<1> DEFINE S == {k \in Nat : k <= n => \E b \in Nat : \A i \in 1..k : f[i] <= b}
<1>4. 0 \in S
  OBVIOUS
<1>5. ASSUME NEW k \in Nat, k \in S PROVE k + 1 \in S
  <2> SUFFICES ASSUME k + 1 <= n PROVE \E b \in Nat : \A i \in 1..k+1 : f[i] <= b
    OBVIOUS
  <2>1. PICK b \in Nat : \A i \in 1..k : f[i] <= b
    BY <1>5
  <2>2. f[k+1] \in Nat
    <3>1. k + 1 \in 1..n
      OBVIOUS
    <3> QED BY <1>a, <3>1
  <2>a. \A i \in 1..k+1 : i \in 1..k \/ i = k + 1
    OBVIOUS
  <2>3. CASE f[k+1] <= b
    <3>1. \A i \in 1..k+1 : f[i] <= b
      BY <2>1, <2>3, <2>a
    <3> QED BY <3>1
  <2>4. CASE f[k+1] > b
    <3>1. \A i \in 1..k+1 : f[i] <= f[k+1]
      <4> SUFFICES ASSUME NEW i \in 1..k+1 PROVE f[i] <= f[k+1]
        OBVIOUS
      <4>1. CASE i = k + 1
        BY <2>2, <4>1
      <4>2. CASE i \in 1..k
        <5>1. f[i] \in Nat
          BY <1>a, <4>2
        <5> QED BY <2>1, <2>2, <2>4, <4>2, <5>1
      <4> QED BY <2>a, <4>1, <4>2
    <3> QED BY <2>2, <3>1
  <2>5. f[k+1] <= b \/ f[k+1] > b
    BY <2>2
  <2> QED BY <2>3, <2>4, <2>5
<1> HIDE DEF S
<1>6. n \in S
  BY <1>4, <1>5, Induct
<1>7. \E b \in Nat : \A i \in 1..n : f[i] <= b
  BY <1>6 DEF S
<1> QED BY <1>3, <1>7

LEMMA MaxNat ==
  ASSUME NEW T \in SUBSET Nat, IsFiniteSet(T), T # {}
  PROVE  Max(T) \in T /\ \A y \in T : Max(T) >= y
<1> DEFINE B == {b \in Nat : \A y \in T : y <= b}
<1>1. B # {}
  BY Bounded
<1>2. PICK b \in B : \A c \in B : b <= c
  BY <1>1, Least
<1>3. b \in T
  <2> SUFFICES ASSUME b \notin T PROVE FALSE
    OBVIOUS
  <2>1. PICK y \in T : TRUE
    OBVIOUS
  <2>2. \A z \in T : z < b
    BY <1>2
  <2>3. b - 1 \in Nat
    BY <2>1, <2>2
  <2>4. b - 1 \in B
    BY <2>2, <2>3
  <2> QED BY <1>2, <2>4
<1>4. \E x \in T : \A y \in T : x >= y
  BY <1>2, <1>3
<1> QED BY <1>4 DEF Max

-----------------------------------------------------------------------------
(***************************************************************************)
(* Sums over a finite set.  A fold of the community modules is a recursive *)
(* function on the subsets of its set that takes the elements in the order *)
(* of CHOOSE: Adds(g, f, S) says that g is that function for the numbers   *)
(* f.  It exists, and the order does not matter.                           *)
(***************************************************************************)
AddNext(g, f, s) ==
  IF s = {} THEN 0
  ELSE LET x == CHOOSE y \in s : TRUE IN f[x] + g[s \ {x}]
Adds(g, f, S) == g = [s \in SUBSET S |-> AddNext(g, f, s)]
SumOver(f, S) == (CHOOSE g : Adds(g, f, S))[S]

\* What remains when an element leaves a subset of a finite set.
LEMMA Without ==
  ASSUME NEW S, IsFiniteSet(S), NEW s \in SUBSET S, NEW x \in s
  PROVE  /\ IsFiniteSet(s) /\ s \ {x} \in SUBSET S
         /\ Cardinality(s) \in Nat /\ Cardinality(s \ {x}) \in Nat
         /\ Cardinality(s) = Cardinality(s \ {x}) + 1
<1>1. IsFiniteSet(s)
  BY FS_Subset
<1>2. Cardinality(s) \in Nat /\ Cardinality(s \ {x}) = Cardinality(s) - 1
  BY <1>1, FS_RemoveElement, FS_CardinalityType
<1>3. Cardinality(s \ {x}) \in Nat
  BY <1>1, FS_RemoveElement, FS_CardinalityType
<1> QED BY <1>1, <1>2, <1>3

LEMMA NoElement ==
  ASSUME NEW S, IsFiniteSet(S), NEW s \in SUBSET S, Cardinality(s) <= 0
  PROVE  s = {}
<1>1. IsFiniteSet(s)
  BY FS_Subset
<1>2. Cardinality(s) \in Nat
  BY <1>1, FS_CardinalityType
<1> QED BY <1>1, <1>2, FS_EmptySet

\* The recursion has a solution.
LEMMA AddsExists ==
  ASSUME NEW S, IsFiniteSet(S), NEW f, \A x \in S : f[x] \in Nat
  PROVE  \E g : Adds(g, f, S) /\ g \in [SUBSET S -> Nat]
<1> DEFINE Upto(g, k) == \A s \in SUBSET S : Cardinality(s) <= k => g[s] = AddNext(g, f, s)
           T == {k \in Nat : \E g \in [SUBSET S -> Nat] : Upto(g, k)}
<1>1. 0 \in T
  <2> DEFINE g == [s \in SUBSET S |-> 0]
  <2>1. ASSUME NEW s \in SUBSET S, Cardinality(s) <= 0 PROVE s = {}
    BY <2>1, NoElement
  <2>2. Upto(g, 0)
    BY <2>1 DEF AddNext
  <2>3. g \in [SUBSET S -> Nat]
    OBVIOUS
  <2> QED BY <2>2, <2>3
<1>2. ASSUME NEW k \in Nat, k \in T PROVE k + 1 \in T
  <2>1. PICK g \in [SUBSET S -> Nat] : Upto(g, k)
    BY <1>2
  <2> DEFINE e == [s \in SUBSET S |-> IF Cardinality(s) <= k + 1 THEN AddNext(g, f, s) ELSE 0]
  <2>2. ASSUME NEW s \in SUBSET S PROVE AddNext(g, f, s) \in Nat
    <3>1. CASE s = {}
      BY <3>1 DEF AddNext
    <3>2. CASE s # {}
      <4>1. PICK x : x = (CHOOSE y \in s : TRUE)
        OBVIOUS
      <4>2. x \in s
        BY <3>2, <4>1
      <4>3. s \ {x} \in SUBSET S /\ g[s \ {x}] \in Nat /\ f[x] \in Nat
        BY <4>2
      <4>4. AddNext(g, f, s) = f[x] + g[s \ {x}]
        BY <3>2, <4>1 DEF AddNext
      <4> QED BY <4>3, <4>4
    <3> QED BY <3>1, <3>2
  <2>3. e \in [SUBSET S -> Nat]
    BY <2>2
  <2>4. ASSUME NEW s \in SUBSET S, Cardinality(s) <= k + 1 PROVE e[s] = AddNext(e, f, s)
    <3>1. e[s] = AddNext(g, f, s)
      BY <2>4
    <3>2. CASE s = {}
      BY <3>1, <3>2 DEF AddNext
    <3>3. CASE s # {}
      <4>1. PICK x : x = (CHOOSE y \in s : TRUE)
        OBVIOUS
      <4>2. x \in s
        BY <3>3, <4>1
      <4>3. s \ {x} \in SUBSET S /\ Cardinality(s \ {x}) <= k
        BY <2>4, <4>2, Without
      <4>4. g[s \ {x}] = AddNext(g, f, s \ {x})
        BY <2>1, <4>3
      <4>5. Cardinality(s \ {x}) <= k + 1
        BY <4>2, <4>3, Without
      <4>6. e[s \ {x}] = AddNext(g, f, s \ {x})
        BY <4>3, <4>5
      <4> QED BY <3>1, <3>3, <4>1, <4>4, <4>6 DEF AddNext
    <3> QED BY <3>2, <3>3
  <2> HIDE DEF e
  <2>5. Upto(e, k + 1)
    BY <2>4
  <2> QED BY <2>3, <2>5
<1> HIDE DEF T
<1>3. Cardinality(S) \in Nat /\ Cardinality(S) \in T
  BY <1>1, <1>2, Induct, FS_CardinalityType
<1>4. PICK g \in [SUBSET S -> Nat] : Upto(g, Cardinality(S))
  BY <1>3 DEF T
<1>5. ASSUME NEW s \in SUBSET S PROVE g[s] = AddNext(g, f, s)
  <2>1. Cardinality(s) <= Cardinality(S)
    BY FS_Subset
  <2> QED BY <1>4, <2>1
<1>6. g = [s \in SUBSET S |-> AddNext(g, f, s)]
  BY <1>5
<1> QED BY <1>6 DEF Adds

\* Two sums of the same numbers are equal.
LEMMA AddsAgree ==
  ASSUME NEW S, IsFiniteSet(S), NEW f, NEW g, Adds(g, f, S),
         NEW T, NEW e, NEW k, Adds(k, e, T),
         NEW s \in SUBSET S, s \in SUBSET T, \A x \in s : e[x] = f[x]
  PROVE  g[s] = k[s]
<1> DEFINE N == {n \in Nat : \A r \in SUBSET s : Cardinality(r) <= n => g[r] = k[r]}
<1>1. ASSUME NEW r \in SUBSET s
      PROVE  g[r] = AddNext(g, f, r) /\ k[r] = AddNext(k, e, r)
  BY DEF Adds
<1>2. ASSUME NEW r \in SUBSET s, NEW n \in Nat, Cardinality(r) <= n + 1,
             \A q \in SUBSET s : Cardinality(q) <= n => g[q] = k[q]
      PROVE  g[r] = k[r]
  <2>1. CASE r = {}
    BY <1>1, <2>1 DEF AddNext
  <2>2. CASE r # {}
    <3>1. PICK x : x = (CHOOSE y \in r : TRUE)
      OBVIOUS
    <3>2. x \in r
      BY <2>2, <3>1
    <3>3. r \ {x} \in SUBSET s /\ Cardinality(r \ {x}) <= n
      BY <1>2, <3>2, Without
    <3>4. g[r] = f[x] + g[r \ {x}] /\ k[r] = e[x] + k[r \ {x}]
      BY <1>1, <2>2, <3>1 DEF AddNext
    <3> QED BY <1>2, <3>2, <3>3, <3>4
  <2> QED BY <2>1, <2>2
<1>3. 0 \in N
  <2> SUFFICES ASSUME NEW r \in SUBSET s, Cardinality(r) <= 0 PROVE g[r] = k[r]
    OBVIOUS
  <2>1. r = {}
    BY NoElement
  <2> QED BY <1>1, <2>1 DEF AddNext
<1>4. ASSUME NEW n \in Nat, n \in N PROVE n + 1 \in N
  BY <1>2, <1>4
<1> HIDE DEF N
<1>5. IsFiniteSet(s) /\ Cardinality(s) \in Nat
  BY FS_Subset, FS_CardinalityType
<1>6. Cardinality(s) \in N
  BY <1>3, <1>4, <1>5, Induct
<1> QED BY <1>5, <1>6 DEF N

\* Any element may be taken first.
LEMMA AddsRemove ==
  ASSUME NEW S, IsFiniteSet(S), NEW f, \A x \in S : f[x] \in Nat,
         NEW g \in [SUBSET S -> Nat], Adds(g, f, S), NEW s \in SUBSET S, NEW t \in s
  PROVE  g[s] = f[t] + g[s \ {t}]
<1> DEFINE Any(r) == \A x \in r : g[r] = f[x] + g[r \ {x}]
           N == {n \in Nat : \A r \in SUBSET S : Cardinality(r) <= n => Any(r)}
<1>1. 0 \in N
  <2> SUFFICES ASSUME NEW r \in SUBSET S, Cardinality(r) <= 0 PROVE Any(r)
    OBVIOUS
  <2>1. r = {}
    BY NoElement
  <2> QED BY <2>1
<1>2. ASSUME NEW n \in Nat, n \in N PROVE n + 1 \in N
  <2> SUFFICES ASSUME NEW r \in SUBSET S, Cardinality(r) <= n + 1, NEW x \in r
               PROVE  g[r] = f[x] + g[r \ {x}]
    OBVIOUS
  <2>1. PICK y : y = (CHOOSE z \in r : TRUE)
    OBVIOUS
  <2>2. y \in r
    BY <2>1
  <2>3. g[r] = f[y] + g[r \ {y}]
    BY <2>1, <2>2 DEF Adds, AddNext
  <2>4. CASE x # y
    <3>1. /\ r \ {x} \in SUBSET S /\ Cardinality(r \ {x}) <= n
          /\ r \ {y} \in SUBSET S /\ Cardinality(r \ {y}) <= n
      BY <2>2, Without
    <3>2. x \in r \ {y} /\ y \in r \ {x} /\ (r \ {x}) \ {y} = (r \ {y}) \ {x}
      BY <2>2, <2>4
    <3>3. g[r \ {y}] = f[x] + g[(r \ {y}) \ {x}]
      BY <1>2, <3>1, <3>2
    <3>4. g[r \ {x}] = f[y] + g[(r \ {x}) \ {y}]
      BY <1>2, <3>1, <3>2
    <3>5. PICK a, b, c \in Nat : a = f[x] /\ b = f[y] /\ c = g[(r \ {x}) \ {y}]
      BY <2>2
    <3>6. g[r \ {y}] = a + c /\ g[r \ {x}] = b + c /\ g[r] = b + g[r \ {y}]
      BY <2>3, <3>2, <3>3, <3>4, <3>5
    <3> QED BY <3>5, <3>6
  <2> QED BY <2>3, <2>4
<1> HIDE DEF N
<1>3. IsFiniteSet(s) /\ Cardinality(s) \in Nat
  BY FS_Subset, FS_CardinalityType
<1>4. Cardinality(s) \in N
  BY <1>1, <1>2, <1>3, Induct
<1> QED BY <1>3, <1>4 DEF N

\* A fold that adds is the sum, whichever way it is written.
LEMMA SumIs ==
  ASSUME NEW S, IsFiniteSet(S), NEW f, \A x \in S : f[x] \in Nat, NEW g, Adds(g, f, S)
  PROVE  g[S] = SumOver(f, S)
<1>1. Adds(CHOOSE k : Adds(k, f, S), f, S)
  BY AddsExists
<1> QED BY <1>1, AddsAgree DEF SumOver

LEMMA SumEmpty == ASSUME NEW f PROVE SumOver(f, {}) = 0
<1> DEFINE G == CHOOSE g : Adds(g, f, {})
<1>1. Adds(G, f, {})
  BY FS_EmptySet, AddsExists
<1> HIDE DEF G
<1>2. G[{}] = 0
  BY <1>1 DEF Adds, AddNext
<1> QED BY <1>2 DEF SumOver, G

\* An element adds its number.
LEMMA SumRemove ==
  ASSUME NEW S, IsFiniteSet(S), NEW f, \A x \in S : f[x] \in Nat, NEW t \in S
  PROVE  SumOver(f, S) = f[t] + SumOver(f, S \ {t}) /\ SumOver(f, S \ {t}) \in Nat
<1>1. PICK g \in [SUBSET S -> Nat] : Adds(g, f, S)
  BY AddsExists
<1> DEFINE T == S \ {t}
<1>2. IsFiniteSet(T) /\ \A x \in T : f[x] \in Nat
  BY FS_Subset
<1>3. PICK k : Adds(k, f, T)
  BY <1>2, AddsExists
<1>4. g[S] = SumOver(f, S) /\ k[T] = SumOver(f, T)
  BY <1>1, <1>2, <1>3, SumIs
<1>5. g[T] = k[T]
  <2>1. T \in SUBSET S /\ T \in SUBSET T /\ \A x \in T : f[x] = f[x]
    OBVIOUS
  <2> HIDE DEF T
  <2> QED BY <1>1, <1>3, <2>1, AddsAgree
<1>6. g[S] = f[t] + g[T] /\ g[T] \in Nat
  <2>1. g[S] = f[t] + g[S \ {t}]
    BY <1>1, AddsRemove
  <2> QED BY <1>1, <2>1
<1> QED BY <1>4, <1>5, <1>6

\* Only the numbers in the set count.
LEMMA SumSame ==
  ASSUME NEW S, IsFiniteSet(S), NEW f, NEW e, \A x \in S : f[x] \in Nat /\ e[x] = f[x]
  PROVE  SumOver(f, S) = SumOver(e, S)
<1>1. PICK g : Adds(g, f, S)
  BY AddsExists
<1>2. PICK k : Adds(k, e, S)
  BY AddsExists
<1>3. g[S] = SumOver(f, S) /\ k[S] = SumOver(e, S)
  BY <1>1, <1>2, SumIs
<1> QED BY <1>1, <1>2, <1>3, AddsAgree
=============================================================================
