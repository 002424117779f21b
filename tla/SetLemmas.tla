----------------------------- MODULE SetLemmas -----------------------------
(***************************************************************************)
(* Facts about finite sets that several proofs use.                        *)
(***************************************************************************)
EXTENDS Integers, FiniteSets, FiniteSetsExt, FiniteSetTheorems, FunctionTheorems,
        WellFoundedInduction, TLAPS

(* Of any subsets of a finite set there is one that contains no other: this *)
(* stands for an induction over finite sets.                                *)
LEMMA MinimalSet ==
    ASSUME NEW S, IsFiniteSet(S), NEW F, F \subseteq SUBSET S, F # {}
    PROVE  \E T \in F : \A U \in F : U \subseteq T => U = T
<1>1. FiniteSubsetsOf(S) = SUBSET S
  BY FS_FiniteSubsetsOfFinite
<1>2. IsWellFoundedOn(StrictSubsetOrdering(S), SUBSET S)
  BY <1>1, FS_StrictSubsetOrderingWellFounded
<1>3. PICK T \in F : \A U \in F : ~(<<U, T>> \in StrictSubsetOrdering(S))
  BY <1>2, WFMin
<1> QED
  BY <1>3 DEF StrictSubsetOrdering

(* A finite set of numbers that is not empty has a greatest one. *)
LEMMA MaxOfFinite ==
    ASSUME NEW S, S \subseteq Int, IsFiniteSet(S), S # {}
    PROVE  Max(S) \in S /\ \A x \in S : x <= Max(S)
<1> DEFINE Top(T) == \E m \in T : \A x \in T : x <= m
<1>1. SUFFICES ASSUME NEW F, F = {T \in SUBSET S : T # {} /\ ~Top(T)}, F # {}
               PROVE  FALSE
  <2>1. {T \in SUBSET S : T # {} /\ ~Top(T)} = {}
    BY <1>1
  <2>2. PICK m \in S : \A x \in S : x <= m
    BY <2>1
  <2> QED
    BY <2>2 DEF Max
<1>2. PICK T \in F : \A U \in F : U \subseteq T => U = T
  <2>1. F \subseteq SUBSET S
    BY <1>1
  <2>2. F # {}
    BY <1>1
  <2>3. IsFiniteSet(S)
    OBVIOUS
  <2> QED BY ONLY <2>1, <2>2, <2>3, MinimalSet
<1>3. PICK t \in T : TRUE
  BY <1>1, <1>2
<1>4. CASE T \ {t} = {}
  <2>1. T = {t} /\ t \in Int
    BY <1>1, <1>2, <1>3, <1>4
  <2>2. Top(T)
    BY <2>1
  <2> QED BY <1>1, <2>2
<1>5. CASE T \ {t} # {}
  <2>1. T \ {t} \subseteq S /\ T \ {t} # T /\ T \ {t} \subseteq T
    BY <1>1, <1>3
  <2>2. T \ {t} \notin F
    BY <1>2, <2>1
  <2>3. Top(T \ {t})
    BY <1>1, <1>5, <2>1, <2>2
  <2>4. PICK m \in T \ {t} : \A x \in T \ {t} : x <= m
    BY <2>3
  <2>5. t \in Int /\ m \in Int /\ \A x \in T : x \in Int
    BY <1>1, <1>3, <2>4
  <2>6. Top(T)
    <3>1. CASE t <= m
      BY <2>4, <2>5, <3>1
    <3>2. CASE m <= t
      BY <1>3, <2>4, <2>5, <3>2
    <3> QED BY <2>5, <3>1, <3>2
  <2> QED BY <1>1, <2>6
<1> QED
  BY <1>4, <1>5

(* The values of a function on a finite set are finitely many. *)
LEMMA FiniteImage ==
    ASSUME NEW S, IsFiniteSet(S), NEW f, DOMAIN f = S
    PROVE  IsFiniteSet({f[x] : x \in S})
<1> DEFINE R == {f[x] : x \in S}
           g == [x \in S |-> f[x]]
<1>1. g \in Surjection(S, R)
  <2>1. g \in [S -> R] /\ \A y \in R : \E x \in S : g[x] = y
    OBVIOUS
  <2> QED BY <2>1, Fun_IsSurj
<1> QED BY <1>1, FS_Surjection

(* A power of two counts the subsets of an interval. *)
LEMMA PowerIsNat ==
    ASSUME NEW n \in Nat
    PROVE  2^n \in Nat
<1>1. IsFiniteSet(1..n) /\ Cardinality(1..n) = n
  BY FS_Interval
<1>2. Cardinality(SUBSET (1..n)) = 2^n /\ IsFiniteSet(SUBSET (1..n))
  BY <1>1, FS_SUBSET
<1> QED
  BY <1>2, FS_CardinalityType

(* The number of elements of S up to x in the strict order R. *)
RankIn(S, R, x) == Cardinality({y \in S : y = x \/ <<y, x>> \in R})

(* A finite set with a strict total order is enumerated by the ranks of    *)
(* its elements.                                                           *)
LEMMA RankEnumerates ==
    ASSUME NEW S, IsFiniteSet(S), NEW R,
           \A x \in S : <<x, x>> \notin R,
           \A x, y, z \in S : <<x, y>> \in R /\ <<y, z>> \in R => <<x, z>> \in R,
           \A x, y \in S : x = y \/ <<x, y>> \in R \/ <<y, x>> \in R
    PROVE  /\ \A x \in S : RankIn(S, R, x) \in 1..Cardinality(S)
           /\ \A x, y \in S : <<x, y>> \in R => RankIn(S, R, x) < RankIn(S, R, y)
           /\ \A x, y \in S : RankIn(S, R, x) = RankIn(S, R, y) => x = y
           /\ \A i \in 1..Cardinality(S) : \E x \in S : RankIn(S, R, x) = i
<1> DEFINE upTo(x) == {y \in S : y = x \/ <<y, x>> \in R}
           n == Cardinality(S)
<1>1. n \in Nat
  BY FS_CardinalityType
<1>2. ASSUME NEW x \in S
      PROVE  IsFiniteSet(upTo(x)) /\ Cardinality(upTo(x)) \in 1..n
  <2>1. upTo(x) \in SUBSET S
    OBVIOUS
  <2>2. IsFiniteSet(upTo(x)) /\ Cardinality(upTo(x)) <= n
    BY <2>1, FS_Subset
  <2>3. Cardinality(upTo(x)) \in Nat
    BY <2>2, FS_CardinalityType
  <2>4. Cardinality(upTo(x)) # 0
    <3>1. upTo(x) # {}
      OBVIOUS
    <3> QED BY <2>2, <3>1, FS_EmptySet
  <2> QED BY ONLY <1>1, <2>2, <2>3, <2>4
<1>3. ASSUME NEW x \in S, NEW y \in S, <<x, y>> \in R
      PROVE  Cardinality(upTo(x)) < Cardinality(upTo(y))
  <2>1. upTo(x) \in SUBSET upTo(y)
    BY <1>3
  <2>2. y \in upTo(y) /\ y \notin upTo(x)
    BY <1>3
  <2>3. upTo(x) # upTo(y)
    BY <2>2
  <2>4. IsFiniteSet(upTo(y)) /\ Cardinality(upTo(x)) \in Int /\ Cardinality(upTo(y)) \in Int
    <3>1. IsFiniteSet(upTo(y))
      BY FS_Subset
    <3>2. Cardinality(upTo(x)) \in 1..n /\ Cardinality(upTo(y)) \in 1..n
      <4> HIDE DEF upTo
      <4> QED BY <1>2
    <3> QED BY <1>1, <3>1, <3>2
  <2>5. Cardinality(upTo(x)) <= Cardinality(upTo(y)) /\ Cardinality(upTo(x)) # Cardinality(upTo(y))
    BY <2>1, <2>3, <2>4, FS_Subset
  <2> HIDE DEF upTo
  <2> QED BY <2>4, <2>5
<1>4. ASSUME NEW x \in S, NEW y \in S, Cardinality(upTo(x)) = Cardinality(upTo(y))
      PROVE  x = y
  <2> HIDE DEF upTo
  <2>1. Cardinality(upTo(x)) \in Int
    BY <1>1, <1>2
  <2>2. <<x, y>> \notin R /\ <<y, x>> \notin R
    BY <1>3, <1>4, <2>1
  <2> QED BY <2>2
<1>5. \A i \in 1..n : \E x \in S : Cardinality(upTo(x)) = i
  <2> DEFINE f == [x \in S |-> Cardinality(upTo(x))]
  <2> HIDE DEF upTo
  <2>1. f \in [S -> 1..n] /\ \A x, y \in S : f[x] = f[y] => x = y
    BY <1>2, <1>4
  <2>2. f \in Injection(S, 1..n)
    <3> HIDE DEF f
    <3> QED BY <2>1, Fun_IsInj
  <2>3. IsFiniteSet(1..n) /\ Cardinality(1..n) = n
    BY <1>1, FS_Interval
  <2>4. f \in Surjection(S, 1..n)
    <3> HIDE DEF f
    <3> QED BY <2>2, <2>3, FS_Injection
  <2>5. \A i \in 1..n : \E x \in S : f[x] = i
    <3> HIDE DEF f
    <3> QED BY <2>4 DEF Surjection
  <2> QED BY <2>5
<1> QED
  <2>1. \A x \in S : RankIn(S, R, x) = Cardinality(upTo(x))
    BY DEF RankIn
  <2> HIDE DEF upTo
  <2> QED BY <1>2, <1>3, <1>4, <1>5, <2>1

(* What is true of 0 and of the successor of every number it is true of is *)
(* true of all numbers up to n: an induction over the set of these numbers.*)
LEMMA CountsUp ==
    ASSUME NEW n \in Nat, NEW G, G \subseteq 0..n, 0 \in G,
           \A i \in 0..(n - 1) : i \in G => i + 1 \in G
    PROVE  G = 0..n
<1>1. SUFFICES ASSUME NEW F, F = (0..n) \ G, F # {}
               PROVE  FALSE
  <2>1. (0..n) \ G = {}
    BY <1>1
  <2> QED BY <2>1
<1>2. F \subseteq 0..n /\ F \subseteq Int /\ F # {} /\ \A i \in 0..n : i \notin F => i \in G
  BY ONLY <1>1
<1> DEFINE N == {n - i : i \in F}
<1>3. N \in SUBSET (0..n) /\ N # {} /\ N \subseteq Int
  <2>1. \A i \in F : n - i \in 0..n /\ n - i \in Int
    BY ONLY <1>2, n \in Nat
  <2>2. N # {}
    BY ONLY <1>2
  <2> QED BY ONLY <2>1, <2>2
<1>4. IsFiniteSet(N)
  <2>1. IsFiniteSet(0..n)
    BY FS_Interval
  <2> HIDE DEF N
  <2> QED BY ONLY <1>3, <2>1, FS_Subset
<1>5. Max(N) \in N /\ \A x \in N : x <= Max(N)
  <2> HIDE DEF N
  <2> QED BY ONLY <1>3, <1>4, MaxOfFinite
<1>6. PICK m \in F : Max(N) = n - m
  BY ONLY <1>5
<1>7. \A i \in F : m <= i
  <2>1. \A i \in F : n - i <= n - m
    BY ONLY <1>5, <1>6
  <2> QED BY ONLY <1>2, <1>6, <2>1, n \in Nat
<1>8. m # 0 /\ m \in 0..n
  BY <1>1, <1>2, <1>6
<1>9. m - 1 \in 0..(n - 1) /\ m - 1 \in 0..n /\ m - 1 < m
  BY ONLY <1>8, n \in Nat
<1>10. m - 1 \in G
  BY ONLY <1>2, <1>7, <1>9, m \in Int
<1>11. (m - 1) + 1 \in G
  BY <1>9, <1>10
<1>12. (m - 1) + 1 = m
  BY <1>8
<1> QED
  BY ONLY <1>1, <1>6, <1>11, <1>12

(* A step g from values and indices to values, and the sequence it yields. *)
StepsIn(n, S, g) == \A v \in S : \A i \in 1..n : g[<<v, i>>] \in S
Iterates(f, n, S, b, g) == /\ f \in [0..n -> S]
                           /\ f[0] = b
                           /\ \A i \in 1..n : f[i] = g[<<f[i - 1], i>>]

(* A function of the numbers up to n that is defined by its value at 0 and *)
(* by a step exists.                                                       *)
LEMMA Iteration ==
    ASSUME NEW n \in Nat, NEW S, NEW b \in S, NEW g, StepsIn(n, S, g)
    PROVE  \E f : Iterates(f, n, S, b, g)
<1> DEFINE Good(m) == \E f \in [0..m -> S] : f[0] = b /\ \A i \in 1..m : f[i] = g[<<f[i - 1], i>>]
           G == {m \in 0..n : Good(m)}
<1>1. 0 \in G
  <2>1. [i \in 0..0 |-> b] \in [0..0 -> S]
    OBVIOUS
  <2>2. [i \in 0..0 |-> b][0] = b /\ \A i \in 1..0 : FALSE
    OBVIOUS
  <2>3. Good(0)
    <3> DEFINE f == [i \in 0..0 |-> b]
    <3>1. f \in [0..0 -> S] /\ f[0] = b /\ \A i \in 1..0 : FALSE
      BY <2>1, <2>2
    <3> HIDE DEF f
    <3> QED BY <3>1
  <2> QED BY <2>3
<1>2. ASSUME NEW m \in 0..(n - 1), m \in G
      PROVE  m + 1 \in G
  <2>1. PICK f \in [0..m -> S] : f[0] = b /\ \A i \in 1..m : f[i] = g[<<f[i - 1], i>>]
    BY <1>2
  <2> DEFINE h == [i \in 0..(m + 1) |-> IF i = m + 1 THEN g[<<f[m], m + 1>>] ELSE f[i]]
  <2>2. f[m] \in S /\ m + 1 \in 1..n
    OBVIOUS
  <2>3. g[<<f[m], m + 1>>] \in S
    BY <2>2 DEF StepsIn
  <2>4. h \in [0..(m + 1) -> S]
    BY <2>3
  <2>5. h[0] = b /\ \A i \in 1..(m + 1) : h[i] = g[<<h[i - 1], i>>]
    <3>1. h[0] = b
      BY <2>1
    <3>2. ASSUME NEW i \in 1..(m + 1)
          PROVE  h[i] = g[<<h[i - 1], i>>]
      <4>1. CASE i = m + 1
        <5>1. i - 1 = m /\ h[m] = f[m] /\ h[m + 1] = g[<<f[m], m + 1>>]
          BY <4>1
        <5> HIDE DEF h
        <5> QED BY <4>1, <5>1
      <4>2. CASE i # m + 1
        <5>1. i \in 1..m /\ i - 1 \in 0..m
          BY <4>2
        <5>2. h[i] = f[i] /\ h[i - 1] = f[i - 1]
          BY <5>1
        <5> HIDE DEF h
        <5> QED BY <2>1, <5>1, <5>2
      <4> QED BY <4>1, <4>2
    <3> HIDE DEF h
    <3> QED BY <3>1, <3>2
  <2> HIDE DEF h
  <2> QED BY <2>2, <2>4, <2>5
<1>3. G = 0..n
  <2>1. G \subseteq 0..n
    OBVIOUS
  <2> HIDE DEF G
  <2> QED BY <1>1, <1>2, <2>1, CountsUp
<1>4. n \in G
  BY <1>3
<1>5. Good(n)
  BY <1>4
<1> HIDE DEF G
<1> QED
  BY <1>5 DEF Iterates

(* A finite set of integers is enumerated by how many of it are up to each. *)
LEMMA CountEnumerates ==
    ASSUME NEW S, S \subseteq Int, IsFiniteSet(S)
    PROVE  /\ \A x \in S : Cardinality({y \in S : y <= x}) \in 1 .. Cardinality(S)
           /\ \A x, y \in S : x < y => Cardinality({z \in S : z <= x}) < Cardinality({z \in S : z <= y})
           /\ \A i \in 1 .. Cardinality(S) : \E x \in S : Cardinality({y \in S : y <= x}) = i
<1> DEFINE R == {p \in S \X S : p[1] < p[2]}
<1>1. \A x, y \in S : <<x, y>> \in R <=> x < y
  OBVIOUS
<1> HIDE DEF R
<1>2. \A x \in S : <<x, x>> \notin R
  BY <1>1
<1>3. \A x, y, z \in S : <<x, y>> \in R /\ <<y, z>> \in R => <<x, z>> \in R
  BY <1>1
<1>4. \A x, y \in S : x = y \/ <<x, y>> \in R \/ <<y, x>> \in R
  <2> TAKE x, y \in S
  <2>1. x \in Int /\ y \in Int
    OBVIOUS
  <2>2. x = y \/ x < y \/ y < x
    BY ONLY <2>1
  <2> QED BY ONLY <1>1, <2>2, x \in S, y \in S
<1>5. /\ \A x \in S : RankIn(S, R, x) \in 1 .. Cardinality(S)
      /\ \A x, y \in S : <<x, y>> \in R => RankIn(S, R, x) < RankIn(S, R, y)
      /\ \A i \in 1 .. Cardinality(S) : \E x \in S : RankIn(S, R, x) = i
  BY ONLY IsFiniteSet(S), <1>2, <1>3, <1>4, RankEnumerates
<1>6. \A x \in S : RankIn(S, R, x) = Cardinality({y \in S : y <= x})
  <2> TAKE x \in S
  <2>1. \A y \in S : (y = x \/ <<y, x>> \in R) <=> y <= x
    BY <1>1
  <2>2. {y \in S : y = x \/ <<y, x>> \in R} = {y \in S : y <= x}
    BY <2>1
  <2> QED BY <2>2 DEF RankIn
<1> DEFINE count(x) == Cardinality({y \in S : y <= x})
<1>7. \A x \in S : RankIn(S, R, x) = count(x)
  BY <1>6
<1> HIDE DEF count
<1>8. \A x \in S : count(x) \in 1 .. Cardinality(S)
  BY ONLY <1>5, <1>7
<1>9. \A x, y \in S : x < y => count(x) < count(y)
  <2> TAKE x, y \in S
  <2> HAVE x < y
  <2>1. <<x, y>> \in R
    BY <1>1
  <2>2. RankIn(S, R, x) < RankIn(S, R, y)
    BY ONLY <1>5, <2>1, x \in S, y \in S
  <2>3. RankIn(S, R, x) = count(x) /\ RankIn(S, R, y) = count(y)
    BY <1>7
  <2> QED BY ONLY <2>2, <2>3
<1>10. \A i \in 1 .. Cardinality(S) : \E x \in S : count(x) = i
  BY ONLY <1>5, <1>7
<1> QED BY <1>8, <1>9, <1>10 DEF count
=============================================================================
