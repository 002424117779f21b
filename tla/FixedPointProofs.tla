-------------------------- MODULE FixedPointProofs --------------------------
(***************************************************************************)
(* The integer arithmetic of the rules, for words of every width: no guard *)
(* lets a wrapped value through.                                           *)
(***************************************************************************)
EXTENDS FixedPoint, TLAPS

(* A word less than the divisor is its own remainder. *)
LEMMA ModSmall == ASSUME NEW a \in Nat, NEW b \in Nat, a < b PROVE a % b = a
OBVIOUS

(* A remainder is less than the divisor. *)
LEMMA ModRange == ASSUME NEW a \in Int, NEW b \in Nat, b > 0 PROVE a % b \in 0..(b - 1)
OBVIOUS

(* A register keeps a word as it is, and never more than a word. *)
LEMMA WrapIs == ASSUME NEW n \in Int PROVE Wrap(n) \in Int64 /\ (n \in Int64 => Wrap(n) = n)
<1>1. (n + Top + 1) % (2 * Top + 2) \in 0..(2 * Top + 1)
  BY TopIsAWord, ModRange
<1>2. n \in Int64 => (n + Top + 1) % (2 * Top + 2) = n + Top + 1
  BY TopIsAWord, ModSmall DEF Int64, Bottom
<1> QED BY <1>1, <1>2, TopIsAWord DEF Wrap, Int64, Bottom

(* The addition reports an overflow exactly when there is one. *)
LEMMA AddIs ==
    ASSUME NEW l \in Int64, NEW r \in Int64
    PROVE  /\ CheckedAdd(l, r) = IF l + r \in Int64 THEN l + r ELSE None
           /\ SaturatingAdd(l, r) = Clip(l + r)
<1>1. l \in Int /\ r \in Int /\ l + r \in Int
  BY TopIsAWord DEF Int64, Bottom
<1>2. (r > 0 /\ l > Top - r) \/ (r < 0 /\ l < Bottom - r) <=> l + r \notin Int64
  BY TopIsAWord DEF Int64, Bottom
<1>3. CheckedAdd(l, r) = IF l + r \in Int64 THEN l + r ELSE None
  BY <1>1, <1>2, WrapIs DEF CheckedAdd
<1>4. l + r \in Int64 => l + r # None
  BY TopIsAWord DEF Int64, Bottom, None
<1>5. SaturatingAdd(l, r) = IF l + r \in Int64 THEN l + r ELSE IF r > 0 THEN Top ELSE Bottom
  BY <1>3, <1>4 DEF SaturatingAdd
<1>6. SaturatingAdd(l, r) = Clip(l + r)
  BY <1>5, TopIsAWord DEF Int64, Bottom, Clip
<1> QED BY <1>3, <1>6

(* The subtraction, too. *)
LEMMA SubIs ==
    ASSUME NEW l \in Int64, NEW r \in Int64
    PROVE  /\ CheckedSub(l, r) = IF l - r \in Int64 THEN l - r ELSE None
           /\ SaturatingSub(l, r) = Clip(l - r)
<1>1. l \in Int /\ r \in Int /\ l - r \in Int
  BY TopIsAWord DEF Int64, Bottom
<1>2. (r > 0 /\ l < Bottom + r) \/ (r < 0 /\ l > Top + r) <=> l - r \notin Int64
  BY TopIsAWord DEF Int64, Bottom
<1>3. CheckedSub(l, r) = IF l - r \in Int64 THEN l - r ELSE None
  BY <1>1, <1>2, WrapIs DEF CheckedSub
<1>4. l - r \in Int64 => l - r # None
  BY TopIsAWord DEF Int64, Bottom, None
<1>5. SaturatingSub(l, r) = IF l - r \in Int64 THEN l - r ELSE IF r > 0 THEN Bottom ELSE Top
  BY <1>3, <1>4 DEF SaturatingSub
<1>6. SaturatingSub(l, r) = Clip(l - r)
  BY <1>5, TopIsAWord DEF Int64, Bottom, Clip
<1> QED BY <1>3, <1>6

(* The quotient and the remainder. *)
LEMMA DivIs == ASSUME NEW a \in Nat, NEW b \in Nat, b > 0
               PROVE  a \div b \in Nat /\ b * (a \div b) <= a /\ a < b * (a \div b) + b
OBVIOUS
(* A multiple is no smaller. *)
LEMMA ProductGrows == ASSUME NEW b \in Nat, NEW k \in Nat, k >= 1 PROVE b * k >= b
OBVIOUS
(* The quotient is unique. *)
LEMMA DivUnique == ASSUME NEW a \in Nat, NEW b \in Nat, NEW q \in Int, b > 0, b * q <= a, a < b * q + b
               PROVE  a \div b = q
<1>1. a \div b \in Nat /\ b * (a \div b) <= a /\ a < b * (a \div b) + b
  BY DivIs
<1> DEFINE p == a \div b
<1> HIDE DEF p
<1>2. p \in Nat /\ b * p <= a /\ a < b * p + b
  BY <1>1 DEF p
<1>3. CASE p < q
  <2>1. b * (q - p) >= b
    BY <1>2, <1>3, ProductGrows
  <2>2. b * (q - p) = b * q - b * p
    BY <1>2
  <2> QED BY <2>1, <2>2, <1>2
<1>4. CASE q < p
  <2>1. b * (p - q) >= b
    BY <1>2, <1>4, ProductGrows
  <2>2. b * (p - q) = b * p - b * q
    BY <1>2
  <2> QED BY <2>1, <2>2, <1>2
<1> QED BY <1>2, <1>3, <1>4 DEF p
(* The quotient of Go leaves a remainder less than the divisor. *)
LEMMA QuotIs == ASSUME NEW a \in Int, NEW b \in Int, b # 0
                PROVE  /\ Quot(a, b) \in Int
                       /\ AbsOf(a - b * Quot(a, b)) < AbsOf(b)
<1> DEFINE x == AbsOf(a)
           y == AbsOf(b)
           q == x \div y
<1>1. x \in Nat /\ y \in Nat /\ y > 0
  BY DEF AbsOf
<1>2. q \in Nat /\ y * q <= x /\ x < y * q + y
  BY <1>1, DivIs
<1>3. Quot(a, b) = IF (a < 0) = (b < 0) THEN q ELSE -q
  BY DEF Quot
<1> HIDE DEF q
<1>4. b * q = IF b < 0 THEN -(y * q) ELSE y * q
  BY <1>2 DEF AbsOf
<1>5. b * (-q) = -(b * q)
  BY <1>2
<1> DEFINE m == y * q
           n == b * q
<1>6. m \in Nat /\ n \in Int
  BY <1>1, <1>2
<1> HIDE DEF m, n
<1>7. b * Quot(a, b) = IF (a < 0) = (b < 0) THEN n ELSE -n
  BY <1>3, <1>5 DEF n
<1>8. n = (IF b < 0 THEN -m ELSE m) /\ m <= x /\ x < m + y
  BY <1>2, <1>4 DEF n, m
<1> QED BY <1>2, <1>3, <1>6, <1>7, <1>8 DEF AbsOf
(* A remainder. *)
LEMMA ModIs == ASSUME NEW a \in Nat, NEW b \in Nat, b > 0
               PROVE  a % b = a - b * (a \div b)
OBVIOUS
(* A wrapped word differs from the number by a multiple of the width. *)
LEMMA WrapIsCongruent ==
    ASSUME NEW n \in Int
    PROVE  \E k \in Int : Wrap(n) = n - (2 * Top + 2) * k
<1> DEFINE b == 2 * Top + 2
           a == n + Top + 1
<1>1. b \in Nat /\ b > 0 /\ a \in Int
  BY TopIsAWord
<1>2. a \div b \in Int /\ a % b = a - b * (a \div b)
  BY <1>1
<1>3. Wrap(n) = n - b * (a \div b)
  <2>1. b * (a \div b) \in Int
    BY <1>1, <1>2
  <2> QED BY <1>1, <1>2, <2>1, TopIsAWord DEF Wrap
<1> QED BY <1>2, <1>3

(* The quotient of a product that fits is its factor. *)
LEMMA QuotOfProduct ==
    ASSUME NEW l \in Int, NEW r \in Int, r # 0
    PROVE  Quot(l * r, r) = l
<1> DEFINE x == AbsOf(l)
           y == AbsOf(r)
           p == l * r
<1>1. x \in Nat /\ y \in Nat /\ y > 0 /\ p \in Int
  BY DEF AbsOf
<1>2. AbsOf(p) = y * x /\ (p < 0 <=> l # 0 /\ (l < 0) # (r < 0))
  BY DEF AbsOf
<1>3. (y * x) \div y = x
  <2>1. y * x \in Nat /\ y * x < y * x + y /\ y * x <= y * x
    BY <1>1
  <2> HIDE DEF x, y
  <2> QED BY <1>1, <2>1, DivUnique
<1> HIDE DEF p
<1>4. Quot(p, r) = IF (p < 0) = (r < 0) THEN AbsOf(p) \div y ELSE -(AbsOf(p) \div y)
  BY DEF Quot
<1>5. Quot(p, r) = IF (p < 0) = (r < 0) THEN x ELSE -x
  <2> HIDE DEF x, y
  <2> QED BY <1>2, <1>3, <1>4
<1>6. Quot(p, r) = l
  BY ONLY <1>2, <1>5, l \in Int, r \in Int, r # 0 DEF AbsOf
<1> QED BY <1>6 DEF p

(* The product is checked after it may have wrapped: the quotient gives    *)
(* the factor back only if it did not.                                     *)
LEMMA MulIs ==
    ASSUME NEW l \in Int64, NEW r \in Int64
    PROVE  /\ CheckedMul(l, r) = IF l * r \in Int64 THEN l * r ELSE None
           /\ SaturatingMul(l, r) = Clip(l * r)
<1>1. l \in Int /\ r \in Int /\ l * r \in Int
  BY TopIsAWord DEF Int64, Bottom
<1> DEFINE p == l * r
           w == Wrap(p)
<1>2. w \in Int64 /\ w \in Int /\ (p \in Int64 => w = p)
  BY <1>1, WrapIs, TopIsAWord DEF Int64, Bottom
<1>3. r # 0 /\ p \notin Int64 => Quot(w, r) # l
  <2> SUFFICES ASSUME r # 0, p \notin Int64, Quot(w, r) = l PROVE FALSE
    OBVIOUS
  <2>1. PICK k \in Int : w = p - (2 * Top + 2) * k
    BY <1>1, WrapIsCongruent
  <2>2. AbsOf(w - r * l) < AbsOf(r)
    BY <1>1, <1>2, QuotIs
  <2>3. r * l = p
    BY <1>1
  <2> DEFINE d == (2 * Top + 2) * k
  <2>4. d \in Int /\ (k = 0 => d = 0) /\ (k >= 1 => d >= 2 * Top + 2) /\ (k <= -1 => d <= -(2 * Top + 2))
    BY TopIsAWord
  <2>5. k # 0
    BY <1>1, <1>2, <2>1, <2>4
  <2> HIDE DEF d, p, w
  <2>6. w = p - d /\ p \in Int
    BY <1>1, <2>1 DEF d, p
  <2>7. AbsOf(r) <= Top + 1
    BY TopIsAWord DEF AbsOf, Int64, Bottom
  <2>8. AbsOf(w - p) >= 2 * Top + 2
    BY <2>4, <2>5, <2>6, TopIsAWord DEF AbsOf
  <2> QED BY <1>1, <1>2, <2>2, <2>3, <2>6, <2>7, <2>8, TopIsAWord DEF AbsOf
<1>4. l = 0 \/ r = 0 => p = 0 /\ p \in Int64
  BY <1>1, TopIsAWord DEF Int64, Bottom
<1>5. <<l, r>> \in {<<Bottom, -1>>, <<-1, Bottom>>} => p \notin Int64
  BY TopIsAWord DEF Int64, Bottom
<1>6. r # 0 /\ p \in Int64 => Quot(w, r) = l
  BY <1>1, <1>2, QuotOfProduct
<1>7. CheckedMul(l, r) = IF p \in Int64 THEN p ELSE None
  <2> HIDE DEF p
  <2>1. CASE l = 0 \/ r = 0
    <3>1. <<l, r>> \notin {<<Bottom, -1>>, <<-1, Bottom>>}
      BY <2>1, TopIsAWord DEF Bottom
    <3> QED BY <1>4, <2>1, <3>1 DEF CheckedMul
  <2>2. CASE ~(l = 0 \/ r = 0) /\ <<l, r>> \in {<<Bottom, -1>>, <<-1, Bottom>>}
    BY <1>5, <2>2 DEF CheckedMul
  <2>3. CASE ~(l = 0 \/ r = 0) /\ <<l, r>> \notin {<<Bottom, -1>>, <<-1, Bottom>>}
    <3>1. CheckedMul(l, r) = IF Quot(w, r) = l THEN w ELSE None
      BY <2>3 DEF CheckedMul, p
    <3> QED BY <1>2, <1>3, <1>6, <2>3, <3>1
  <2> QED BY <2>1, <2>2, <2>3
<1>8. p \in Int64 => p # None
  BY TopIsAWord DEF Int64, Bottom, None
<1>9. p \notin Int64 => p # 0 /\ (p < 0 <=> (l < 0) # (r < 0))
  BY <1>1, <1>4
<1>10. SaturatingMul(l, r) = Clip(p)
  <2>1. SaturatingMul(l, r) = IF p \in Int64 THEN p ELSE IF (l < 0) # (r < 0) THEN Bottom ELSE Top
    <3> HIDE DEF p
    <3> QED BY <1>7, <1>8 DEF SaturatingMul
  <2> HIDE DEF p
  <2>2. p \in Int
    BY <1>1 DEF p
  <2> QED BY <1>9, <2>1, <2>2, TopIsAWord DEF Int64, Bottom, Clip
<1> QED BY <1>7, <1>10

(* Every operator returns the exact result if it is a word, and otherwise  *)
(* reports the overflow, or returns the nearest word (numeric.go:32-105).  *)
THEOREM ArithmeticExact ==
    \A l, r \in Int64 : ArithmeticIsExact(l, r)
<1> SUFFICES ASSUME NEW l \in Int64, NEW r \in Int64 PROVE ArithmeticIsExact(l, r)
  OBVIOUS
<1>1. l \in Int /\ r \in Int /\ Bottom \in Int /\ Bottom <= l /\ l <= Top /\ Bottom <= r /\ r <= Top
  BY TopIsAWord DEF Int64, Bottom
<1>2. AbsoluteDifference(l, r) = Clip(AbsOf(l - r))
  BY <1>1, TopIsAWord DEF AbsoluteDifference, Clip, AbsOf, Greater, Lesser, Bottom
<1>3. SquareSaturating(l) = Clip(l * l)
  <2> DEFINE a == AbsOf(l)
  <2>1. a \in Nat /\ a * a = l * l /\ l * l \in Nat
    BY <1>1 DEF AbsOf
  <2>2. CASE l = Bottom
    <3>1. a = Top + 1
      BY <2>2, TopIsAWord DEF AbsOf, Bottom
    <3> HIDE DEF a
    <3>2. a * a >= a /\ a * a > Top
      BY <2>1, <3>1, TopIsAWord, ProductGrows
    <3> QED BY <2>1, <2>2, <3>2, TopIsAWord DEF SquareSaturating, Clip, Bottom
  <2>3. CASE l = 0
    BY <2>3, TopIsAWord DEF SquareSaturating, Clip, Bottom
  <2>4. CASE l # 0 /\ l # Bottom
    <3>1. a > 0
      BY <1>1, <2>4 DEF AbsOf
    <3> HIDE DEF a
    <3> DEFINE q == Top \div a
    <3>2. q \in Nat /\ a * q <= Top /\ Top < a * q + a
      BY <2>1, <3>1, DivIs, TopIsAWord
    <3> HIDE DEF q
    <3>3. a > q => a * a >= a * q + a
      <4> SUFFICES ASSUME a > q PROVE a * a >= a * q + a
        OBVIOUS
      <4>1. a * (a - q) >= a
        BY <2>1, <3>2, ProductGrows
      <4>2. a * (a - q) = a * a - a * q /\ a * a \in Int /\ a * q \in Int
        BY <2>1, <3>2
      <4> QED BY <4>1, <4>2, <2>1
    <3>4. a <= q => a * a <= a * q
      <4> SUFFICES ASSUME a <= q PROVE a * a <= a * q
        OBVIOUS
      <4>1. a * (q - a) >= 0
        BY <2>1, <3>2
      <4>2. a * (q - a) = a * q - a * a /\ a * a \in Int /\ a * q \in Int
        BY <2>1, <3>2
      <4> QED BY <4>1, <4>2
    <3>5. a > q <=> l * l > Top
      <4>1. a * a \in Int /\ a * q \in Int
        BY <2>1, <3>2
      <4> QED BY <2>1, <3>1, <3>2, <3>3, <3>4, <4>1, TopIsAWord
    <3>6. SquareSaturating(l) = IF a > q THEN Top ELSE l * l
      BY <2>4 DEF SquareSaturating, a, q
    <3> QED BY <2>1, <3>5, <3>6, TopIsAWord DEF Clip, Bottom
  <2> QED BY <2>2, <2>3, <2>4
<1> QED BY <1>2, <1>3, AddIs, SubIs, MulIs DEF ArithmeticIsExact

(* Rounding half up by the remainder is the quotient of twice the numbers. *)
LEMMA RoundIs ==
    ASSUME NEW a \in Nat, NEW d \in Nat, d > 0
    PROVE  (2 * a + d) \div (2 * d) = (a \div d) + IF 2 * (a % d) < d THEN 0 ELSE 1
<1> DEFINE q == a \div d
           r == a % d
           b == IF 2 * r < d THEN 0 ELSE 1
<1>1. q \in Nat /\ r \in Nat /\ r < d /\ a = d * q + r
  BY DivIs, ModIs, ModRange
<1> HIDE DEF q, r
<1> DEFINE m == d * q
<1>2. m \in Nat
  BY <1>1
<1>3. (2 * d) * (q + b) = 2 * m + 2 * (d * b) /\ d * b = IF 2 * r < d THEN 0 ELSE d
  BY <1>1
<1> HIDE DEF m, b
<1>4. a = m + r
  BY <1>1 DEF m
<1>5. b \in Nat
  BY DEF b
<1>6. (2 * d) * (q + b) <= 2 * a + d /\ 2 * a + d < (2 * d) * (q + b) + 2 * d
  BY <1>1, <1>2, <1>3, <1>4
<1>7. (2 * a + d) \div (2 * d) = q + b
  <2>1. 2 * a + d \in Nat /\ 2 * d \in Nat /\ 2 * d > 0 /\ q + b \in Int
    BY <1>1, <1>5
  <2> QED BY <1>6, <2>1, DivUnique
<1> QED BY <1>7 DEF q, b, r

(* A ratio of motion is the exact one, rounded half away from zero and     *)
(* clipped (numeric.go:108).                                               *)
THEOREM RatiosRounded ==
    \A v, n, d \in Int64 : RatiosAreRounded(v, n, d)
<1> SUFFICES ASSUME NEW v \in Int64, NEW n \in Int64, NEW d \in Int64, d > 0
             PROVE  MulDivRounded(v, n, d) = Clip(RoundedAway(v * n, d))
  BY DEF RatiosAreRounded
<1>1. v \in Int /\ n \in Int /\ d \in Nat /\ d # 0
  BY TopIsAWord DEF Int64, Bottom
<1> DEFINE p == v * n
           a == AbsOf(v) * AbsOf(n)
           q == a \div d
           r == a % d
           neg == v # 0 /\ n # 0 /\ (v < 0) # (n < 0)
<1>2. p \in Int /\ a \in Nat /\ (neg <=> p < 0) /\ a = IF p < 0 THEN -p ELSE p
  BY <1>1 DEF AbsOf
<1>3. q \in Nat /\ r \in Nat
  BY <1>1, <1>2, DivIs, ModRange
<1>4. (2 * a + d) \div (2 * d) = q + IF 2 * r < d THEN 0 ELSE 1
  BY <1>1, <1>2, RoundIs
<1> HIDE DEF p, a
<1>5. RoundedAway(p, d) = IF p < 0 THEN -(q + IF 2 * r < d THEN 0 ELSE 1) ELSE q + IF 2 * r < d THEN 0 ELSE 1
  BY <1>2, <1>4 DEF RoundedAway
<1>6. AbsOf(d) = d /\ ~(d < 0)
  BY <1>1 DEF AbsOf
<1> DEFINE bump == IF 2 * r < d THEN 0 ELSE IF neg THEN -1 ELSE 1
<1>7. MulDivRounded(v, n, d) =
        IF neg THEN IF q > Top + 1 \/ (q = Top + 1 /\ bump < 0) THEN Bottom ELSE bump - q
        ELSE IF q > Top \/ (q = Top /\ bump > 0) THEN Top ELSE q + bump
  <2> HIDE DEF neg
  <2>1. (neg # (d < 0)) = neg
    BY <1>6 DEF neg
  <2> QED BY <1>1, <1>6, <2>1 DEF MulDivRounded, neg, a
<1> HIDE DEF q, r, neg
<1>8. MulDivRounded(v, n, d) = Clip(RoundedAway(p, d))
  BY <1>1, <1>2, <1>3, <1>5, <1>7, TopIsAWord DEF Clip, Bottom
<1> QED BY <1>8 DEF p

(* A knockback moves along one axis and never nearer, at the ends of the   *)
(* word too (motion_support.go:331).                                       *)
THEOREM KnockbackAway ==
    \A p, from \in Int64 \X Int64, distance \in Int64 : KnockbackLeaves(p, from, distance)
<1> SUFFICES ASSUME NEW p \in Int64 \X Int64, NEW from \in Int64 \X Int64, NEW distance \in Int64
             PROVE  KnockbackLeaves(p, from, distance)
  OBVIOUS
<1>1. \A n \in Int64 : n \in Int /\ Bottom <= n /\ n <= Top
  BY TopIsAWord DEF Int64, Bottom
<1>2. 0 \in Int64 /\ \A n \in Int : Clip(n) \in Int64
  BY TopIsAWord DEF Int64, Bottom, Clip
<1> DEFINE gap(i) == SaturatingSub(0, SaturatingSub(from[i], p[i]))
           far == IF distance < 0 THEN AbsoluteDifference(distance, 0) ELSE distance
           moved(i) == IF gap(i) < 0 THEN SaturatingAdd(p[i], -far)
                       ELSE IF gap(i) > 0 THEN SaturatingAdd(p[i], far) ELSE p[i]
           onX == AbsoluteDifference(gap(1), 0) >= AbsoluteDifference(gap(2), 0)
           to == MoveByDominantAxis(p, from, distance, FALSE)
<1>3. to = IF onX THEN <<moved(1), p[2]>> ELSE <<p[1], moved(2)>>
  BY DEF MoveByDominantAxis
<1>4. \A i \in 1..2 : p[i] \in Int64 /\ from[i] \in Int64
  OBVIOUS
<1>5. far \in Int64 /\ far >= 0 /\ -far \in Int64 /\ far \in Int
  <2>1. AbsoluteDifference(distance, 0) = Clip(AbsOf(distance - 0))
    BY <1>2, ArithmeticExact DEF ArithmeticIsExact
  <2> QED BY <1>1, <2>1, TopIsAWord DEF Clip, AbsOf, Int64, Bottom
<1> HIDE DEF far
<1>6. ASSUME NEW i \in 1..2
      PROVE  /\ gap(i) \in Int64
             /\ gap(i) > 0 <=> p[i] > from[i]
             /\ gap(i) < 0 <=> p[i] < from[i]
  <2>1. SaturatingSub(from[i], p[i]) = Clip(from[i] - p[i]) /\ from[i] - p[i] \in Int
    BY <1>1, <1>4, SubIs
  <2>2. SaturatingSub(from[i], p[i]) \in Int64
    BY <1>2, <2>1
  <2>3. gap(i) = Clip(0 - SaturatingSub(from[i], p[i]))
    BY <1>2, <2>2, SubIs
  <2> QED BY <1>1, <1>4, <2>1, <2>2, <2>3, TopIsAWord DEF Clip, Int64, Bottom
<1> HIDE DEF gap
<1>7. ASSUME NEW i \in 1..2
      PROVE  /\ moved(i) \in Int
             /\ AbsOf(moved(i) - from[i]) >= AbsOf(p[i] - from[i])
             /\ p[i] = from[i] => moved(i) = p[i]
  <2>1. SaturatingAdd(p[i], far) = Clip(p[i] + far) /\ SaturatingAdd(p[i], -far) = Clip(p[i] - far)
    BY <1>1, <1>4, <1>5, AddIs
  <2> DEFINE x == p[i]
             y == from[i]
             g == gap(i)
             z == moved(i)
  <2>2. z = IF g < 0 THEN Clip(x - far) ELSE IF g > 0 THEN Clip(x + far) ELSE x
    BY <2>1
  <2>3. x \in Int /\ y \in Int /\ Bottom <= x /\ x <= Top /\ Bottom <= y /\ y <= Top
    BY <1>1, <1>4
  <2>4. g \in Int /\ (g > 0 <=> x > y) /\ (g < 0 <=> x < y)
    BY <1>1, <1>6
  <2> HIDE DEF x, y, g, z
  <2>5. z \in Int /\ AbsOf(z - y) >= AbsOf(x - y) /\ (x = y => z = x)
    BY ONLY <1>5, <2>2, <2>3, <2>4, TopIsAWord DEF Clip, AbsOf, Bottom
  <2> QED BY <2>5 DEF x, y, z
<1> HIDE DEF moved, onX, to
<1>8. \A i \in 1..2 : to[i] = p[i] \/ to[i] = moved(i)
  BY <1>3
<1>9. \A i \in 1..2 : AbsOf(to[i] - from[i]) >= AbsOf(p[i] - from[i])
  <2>1. \A i \in 1..2 : AbsOf(p[i] - from[i]) >= AbsOf(p[i] - from[i])
    BY <1>1, <1>4 DEF AbsOf
  <2> QED BY <1>7, <1>8, <2>1
<1>10. p = from => to = p
  BY <1>3, <1>7
<1>11. to[1] = p[1] \/ to[2] = p[2]
  BY <1>3
<1> QED BY <1>9, <1>10, <1>11 DEF KnockbackLeaves, to
=============================================================================
