----------------------------- MODULE FixedPoint -----------------------------
(***************************************************************************)
(* The integer arithmetic of the rules: two's complement integers of one   *)
(* width, the operators that saturate or report an overflow instead of     *)
(* wrapping, rates in basis points, and the rounded ratios and distances   *)
(* of motion.  Go's own operators wrap, so each guard below must refuse    *)
(* an operand before the overflow; the product is checked after it.        *)
(***************************************************************************)
EXTENDS Integers

CONSTANTS Top,      \* the largest integer, 2^63-1 in the code
          Scale     \* the denominator of a rate, 10000 in the code

ASSUME TopIsAWord == Top \in Nat \ {0} /\ Scale \in Nat \ {0}

Bottom == -Top - 1
Int64 == Bottom..Top
None == 2 * Top + 2   \* no word: the operation reported an overflow

AbsOf(n) == IF n < 0 THEN -n ELSE n
Lesser(a, b) == IF a < b THEN a ELSE b
Greater(a, b) == IF a > b THEN a ELSE b

(* Go's division truncates toward zero. *)
Quot(a, b) == IF (a < 0) = (b < 0) THEN AbsOf(a) \div AbsOf(b) ELSE -(AbsOf(a) \div AbsOf(b))

(* What a register keeps of n. *)
Wrap(n) == ((n + Top + 1) % (2 * Top + 2)) - Top - 1

(* Seeded bug of CheckedAdd: the result is looked at after the sum wrapped. *)
AddWrapped(l, r) == IF Wrap(l + r) > Top THEN None ELSE Wrap(l + r)
CheckedAdd(l, r) ==
    IF (r > 0 /\ l > Top - r) \/ (r < 0 /\ l < Bottom - r) THEN None ELSE Wrap(l + r)

CheckedSub(l, r) ==
    IF (r > 0 /\ l < Bottom + r) \/ (r < 0 /\ l > Top + r) THEN None ELSE Wrap(l - r)

CheckedMul(l, r) ==
    CASE l = 0 \/ r = 0 -> 0
      [] <<l, r>> \in {<<Bottom, -1>>, <<-1, Bottom>>} -> None
      [] OTHER -> IF Quot(Wrap(l * r), r) = l THEN Wrap(l * r) ELSE None

SaturatingAdd(l, r) ==
    IF CheckedAdd(l, r) # None THEN CheckedAdd(l, r) ELSE IF r > 0 THEN Top ELSE Bottom

SaturatingSub(l, r) ==
    IF CheckedSub(l, r) # None THEN CheckedSub(l, r) ELSE IF r > 0 THEN Bottom ELSE Top

SaturatingMul(l, r) ==
    IF CheckedMul(l, r) # None THEN CheckedMul(l, r)
    ELSE IF (l < 0) # (r < 0) THEN Bottom ELSE Top

ScaleBasisPoints(v, bp) == Quot(SaturatingMul(v, bp), Scale)

(* An attribute may round half away from zero instead. *)
ScaleRounded(v, bp, halfAway) ==
    LET p == SaturatingMul(v, bp)
    IN  IF halfAway /\ 2 * (AbsOf(p) % Scale) >= Scale
        THEN SaturatingAdd(Quot(p, Scale), IF p < 0 THEN -1 ELSE 1)
        ELSE Quot(p, Scale)

-----------------------------------------------------------------------------
(* Distances *)

SquareSaturating(v) ==
    CASE v = Bottom -> Top
      [] v # 0 /\ v # Bottom /\ AbsOf(v) > Top \div AbsOf(v) -> Top
      [] OTHER -> v * v

AbsoluteDifference(l, r) ==
    LET hi == Greater(l, r)
        lo == Lesser(l, r)
    IN  IF lo < 0 /\ hi > Top + lo THEN Top ELSE hi - lo

DistanceSquared(p, q) ==
    SaturatingAdd(SquareSaturating(AbsoluteDifference(p[1], q[1])),
                  SquareSaturating(AbsoluteDifference(p[2], q[2])))

(* Newton's seed, a power of two above the root. *)
BitLen(x) == CHOOSE n \in 1..30 : 2^(n - 1) <= x /\ x < 2^n
Seed(x) == 2^((BitLen(x) + 1) \div 2)

(* Newton's iteration, downward from a seed above the root. *)
Isqrt(x) ==
    LET newton[root \in 1..(2 * x + 2)] ==
            LET next == (root + x \div root) \div 2
            IN  IF next >= root THEN root ELSE newton[next]
    IN  IF x = 0 THEN 0 ELSE newton[Seed(x)]

(* The rounded distance, and whether it was cut at Top. *)
IntegerDistance(p, q) ==
    LET dx == AbsOf(q[1] - p[1])
        dy == AbsOf(q[2] - p[2])
        root == Isqrt(dx * dx + dy * dy)
        near == IF dx * dx + dy * dy - root * root >= root + 1 THEN root + 1 ELSE root
    IN  [d |-> Lesser(near, Top), saturated |-> near > Top]

DistanceExceeds(p, q, most) ==
    IntegerDistance(p, q).saturated \/ IntegerDistance(p, q).d > most

(* value * numerator / denominator with a product of double width. *)
MulDivRounded(v, n, d) ==
    LET negProduct == v # 0 /\ n # 0 /\ (v < 0) # (n < 0)
        negQuotient == negProduct # (d < 0)
        product == AbsOf(v) * AbsOf(n)
        quotient == product \div AbsOf(d)
        remainder == product % AbsOf(d)
        bump == IF 2 * remainder < AbsOf(d) THEN 0 ELSE IF negProduct THEN -1 ELSE 1
    IN  CASE d = 0 -> 0
          [] d # 0 /\ negQuotient ->
               IF quotient > Top + 1 \/ (quotient = Top + 1 /\ bump < 0) THEN Bottom ELSE bump - quotient
          [] OTHER ->
               IF quotient > Top \/ (quotient = Top /\ bump > 0) THEN Top ELSE quotient + bump

-----------------------------------------------------------------------------
(* Shapes of a selection, around the origin *)

WithinRadius(p, q, radius) == radius >= 0 /\ DistanceSquared(p, q) <= SquareSaturating(radius)

Dot(p, q, dir) == SaturatingAdd(SaturatingMul(SaturatingSub(p[1], q[1]), dir[1]),
                                SaturatingMul(SaturatingSub(p[2], q[2]), dir[2]))
Cross(p, q, dir) == SaturatingSub(SaturatingMul(SaturatingSub(p[1], q[1]), dir[2]),
                                  SaturatingMul(SaturatingSub(p[2], q[2]), dir[1]))

InForwardHalfPlane(p, q, dir) == Dot(p, q, dir) >= 0

WithinLineBounds(p, q, dir, length, width) ==
    LET norm == SaturatingAdd(SquareSaturating(dir[1]), SquareSaturating(dir[2]))
    IN  /\ length >= 0 /\ width >= 0
        /\ IF norm = 0 THEN WithinRadius(p, q, width)
           ELSE /\ Dot(p, q, dir) >= 0
                /\ SquareSaturating(Dot(p, q, dir)) <= SaturatingMul(SquareSaturating(length), norm)
                /\ SquareSaturating(Cross(p, q, dir)) <= SaturatingMul(SquareSaturating(width), norm)

(* Knockback and pull move along the axis that is further away. *)
MoveByDominantAxis(p, toward, distance, pull) ==
    LET gap(i) == IF pull THEN SaturatingSub(toward[i], p[i])
                  ELSE SaturatingSub(0, SaturatingSub(toward[i], p[i]))
        far == IF distance < 0 THEN AbsoluteDifference(distance, 0) ELSE distance
        moved(i) == IF gap(i) < 0 THEN SaturatingAdd(p[i], -far)
                    ELSE IF gap(i) > 0 THEN SaturatingAdd(p[i], far) ELSE p[i]
        onX == AbsoluteDifference(gap(1), 0) >= AbsoluteDifference(gap(2), 0)
    IN  IF onX THEN <<moved(1), p[2]>> ELSE <<p[1], moved(2)>>

-----------------------------------------------------------------------------
(* Properties, over the operands of an instance *)

Clip(n) == IF n > Top THEN Top ELSE IF n < Bottom THEN Bottom ELSE n
RoundedAway(n, d) == IF n < 0 THEN -((2 * (-n) + d) \div (2 * d)) ELSE (2 * n + d) \div (2 * d)

(* An operator reports an overflow exactly when the exact result does not  *)
(* fit, and otherwise returns it; the saturating one returns the nearest   *)
(* integer: no guard lets a wrapped value through at the edges.            *)
ArithmeticIsExact(l, r) ==
    /\ CheckedAdd(l, r) = IF l + r \in Int64 THEN l + r ELSE None
    /\ CheckedSub(l, r) = IF l - r \in Int64 THEN l - r ELSE None
    /\ CheckedMul(l, r) = IF l * r \in Int64 THEN l * r ELSE None
    /\ SaturatingAdd(l, r) = Clip(l + r)
    /\ SaturatingSub(l, r) = Clip(l - r)
    /\ SaturatingMul(l, r) = Clip(l * r)
    /\ AbsoluteDifference(l, r) = Clip(AbsOf(l - r))
    /\ SquareSaturating(l) = Clip(l * l)

(* For the lengths and distances motion divides by, the ratio is the exact *)
(* one rounded half away from zero and clipped.                            *)
RatiosAreRounded(v, n, d) == d > 0 => MulDivRounded(v, n, d) = Clip(RoundedAway(v * n, d))

(* The distance is the root rounded to the nearest integer, and comparing  *)
(* it with a bound never lets a clipped distance pass as near.             *)
DistancesAreRounded(p, q, most) ==
    LET s == (p[1] - q[1]) * (p[1] - q[1]) + (p[2] - q[2]) * (p[2] - q[2])
        i == IntegerDistance(p, q)
        n == CHOOSE k \in 0..(s + 1) : (k = 0 \/ (2 * k - 1) * (2 * k - 1) <= 4 * s) /\ 4 * s < (2 * k + 1) * (2 * k + 1)
    IN  /\ Isqrt(s) * Isqrt(s) <= s /\ s < (Isqrt(s) + 1) * (Isqrt(s) + 1)
        /\ i.d = Lesser(n, Top) /\ i.saturated = (n > Top)
        /\ DistanceExceeds(p, q, most) <=> n > most

(* A knockback moves along one axis and never brings nearer, also at the   *)
(* ends of the word; on the spot it moves nowhere.                         *)
KnockbackLeaves(p, from, distance) ==
    LET to == MoveByDominantAxis(p, from, distance, FALSE)
    IN  /\ to[1] = p[1] \/ to[2] = p[2]
        /\ \A i \in 1..2 : AbsOf(to[i] - from[i]) >= AbsOf(p[i] - from[i])
        /\ p = from => to = p
=============================================================================
