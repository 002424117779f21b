------------------------------- MODULE Damage -------------------------------
(***************************************************************************)
(* The twelve-stage damage pipeline of package combat, with the heal and   *)
(* the shield grant beside it, in the saturating arithmetic of FixedPoint. *)
(* Chances are rolled before: dodge, parry, block and a forced critical    *)
(* are facts of the combatants.  A hook is a status of the embedding       *)
(* world; here it is a fact too, and using it is part of the outcome.      *)
(***************************************************************************)
EXTENDS FixedPoint

CONSTANTS HalfMore,   \* the default critical rate, 15000 in the code
          Point       \* what a point of resistance adds to the divisor, 100 in the code

(* A missing source has no penetration, no critical rate and no vamp. *)
NoSource == [alive |-> FALSE, health |-> 0, maxHealth |-> 0, shield |-> 0, armor |-> 0, magic |-> 0,
             penetration |-> 0, dealt |-> 0, taken |-> 0, critical |-> 0, element |-> 0, vamp |-> 0,
             cap |-> 0, minimum |-> 0, dodge |-> FALSE, parry |-> FALSE, block |-> FALSE,
             immune |-> FALSE, spellShield |-> FALSE, force |-> FALSE]

(* Rates left at zero mean their default. *)
Rate(bp, default) == IF bp = 0 THEN default ELSE bp
Scaled(amount, bp) == Greater(ScaleBasisPoints(amount, bp), 0)

Avoidance(t, amount) ==
    CASE t.dodge \/ t.parry -> 0
      [] ~t.dodge /\ ~t.parry /\ t.block -> amount \div 2
      [] OTHER -> amount

Resistance(s, t, type) ==
    LET r == CASE type = "physical" -> t.armor [] type = "magical" -> t.magic [] OTHER -> 0
    IN  Greater(0, SaturatingSub(r, s.penetration))

Mitigation(amount, r) ==
    IF r = 0 THEN amount
    ELSE Quot(SaturatingMul(amount, Scale), SaturatingAdd(Scale, SaturatingMul(r, Point)))

(* Every rate is clamped at zero before the next multiplies it. *)
Modified(s, t, amount) ==
    Scaled(Scaled(Scaled(amount, Rate(t.element, Scale)), Rate(s.dealt, Scale)), Rate(t.taken, Scale))

Capped(t, amount) ==
    LET c == IF t.cap > 0 /\ amount > t.cap THEN t.cap ELSE amount
    IN  IF t.minimum > 0 /\ c > 0 /\ c < t.minimum THEN t.minimum ELSE c

IsCritical(s, i, hook) == i.crit /\ (s.force \/ hook)

(* The amount that reaches the shield. *)
Amount(s, t, i, hook) ==
    LET attempted == Greater(i.amount, 0)
        mitigated == Mitigation(Avoidance(t, attempted), Resistance(s, t, i.type))
        modified == Modified(s, t, mitigated)
    IN  Capped(t, IF IsCritical(s, i, hook) THEN Scaled(modified, Rate(s.critical, HalfMore)) ELSE modified)

Intercepted(i, hooks) == i.spell /\ hooks.spell
Immune(t) == t.immune \/ t.spellShield

Absorbed(s, t, i, hook) == Lesser(Greater(t.shield, 0), Amount(s, t, i, hook))

(* What is left of the target's life and of the hit, after the shield. *)
ResolveHealth(t, amount, deathHook) ==
    LET prevented == amount >= t.health /\ t.health > 0 /\ deathHook
        left == IF prevented THEN Greater(0, t.health - 1) ELSE amount
        damage == Lesser(t.health, left)
        killed == t.health = damage /\ damage > 0
    IN  [prevented |-> prevented, damage |-> damage, killed |-> killed,
         target |-> [t EXCEPT !.health = @ - damage, !.alive = @ /\ ~killed]]

VampHeal(s, damage) == IF s.vamp > 0 /\ damage > 0 THEN ScaleBasisPoints(damage, s.vamp) ELSE 0

Untouched(s, t) == [immune |-> TRUE, critical |-> FALSE, prevented |-> FALSE, killed |-> FALSE,
                    absorbed |-> 0, damage |-> 0, vamp |-> 0, source |-> s, target |-> t]

Suffered(s, h, critical, absorbed) ==
    [immune |-> FALSE, critical |-> critical, prevented |-> h.prevented, killed |-> h.killed,
     absorbed |-> absorbed, damage |-> h.damage, vamp |-> VampHeal(s, h.damage),
     source |-> IF s.vamp > 0 /\ h.damage > 0
                THEN [s EXCEPT !.health = Lesser(s.maxHealth, SaturatingAdd(@, VampHeal(s, h.damage)))] ELSE s,
     target |-> h.target]

(* The shield first, then the health. *)
Landed(s, t, critical, amount, absorbed, deathHook) ==
    Suffered(s, ResolveHealth([t EXCEPT !.shield = @ - absorbed], amount - absorbed, deathHook), critical, absorbed)

ResolveDamage(s, t, i, hooks) ==
    CASE Intercepted(i, hooks) -> Untouched(s, t)
      [] ~Intercepted(i, hooks) /\ Immune(t) -> [Untouched(s, t) EXCEPT !.target.spellShield = FALSE]
      [] OTHER -> Landed(s, t, IsCritical(s, i, hooks.critical), Amount(s, t, i, hooks.critical),
                         Absorbed(s, t, i, hooks.critical), hooks.death)

ResolveHeal(t, amount) ==
    [t EXCEPT !.health = @ + Lesser(Greater(amount, 0), Greater(0, t.maxHealth - t.health))]

(* The shield grant reports what was really added. *)
AddShield(t, amount) == SaturatingAdd(t.shield, Greater(amount, 0)) - t.shield

-----------------------------------------------------------------------------
(* Properties of one instance of damage *)

(* Nothing is created or lost on the way to the target: what leaves the    *)
(* shield and the health is what is reported, neither goes below zero,     *)
(* and the target dies exactly when its last health goes, whatever the     *)
(* rates, resistances and caps are and however they saturate.              *)
DamageIsConserved(s, t, i, hooks) ==
    \A o \in {ResolveDamage(s, t, i, hooks)} :
        /\ o.absorbed + o.damage = (t.shield + t.health) - (o.target.shield + o.target.health)
        /\ o.absorbed >= 0 /\ o.damage >= 0 /\ o.target.health >= 0
        /\ t.shield >= 0 => o.target.shield >= 0
        /\ o.killed <=> (o.target.health = 0 /\ t.health > 0)
        /\ o.target.alive <=> ~o.killed
        /\ o.damage > 0 => o.target.shield <= 0
        /\ hooks.death => ~o.killed

(* More incoming damage never leaves the target better off, and more armor *)
(* never leaves it worse off: no stage overshoots, wraps or changes sign.  *)
LeftTo(o) == o.target.shield + o.target.health
DamageIsMonotone(s, t, i, hooks) ==
    \A left \in {LeftTo(ResolveDamage(s, t, i, hooks))} :
        /\ i.amount < Top => LeftTo(ResolveDamage(s, t, [i EXCEPT !.amount = @ + 1], hooks)) <= left
        /\ t.armor < Top => LeftTo(ResolveDamage(s, [t EXCEPT !.armor = @ + 1], i, hooks)) >= left
=============================================================================
