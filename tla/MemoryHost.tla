----------------------------- MODULE MemoryHost -----------------------------
(***************************************************************************)
(* The reference host of package skill: entities, the status instances and *)
(* the modifiers on them, and the snapshots a rewind restores.  The damage *)
(* arithmetic is Damage; here are the books the host keeps around it.      *)
(*                                                                         *)
(* Every method holds the host's lock, so an action is a whole call.  A    *)
(* call that is refused before it writes changes nothing and is left out,  *)
(* with its result; so are revisions, events and what they carry.          *)
(*                                                                         *)
(* The points of a shield are kept twice, in the entity and in its         *)
(* instances, and so is the fact that an entity has a status: most of the  *)
(* module is about these two copies.                                       *)
(***************************************************************************)
EXTENDS Damage, Sequences, FiniteSets, SequencesExt, FiniteSetsExt

CONSTANTS Entity,        \* the entities, positive integers
          Stats,         \* [Entity -> combatant], what an entity brings besides its life
          Tenacity,      \* [Entity -> basis points]
          Tags,          \* [Entity -> set of gameplay tags]
          Status,        \* the statuses of the catalog, in its order
          Policy,        \* [Status -> entry of the catalog]
          Profile,       \* the temporal profile: [fields, perOwner, age, blocked, revive]
          Unwalkable,    \* [positions a rewind finds taken -> the nearest free one]
          Application,   \* the statuses <<status, owner, target, stacks, duration>> applied
          Modification,  \* the operations <<op, owner, value, target, policy>> on an instance
          Hit,           \* the damage <<source, target, input>> dealt
          Grant,         \* the shields <<source, target, amount, duration>> granted
          Step,          \* the moves <<entity, place>> of an entity
          Capture,       \* the snapshots <<owner, target>> taken
          Bonus,         \* the modifiers <<op, value, duration>> applied
          Attribute,     \* [base, minimum, maximum, halfAway], the one attribute
          MaxTick, MaxSequence, MaxToken   \* bounds

NoEntity == 0   \* the command has no source

VARIABLE host   \* [tick, ent, inst, mods, seq, snaps, token]

Instance == [target : Entity, status : Status, owner : Entity, seq : Nat, applied : Nat,
             stacks : Nat, due : Nat, shield : Nat]

Init ==
    host = [tick |-> 0, seq |-> 0, token |-> 0, inst |-> <<>>, mods |-> <<>>, snaps |-> <<>>,
            ent |-> [e \in Entity |-> [alive |-> TRUE, health |-> Stats[e].maxHealth, shield |-> 0,
                                       spell |-> Stats[e].spellShield, flags |-> {}, pos |-> 0]]]

-----------------------------------------------------------------------------
(* The instances *)

AtLeast0(n) == Greater(0, n)

(* What stays of a list when the places gone leave it, in its order. *)
Leaving(s, gone) ==
    LET left == DOMAIN s \ gone
        nth(k) == CHOOSE i \in left : Cardinality({j \in left : j <= i}) = k
    IN  [k \in 1..Cardinality(left) |-> s[nth(k)]]

On(h, e) == {i \in DOMAIN h.inst : h.inst[i].target = e}
IsShield(s) == Policy[s].category = "shield"
PointsAt(h, places) == FoldSet(LAMBDA i, n : n + h.inst[i].shield, 0, places)

(* An entity without the points of some instances, marked anew. *)
Stripped(b, points, flags) ==
    [b EXCEPT !.shield = IF points > 0 THEN AtLeast0(@ - points) ELSE @, !.flags = flags]

(* Seeded bug of Filtered: the flag of a removed instance goes with it,    *)
(* although another instance of the status stays.                          *)
FilteredHasty(h, gone) ==
    [h EXCEPT !.inst = Leaving(@, gone),
              !.ent = [e \in Entity |->
                 LET mine == gone \cap On(h, e)
                 IN  Stripped(@[e], PointsAt(h, {i \in mine : IsShield(h.inst[i].status)}),
                              @[e].flags \ {h.inst[i].status : i \in mine})]]

(* Removing instances takes their points from the shield, and computes the *)
(* flags of the entities it touches anew.                                  *)
Filtered(h, gone) ==
    [h EXCEPT !.inst = Leaving(@, gone),
              !.ent = [e \in Entity |->
                 LET mine == gone \cap On(h, e)
                 IN  IF mine = {} THEN @[e]
                     ELSE Stripped(@[e], PointsAt(h, {i \in mine : IsShield(h.inst[i].status)}),
                                   {h.inst[i].status : i \in On(h, e) \ mine})]]

(* An instance more, which has the next number. *)
Appended(h, i) == [h EXCEPT !.inst = Append(@, i), !.seq = @ + 1]

(* An entity has a status more, and this shield. *)
Marked(h, e, s, shield) == [h EXCEPT !.ent[e].flags = @ \cup {s}, !.ent[e].shield = shield]

HasTag(h, e, tag) == tag \in Tags[e] \/ \E i \in On(h, e) : tag \in Policy[h.inst[i].status].tags
IsImmune(h, e, s) == \E tag \in Policy[s].immunity : HasTag(h, e, tag)

(* The oldest instance with one of the hooks. *)
Hooked(h, e, hooks) == {i \in On(h, e) : Policy[h.inst[i].status].hooks \cap hooks # {}}
FirstHook(h, e, hooks) == CHOOSE i \in Hooked(h, e, hooks) :
                            \A j \in Hooked(h, e, hooks) : h.inst[i].seq <= h.inst[j].seq

(* Using a hook removes its instance if the status says so. *)
Consumed(h, e, hooks) ==
    IF Hooked(h, e, hooks) # {} /\ Policy[h.inst[FirstHook(h, e, hooks)].status].consumed
    THEN Filtered(h, {FirstHook(h, e, hooks)}) ELSE h

ClipTo(most, n) == IF most > 0 /\ n > most THEN most ELSE n
MaxStacks(s) == Greater(1, Policy[s].maxStacks)

-----------------------------------------------------------------------------
(* Statuses *)

Lasting(e, s, duration) ==
    ClipTo(Policy[s].maxDuration,
           IF Policy[s].tenacious /\ Tenacity[e] > 0
           THEN Greater(1, ScaleBasisPoints(duration, AtLeast0(Scale - Tenacity[e]))) ELSE duration)

(* An instance of the same source is refreshed, unless the status replaces *)
(* every instance.  The entity is written back as it was read, but for its *)
(* flags, which are shared: what Filtered took from its shield returns.    *)
Applied(h, c) ==
    LET s == c[1] owner == c[2] e == c[3]
        due == h.tick + Lasting(e, s, c[5])
        r == IF Policy[s].refresh = "replace"
             THEN Filtered(h, {i \in On(h, e) : h.inst[i].status = s}) ELSE h
        same == {i \in On(r, e) : r.inst[i].status = s /\ r.inst[i].owner = owner}
        first == Min(same)
        fresh == [target |-> e, status |-> s, owner |-> owner, seq |-> h.seq + 1, applied |-> h.tick,
                  stacks |-> Lesser(MaxStacks(s), c[4]), due |-> due, shield |-> 0]
        marked == Marked(r, e, s, h.ent[e].shield)
    IN  IF same # {}
        THEN [marked EXCEPT !.inst[first].stacks = Lesser(MaxStacks(s), @ + c[4]), !.inst[first].due = due]
        ELSE Appended(marked, fresh)

ApplyStatus ==
    \E c \in Application :
      LET s == c[1] e == c[3] IN
      /\ host.ent[e].alive
      /\ \/ /\ Policy[s].category = "control" /\ Hooked(host, e, {"control_immunity"}) # {}
            /\ host' = Consumed(host, e, {"control_immunity"})
         \/ /\ Policy[s].category = "control" => Hooked(host, e, {"control_immunity"}) = {}
            /\ ~IsImmune(host, e, s)
            /\ host.seq < MaxSequence
            /\ host' = Applied(host, c)

(* Removes the instances of a status, of one owner or of all (0). *)
RemoveStatus ==
    \E e \in Entity, s \in Status, owner \in Entity \cup {0} :
      LET gone == {i \in On(host, e) : host.inst[i].status = s /\ owner \in {0, host.inst[i].owner}}
      IN  gone # {} /\ host' = Filtered(host, gone)

(* Highest priority first, then the oldest; no count removes them all. *)
Dispellable(h, e) == {i \in On(h, e) : Policy[h.inst[i].status].dispellable}
DispelOrder(h, e) ==
    SetToSortSeq(Dispellable(h, e),
        LAMBDA i, j : LET p(k) == Policy[h.inst[k].status].priority
                      IN  p(i) > p(j) \/ (p(i) = p(j) /\ h.inst[i].seq < h.inst[j].seq))

Dispel ==
    \E e \in Entity, count \in {0, 1} :
      LET order == DispelOrder(host, e)
          n == IF count = 0 \/ count > Len(order) THEN Len(order) ELSE count
      IN  n > 0 /\ host' = Filtered(host, {order[k] : k \in 1..n})

Shortened(h, s, i) == IF Policy[s].maxDuration > 0 /\ i.due - h.tick > Policy[s].maxDuration
                      THEN [i EXCEPT !.due = h.tick + Policy[s].maxDuration] ELSE i

(* What an operation makes of the instance it is called on. *)
Operated(h, i, op, value) ==
    LET left == AtLeast0(i.due - h.tick)
        stacks(n) == Lesser(MaxStacks(i.status), AtLeast0(n))
    IN  CASE op = "add_stacks" -> [i EXCEPT !.stacks = stacks(@ + value)]
          [] op = "set_stacks" -> [i EXCEPT !.stacks = stacks(value)]
          [] op = "add_duration" -> [i EXCEPT !.due = h.tick + Greater(1, left + value)]
          [] op = "set_duration" -> [i EXCEPT !.due = h.tick + Greater(1, value)]
          [] op = "mul_duration_bp" -> [i EXCEPT !.due = h.tick + Greater(1, ScaleBasisPoints(left, value))]
          [] op = "refresh" -> [i EXCEPT !.due = h.tick + Greater(1, @ - i.applied)]
          [] OTHER -> i

Durations == {"add_duration", "set_duration", "mul_duration_bp", "refresh"}
Moves == {"copy_to", "transfer_to"}

Authorized(i, op, owner) ==
    \/ owner = IF Policy[i.status].ownership = "owner" THEN i.target ELSE i.owner
    \/ op = "remove" /\ owner = i.target
    \/ op = "transfer_to" /\ Policy[i.status].stealable

Permitted(h, i, op, to, kept) ==
    LET p == Policy[i.status] IN
    /\ op = "remove" => p.dispellable
    /\ op \in Durations => (p.durations = {} \/ op \in p.durations)
    /\ op \in Moves => /\ to \in Entity /\ h.ent[to].alive
                       /\ kept \in {"original_owner", "new_owner", "new_source"}
                       /\ IF op = "copy_to" THEN p.copyable ELSE p.transferable
                       /\ ~IsImmune(h, to, i.status)

(* The copy is appended before the original is filtered out, and its       *)
(* entity gets the flag and the points last.                               *)
Moved(h, at, i, op, owner, to, kept) ==
    LET copy == [i EXCEPT !.seq = h.seq + 1, !.target = to, !.applied = h.tick,
                          !.owner = CASE kept = "original_owner" -> i.target
                                      [] kept = "new_owner" -> to
                                      [] OTHER -> owner]
        a == Appended(h, copy)
        f == IF op = "transfer_to" \/ i.stacks = 0 THEN Filtered(a, {at})
             ELSE [a EXCEPT !.inst[at] = i]
        shield == f.ent[to].shield
    IN  Marked(f, to, i.status, IF IsShield(i.status) THEN SaturatingAdd(shield, i.shield) ELSE shield)

InstanceModified(h, at, m) ==
    LET i == Shortened(h, h.inst[at].status, h.inst[at])
        o == Shortened(h, i.status, Operated(h, i, m[1], m[3]))
    IN  IF m[1] \in Moves THEN Moved(h, at, o, m[1], m[2], m[4], m[5])
        ELSE IF m[1] = "remove" \/ o.stacks = 0 THEN Filtered(h, {at})
        ELSE [h EXCEPT !.inst[at] = o]

ModifyStatusInstance ==
    \E at \in DOMAIN host.inst, m \in Modification :
      LET i == host.inst[at] IN
      /\ Authorized(i, m[1], m[2])
      /\ Permitted(host, i, m[1], m[4], m[5])
      /\ m[1] \in Moves => host.seq < MaxSequence
      /\ host' = InstanceModified(host, at, m)

(* A modifier of the attribute, beside those the statuses bring. *)
ApplyAttributeModifier ==
    \E e \in Entity, b \in Bonus :
      /\ host.seq < MaxSequence
      /\ host' = [host EXCEPT !.seq = @ + 1,
                     !.mods = Append(@, [target |-> e, op |-> b[1], value |-> b[2], seq |-> host.seq + 1,
                                         due |-> host.tick + b[3]])]

(* What the instances and the modifiers bring to the attribute, in the     *)
(* order of their sequences: an addition once, times its stacks, a rate    *)
(* once for each stack.                                                    *)
Terms(h, e, op) ==
    LET bonus(i) == Policy[i.status].bonus
        instances == SelectSeq(h.inst, LAMBDA i : i.target = e /\ bonus(i)[1] = op)
        brought(i) == IF op = "add" THEN <<[seq |-> i.seq, value |-> SaturatingMul(bonus(i)[2], i.stacks)]>>
                      ELSE [n \in 1..i.stacks |-> [seq |-> i.seq, value |-> bonus(i)[2]]]
        modifiers == SelectSeq(h.mods, LAMBDA m : m.target = e /\ m.op = op)
        found == FlattenSeq([k \in DOMAIN instances |-> brought(instances[k])])
                 \o [k \in DOMAIN modifiers |-> [seq |-> modifiers[k].seq, value |-> modifiers[k].value]]
        sorted == SortSeq(found, LAMBDA x, y : x.seq < y.seq)
    IN  [k \in DOMAIN sorted |-> sorted[k].value]

EffectiveAttribute(h, e) ==
    LET sum == FoldLeft(SaturatingAdd, Attribute.base, Terms(h, e, "add"))
        scaled == FoldLeft(LAMBDA v, bp : ScaleRounded(v, bp, Attribute.halfAway), sum, Terms(h, e, "mul_bp"))
    IN  Greater(Attribute.minimum, Lesser(Attribute.maximum, scaled))

-----------------------------------------------------------------------------
(* Life *)

Combatant(h, e) ==
    IF e = NoEntity THEN NoSource
    ELSE [Stats[e] EXCEPT !.alive = h.ent[e].alive, !.health = h.ent[e].health,
                          !.shield = h.ent[e].shield, !.spellShield = h.ent[e].spell]

(* What the shield absorbed is drained from its instances, oldest place in *)
(* the list first; an empty instance goes.                                 *)
Drained(h, e, absorbed) ==
    LET shields == {i \in On(h, e) : IsShield(h.inst[i].status)}
        before(i) == PointsAt(h, {j \in shields : j < i})
        reached == {i \in shields : before(i) < absorbed}
        left(i) == h.inst[i].shield - Lesser(h.inst[i].shield, absorbed - before(i))
        d == [h EXCEPT !.inst = [i \in DOMAIN @ |-> IF i \in reached THEN [@[i] EXCEPT !.shield = left(i)] ELSE @[i]]]
        empty == {i \in reached : left(i) = 0}
    IN  IF empty = {} THEN d ELSE Filtered(d, empty)

DeathHooks == {"death_prevention", "execute_immunity"}

Overridden(h, src) == src # NoEntity /\ Hooked(h, src, {"critical_override"}) # {}

(* A hit that is not warded off drains the instances it used of the hook   *)
(* of a critical hit and of the shield. *)
Spent(h, c, absorbed) ==
    LET a == IF c[3].crit /\ Overridden(h, c[1]) THEN Consumed(h, c[1], {"critical_override"}) ELSE h
    IN  IF absorbed > 0 THEN Drained(a, c[2], absorbed) ELSE a

(* The source and the target are written from the copies read first, the   *)
(* target last; d is the host with the hooks used, o what came of the hit. *)
Written(h, d, c, o) ==
    LET e == c[2]
        sourced == IF o.vamp > 0 THEN [d EXCEPT !.ent[c[1]].health = o.source.health] ELSE d
    IN  IF o.immune /\ ~h.ent[e].spell THEN sourced
        ELSE [sourced EXCEPT !.ent[e] = [@ EXCEPT !.health = o.target.health, !.shield = o.target.shield,
                                                  !.alive = o.target.alive, !.spell = o.target.spellShield]]

Result(h, c, spell, death) ==
    ResolveDamage(Combatant(h, c[1]), Combatant(h, c[2]), c[3],
                  [spell |-> spell, critical |-> Overridden(h, c[1]), death |-> death])

(* b is the host after the drain, where the death hook is looked up. *)
StruckThrough(h, b, c) ==
    LET finish(o) == Written(h, IF o.prevented THEN Consumed(b, c[2], DeathHooks) ELSE b, c, o)
    IN  finish(Result(h, c, FALSE, Hooked(b, c[2], DeathHooks) # {}))

(* What the shield takes of the hit, nothing if the target is immune. *)
Taken(h, c) == Result(h, c, FALSE, FALSE).absorbed

(* Seeded bug of Struck: the instances are not told what the shield took.  *)
StruckUndrained(h, c) == StruckThrough(h, Spent(h, c, 0), c)
(* A hit: the spell hook, else the hook of a critical hit, the instances   *)
(* of the shield and the death hook, in this order.                        *)
Struck(h, c) ==
    LET warded == c[3].spell /\ Hooked(h, c[2], {"spell_shield"}) # {}
    IN  CASE warded -> Written(h, Consumed(h, c[2], {"spell_shield"}), c, Result(h, c, TRUE, FALSE))
          [] ~warded /\ Immune(Combatant(h, c[2])) -> Written(h, h, c, Result(h, c, FALSE, FALSE))
          [] OTHER -> StruckThrough(h, Spent(h, c, Taken(h, c)), c)

Damaged == \E c \in Hit : host.ent[c[2]].alive /\ host' = Struck(host, c)

Healed ==
    \E e \in Entity :
      /\ host.ent[e].alive
      /\ host' = [host EXCEPT !.ent[e].health = ResolveHeal(Combatant(host, e), 1).health]

(* The first shield of the catalog carries the points of every grant. *)
ShieldStatus == CHOOSE s \in Status : IsShield(s)

Shielded ==
    \E c \in Grant :
      LET e == c[2]
          added == AddShield(Combatant(host, e), c[3])
          i == [target |-> e, status |-> ShieldStatus, owner |-> c[1], seq |-> host.seq + 1,
                applied |-> host.tick, stacks |-> 1, shield |-> added,
                due |-> host.tick + ClipTo(Policy[ShieldStatus].maxDuration, c[4])]
      IN  /\ host.ent[e].alive /\ host.seq < MaxSequence
          /\ host' = Marked(Appended(host, i), e, ShieldStatus, host.ent[e].shield + added)

Teleport ==
    \E c \in Step :
      /\ host.ent[c[1]].pos # c[2]
      /\ host' = [host EXCEPT !.ent[c[1]].pos = c[2]]

-----------------------------------------------------------------------------
(* Time and rewinds *)

Kept(seq, now) == SelectSeq(seq, LAMBDA m : m.due > now)

Advanced(h, tick) ==
    LET now == [h EXCEPT !.tick = tick]
        f == Filtered(now, {i \in DOMAIN now.inst : now.inst[i].due <= tick})
    IN  [f EXCEPT !.mods = Kept(@, tick),
                  !.snaps = [k \in {k \in DOMAIN @ : tick <= @[k].expires} |-> @[k]]]

Advance == \E tick \in (host.tick + 1)..MaxTick : host' = Advanced(host, tick)

(* The snapshots an owner holds that may still be restored. *)
Held(h, owner) == {k \in DOMAIN h.snaps : h.snaps[k].owner = owner /\ h.tick <= h.snaps[k].expires}

CaptureSnapshot ==
    \E c \in Capture : LET owner == c[1] e == c[2] IN
      /\ Cardinality(Held(host, owner)) < Profile.perOwner
      /\ host.token < MaxToken
      /\ host' = [host EXCEPT !.token = @ + 1,
             !.snaps = [k \in DOMAIN @ \cup {host.token + 1} |->
                          IF k \in DOMAIN @ THEN @[k]
                          ELSE [owner |-> owner, target |-> e, expires |-> host.tick + Profile.age,
                                ent |-> host.ent[e],
                                inst |-> IF "statuses" \in Profile.fields
                                         THEN Leaving(host.inst, DOMAIN host.inst \ On(host, e)) ELSE <<>>]]]

(* The authorized fields, written over what the entity is now; a blocked   *)
(* position is replaced, skipped, or refuses the whole rewind.             *)
Rewound(h, k) ==
    LET e == h.snaps[k].target
        was == h.snaps[k].ent
        at == IF was.pos \notin DOMAIN Unwalkable THEN was.pos
              ELSE IF Profile.blocked = "nearest" THEN Unwalkable[was.pos] ELSE h.ent[e].pos
        r == [h.ent[e] EXCEPT
                !.pos = IF "position" \in Profile.fields THEN at ELSE @,
                !.health = IF "health" \in Profile.fields THEN was.health ELSE @,
                !.alive = IF "health" \in Profile.fields THEN was.alive ELSE @,
                !.flags = IF "statuses" \in Profile.fields THEN was.flags ELSE @]
    IN  [h EXCEPT !.ent[e] = r,
                  !.inst = IF "statuses" \in Profile.fields
                           THEN Leaving(@, On(h, e)) \o h.snaps[k].inst ELSE @]

RestoreSnapshot ==
    \E k \in DOMAIN host.snaps :
      LET s == host.snaps[k] IN
      /\ host.tick <= s.expires
      /\ host.ent[s.target].alive \/ Profile.revive
      /\ ("position" \in Profile.fields /\ s.ent.pos \in DOMAIN Unwalkable) => Profile.blocked # "fail"
      /\ host' = Rewound(host, k)

Next ==
    \/ ApplyStatus \/ RemoveStatus \/ Dispel \/ ModifyStatusInstance \/ ApplyAttributeModifier
    \/ Damaged \/ Healed \/ Shielded \/ Teleport
    \/ Advance \/ CaptureSnapshot \/ RestoreSnapshot

Spec == Init /\ [][Next]_host

-----------------------------------------------------------------------------
(* Properties *)

TypeOK ==
    /\ host.tick \in 0..MaxTick /\ host.seq \in 0..MaxSequence /\ host.token \in 0..MaxToken
    /\ \A e \in Entity : /\ host.ent[e].health \in 0..Stats[e].maxHealth
                         /\ host.ent[e].shield \in 0..Top
                         /\ host.ent[e].alive => host.ent[e].health > 0
    /\ \A i \in DOMAIN host.inst : /\ host.inst[i] \in Instance
                                   /\ host.inst[i].stacks \in 1..MaxStacks(host.inst[i].status)
                                   /\ host.inst[i].seq <= host.seq

(* The shield of an entity is the sum of the points of its instances, and  *)
(* no step but a rewind of statuses sets them apart: no operation on an    *)
(* instance, hit, expiry or hook leaves points nobody holds or takes those *)
(* of another shield.  (A rewind does: it moves instances, not points.)    *)
Points(h, e) == PointsAt(h, On(h, e))
ShieldIsBacked ==
    [][\A e \in Entity : host.ent[e].shield = Points(host, e) =>
         host'.ent[e].shield = Points(host', e) \/ RestoreSnapshot]_host

(* An entity is marked with a status exactly while it has an instance of   *)
(* it, through moves, hooks, drains and rewinds.                           *)
FlagsMirror == \A e \in Entity : host.ent[e].flags = {host.inst[i].status : i \in On(host, e)}

(* An entity with a death hook outlives every hit, unless the hit drained  *)
(* the very instance that carried the hook; and nothing but a rewind wakes *)
(* a dead one.                                                             *)
DeathIsPrevented ==
    [][\A e \in Entity :
         /\ (host.ent[e].alive /\ ~host'.ent[e].alive /\ ~RestoreSnapshot) => Hooked(host, e, DeathHooks) = {}
         /\ (~host.ent[e].alive /\ host'.ent[e].alive) => \E k \in DOMAIN host.snaps : host.snaps[k].target = e]_host

(* The rates of an attribute round one after another, so their order      *)
(* matters: it is the order in which they were granted, whatever the place *)
(* in the list a move, a stack or a rewind gave an instance.               *)
InOrderOfGrant(h, e) ==
    LET sum == FoldSet(LAMBDA i, n : n + Policy[h.inst[i].status].bonus[2] * h.inst[i].stacks, Attribute.base,
                       {i \in On(h, e) : Policy[h.inst[i].status].bonus[1] = "add"})
        plus == FoldSet(LAMBDA m, n : n + h.mods[m].value, sum,
                        {m \in DOMAIN h.mods : h.mods[m].target = e /\ h.mods[m].op = "add"})
        rate(n) == {<<Policy[h.inst[i].status].bonus[2], h.inst[i].stacks>> :
                      i \in {j \in On(h, e) : h.inst[j].seq = n /\ Policy[h.inst[j].status].bonus[1] = "mul_bp"}}
                   \cup {<<h.mods[m].value, 1>> :
                      m \in {j \in DOMAIN h.mods : h.mods[j].target = e /\ h.mods[j].seq = n /\ h.mods[j].op = "mul_bp"}}
        value[n \in 0..h.seq] ==
            IF n = 0 THEN plus
            ELSE IF rate(n) = {} THEN value[n - 1]
            ELSE LET r == CHOOSE x \in rate(n) : TRUE
                 IN  FoldLeft(LAMBDA v, k : ScaleRounded(v, r[1], Attribute.halfAway), value[n - 1], [k \in 1..r[2] |-> k])
    IN  Greater(Attribute.minimum, Lesser(Attribute.maximum, value[h.seq]))

AttributeIsStable == \A e \in Entity : EffectiveAttribute(host, e) = InOrderOfGrant(host, e)

(* No two instances have one number, whatever was copied, moved or rewound: *)
(* the oldest of some instances is one instance.                            *)
NumbersAreOwn == \A i, j \in DOMAIN host.inst : host.inst[i].seq = host.inst[j].seq => i = j

(* The statuses of the entities are told the same way by the list and the   *)
(* flags, through moves, copies, hooks, drains, expiries and rewinds.       *)
StatusesAgree == NumbersAreOwn /\ FlagsMirror

(* Every point of life, shield and attribute is accounted for, and every    *)
(* death.                                                                   *)
LifeIsAccounted == []TypeOK /\ []AttributeIsStable /\ ShieldIsBacked /\ DeathIsPrevented
=============================================================================
