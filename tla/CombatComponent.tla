-------------------------- MODULE CombatComponent ---------------------------
(***************************************************************************)
(* The combat state of an entity (vitals, attribute bases, buffs) behind   *)
(* the transactions of the entity server: every mutator records how to     *)
(* undo it, once per field and handler, and marks the field for the store; *)
(* a handler that fails is undone, one that succeeds patches the marked    *)
(* fields of the document; a loaded document rebuilds the rest.            *)
(*                                                                         *)
(* The modifiers of a buff are granted to the attributes under the         *)
(* instance's id, and their sums are kept, not computed: what a restore,   *)
(* an undo, a merge or a removal does to the buffs it must do to the       *)
(* grants.  A buff is used as the status bridge uses it: its specification *)
(* is its entry of the catalog.                                            *)
(***************************************************************************)
EXTENDS Damage, Sequences, FiniteSets, SequencesExt, FiniteSetsExt

CONSTANTS Unit,        \* the entities
          Born,        \* [Unit -> combatant], their vitals when created
          Resist,      \* [Unit -> tenacity in basis points]
          Catalog,     \* [buff -> its entry]
          Use,         \* the applications <<unit, buff, stacks, duration, source>>
          Edit,        \* the operations <<op, owner, value, target, policy>> on an instance
          Blow,        \* the damage <<source, target, input>>
          Bill,        \* the costs <<unit, sequence of amounts>> and
          Gift,        \* the changes <<unit, operation, amount>> of the one resource
          MaxNow, MaxId, MaxWork   \* bounds: the time, the buffs of a unit, the mutators that run

VARIABLES unit,      \* [Unit -> live state]
          stored,    \* [Unit -> its document], what the data engine has
          handler    \* [open, undo : Unit -> field -> value, marked : Unit -> fields, captured, now, work]

Field == {"vitals", "attributes", "buffs"}

(* The document of an entity: what is derived is not stored. *)
Doc(u) == [vitals |-> u.vitals, attributes |-> u.base, buffs |-> [seq |-> u.seq, active |-> u.active]]

-----------------------------------------------------------------------------
(* The attributes: one of them, a base and the sums of what is granted *)

Revoked(u, id) ==
    IF id \notin DOMAIN u.grants THEN u
    ELSE [u EXCEPT !.flat = @ - u.grants[id][1], !.rate = @ - u.grants[id][2],
                   !.grants = [g \in DOMAIN @ \ {id} |-> @[g]]]

ModifiersOf(i) == LET m == Catalog[i.buff].bonus IN <<SaturatingMul(m[1], i.stacks), SaturatingMul(m[2], i.stacks)>>

(* A grant replaces the one under its id; a buff without modifiers neither *)
(* grants nor revokes.                                                     *)
GrantModifiers(u, i) ==
    IF Catalog[i.buff].bonus = <<>> THEN u
    ELSE LET r == Revoked(u, i.id)
             m == ModifiersOf(i)
         IN  [r EXCEPT !.flat = @ + m[1], !.rate = @ + m[2],
                       !.grants = [g \in DOMAIN @ \cup {i.id} |-> IF g = i.id THEN m ELSE @[g]]]

-----------------------------------------------------------------------------
(* The buffs of an entity, in the order they were applied *)

BuffRemoved(u, k) == Revoked([u EXCEPT !.active = RemoveAt(@, k)], u.active[k].id)
WithoutBuffs(u, Gone(_)) ==
    LET gone == {k \in DOMAIN u.active : Gone(u.active[k])}
        revoked == FoldSet(LAMBDA k, r : Revoked(r, u.active[k].id), u, gone)
    IN  [revoked EXCEPT !.active = SelectSeq(@, LAMBDA i : ~Gone(i))]

(* A changed instance is granted anew. *)
Put(u, k, i) == GrantModifiers([u EXCEPT !.active[k] = i], i)
Added(u, i) == LET fresh == [i EXCEPT !.id = u.seq + 1]
               IN  GrantModifiers([u EXCEPT !.seq = @ + 1, !.active = Append(@, fresh)], fresh)

ImmuneTo(u, b) == \E k \in DOMAIN u.active : Catalog[u.active[k].buff].immunity \cap Catalog[b].tags # {}
MostStacks(b) == Greater(Catalog[b].most, 1)

Duration(e, b, duration) ==
    LET c == Catalog[b]
        scaled == IF c.tenacious /\ Resist[e] > 0
                  THEN Greater(1, ScaleBasisPoints(duration, Scale - Resist[e])) ELSE duration
    IN  IF c.longest > 0 THEN Lesser(c.longest, scaled) ELSE scaled

(* A buff that is there already is refreshed or extended and gets a stack. *)
Merged(u, k, e, b, duration, source, tick) ==
    LET i == u.active[k]
        lasting == Duration(e, b, duration)
        due == IF Catalog[b].policy = "extend" /\ i.due # 0 THEN SaturatingAdd(i.due, lasting)
               ELSE SaturatingAdd(tick, lasting)
    IN  IF Catalog[b].policy = "ignore" THEN u
        ELSE Put(u, k, [i EXCEPT !.due = due, !.source = source, !.stacks = Lesser(MostStacks(b), @ + 1)])

AppliedOnce(u, e, b, duration, source, tick) ==
    LET same == {k \in DOMAIN u.active : u.active[k].buff = b}
    IN  IF ImmuneTo(u, b) THEN u
        ELSE IF Catalog[b].policy # "independent" /\ same # {}
             THEN Merged(u, Min(same), e, b, duration, source, tick)
        ELSE Added(u, [id |-> 0, buff |-> b, stacks |-> 1, source |-> source, applied |-> tick,
                       due |-> SaturatingAdd(tick, Duration(e, b, duration))])

(* A status that replaces first removes what there is of it. *)
StatusApplied(u, c, tick) ==
    LET e == c[1] b == c[2]
        cleared == IF Catalog[b].replaces THEN WithoutBuffs(u, LAMBDA i : i.buff = b) ELSE u
    IN  FoldLeft(LAMBDA v, n : AppliedOnce(v, e, b, c[4], c[5], tick), cleared, [n \in 1..Greater(1, c[3]) |-> n])

(* Newest first, no limit for 0. *)
Dispelled(u, tag, limit) ==
    LET tagged == SelectSeq(u.active, LAMBDA i : tag \in Catalog[i.buff].tags)
        count == IF limit > 0 THEN Lesser(limit, Len(tagged)) ELSE Len(tagged)
        gone == {tagged[k].id : k \in (Len(tagged) - count + 1)..Len(tagged)}
    IN  WithoutBuffs(u, LAMBDA i : i.id \in gone)

StacksSet(u, k, n) ==
    LET i == u.active[k]
        stacks == Lesser(n, MostStacks(i.buff))
    IN  IF stacks <= 0 THEN BuffRemoved(u, k) ELSE Put(u, k, [i EXCEPT !.stacks = stacks])

-----------------------------------------------------------------------------
(* Transactions *)

NoUndo == [e \in Unit |-> <<>>]
Closed(tick, work) == [open |-> FALSE, undo |-> NoUndo, marked |-> [e \in Unit |-> {}], captured |-> <<>>,
                       now |-> tick, work |-> work]

ComponentInit ==
    LET fresh(e) == [vitals |-> Born[e], base |-> [value |-> 2, maximum |-> Top], seq |-> 0, active |-> <<>>,
                     grants |-> <<>>, flat |-> 0, rate |-> 0]
    IN  /\ unit = [e \in Unit |-> fresh(e)]
        /\ stored = [e \in Unit |-> Doc(fresh(e))]
        /\ handler = Closed(0, 0)

(* Buffs materialize their grants on a set of attributes without any. *)
LinkAttributes(u) == FoldLeft(LAMBDA v, i : GrantModifiers(v, i), u, u.active)

Loaded(doc) ==
    LinkAttributes([vitals |-> doc.vitals, base |-> doc.attributes, seq |-> doc.buffs.seq, active |-> doc.buffs.active,
                    grants |-> <<>>, flat |-> 0, rate |-> 0])

(* What a container refuses to be rebuilt from. *)
Acceptable(buffs) ==
    /\ \A k \in DOMAIN buffs.active : buffs.active[k].id \in 1..buffs.seq
    /\ \A j, k \in DOMAIN buffs.active : buffs.active[j].id = buffs.active[k].id => j = k

(* One mutator: the entities "touched" record their value of the field     *)
(* before they change, the first record of a field wins; those "dirty" are *)
(* marked for the store.                                                   *)
Mutate(field, new, touched, dirty) ==
    LET recorded(e) == IF e \notin touched \/ field \in DOMAIN handler.undo[e] THEN handler.undo[e]
                       ELSE handler.undo[e] @@ (field :> Doc(unit[e])[field])
    IN  /\ handler.open /\ handler.work < MaxWork
        /\ unit' = [e \in Unit |-> IF e \in DOMAIN new THEN new[e] ELSE unit[e]]
        /\ handler' = [handler EXCEPT !.work = @ + 1, !.undo = [e \in Unit |-> recorded(e)],
                          !.marked = [e \in Unit |-> IF e \in dirty THEN @[e] \cup {field} ELSE @[e]]]
        /\ UNCHANGED stored

(* A handler of either rollback policy; an effect outside one runs in one  *)
(* of its own.                                                             *)
Begin ==
    \E policy \in {"undo", "state"}, tick \in handler.now..MaxNow :
      /\ ~handler.open
      /\ handler' = [Closed(tick, handler.work) EXCEPT !.open = TRUE,
                        !.captured = IF policy = "state" THEN [e \in Unit |-> Doc(unit[e])] ELSE <<>>]
      /\ UNCHANGED <<unit, stored>>

BuffRoom(u, n) == u.seq + n <= MaxId

ApplyStatus_ ==
    \E c \in Use :
      LET e == c[1]
          new == StatusApplied(unit[e], c, handler.now)
      IN  /\ unit[e].vitals.alive \/ Catalog[c[2]].policy = "independent"
          /\ BuffRoom(unit[e], c[3])
          /\ Mutate("buffs", e :> new, {e}, IF ImmuneTo(unit[e], c[2]) /\ new = unit[e] THEN {} ELSE {e})

RemoveStatus_ ==
    \E e \in Unit, b \in DOMAIN Catalog, source \in Unit \cup {0} :
      LET new == WithoutBuffs(unit[e], LAMBDA i : i.buff = b /\ source \in {0, i.source})
      IN  new # unit[e] /\ Mutate("buffs", e :> new, {e}, {e})

DispelStatus ==
    \E e \in Unit, tag \in UNION {Catalog[b].tags : b \in DOMAIN Catalog}, limit \in 0..1 :
      LET new == Dispelled(unit[e], tag, limit)
      IN  new # unit[e] /\ Mutate("buffs", e :> new, {e}, {e})

TickBuffs ==
    \E e \in Unit :
      LET new == WithoutBuffs(unit[e], LAMBDA i : i.due # 0 /\ i.due <= handler.now)
      IN  new # unit[e] /\ Mutate("buffs", e :> new, {e}, {e})

EditAllowed(i, e, m) ==
    LET c == Catalog[i.buff] IN
    /\ \/ m[2] = IF c.ownership = "owner" THEN e ELSE i.source
       \/ m[1] = "remove" /\ m[2] = e
       \/ m[1] = "transfer_to" /\ c.stealable
    /\ m[1] = "remove" => c.dispellable
    /\ m[1] \in {"add_duration", "set_duration", "mul_duration_bp", "refresh"} => (c.durations = {} \/ m[1] \in c.durations)

NewDue(i, m) ==
    LET left == Greater(0, i.due - handler.now)
        lasting == Greater(1, CASE m[1] = "add_duration" -> left + m[3]
                                [] m[1] = "set_duration" -> m[3]
                                [] m[1] = "mul_duration_bp" -> ScaleBasisPoints(left, m[3])
                                [] m[1] = "refresh" -> i.due - i.applied)
        longest == Catalog[i.buff].longest
    IN  handler.now + IF longest > 0 THEN Lesser(longest, lasting) ELSE lasting

(* The copy goes to the other container under an id of its own, and only   *)
(* then is the original removed.                                           *)
MovedBuff(e, k, m) ==
    LET i == unit[e].active[k]
        copy == [i EXCEPT !.applied = handler.now,
                          !.source = CASE m[5] = "original_owner" -> e
                                       [] m[5] = "new_owner" -> m[4]
                                       [] m[5] = "new_source" -> m[2]]
        there == Added(unit[m[4]], copy)
        here == IF m[4] = e THEN there ELSE unit[e]
        left == IF m[1] = "transfer_to" THEN BuffRemoved(here, k) ELSE here
    IN  (e :> left) @@ (m[4] :> there)

ModifyStatusInstance_ ==
    \E e \in Unit, m \in Edit : \E k \in DOMAIN unit[e].active :
      LET u == unit[e]
          i == u.active[k]
      IN  /\ EditAllowed(i, e, m)
          /\ CASE m[1] = "remove" -> Mutate("buffs", e :> BuffRemoved(u, k), {e}, {e})
               [] m[1] = "add_stacks" -> Mutate("buffs", e :> StacksSet(u, k, i.stacks + m[3]), {e}, {e})
               [] m[1] = "set_stacks" -> Mutate("buffs", e :> StacksSet(u, k, m[3]), {e}, {e})
               [] m[1] \in {"copy_to", "transfer_to"} ->
                    /\ unit[m[4]].vitals.alive /\ BuffRoom(unit[m[4]], 1)
                    /\ IF m[1] = "copy_to" THEN Catalog[i.buff].copyable ELSE Catalog[i.buff].transferable
                    /\ Mutate("buffs", MovedBuff(e, k, m), DOMAIN MovedBuff(e, k, m),
                              IF m[1] = "copy_to" THEN {m[4]} ELSE {e, m[4]})
               [] OTHER -> Mutate("buffs", e :> [u EXCEPT !.active[k].due = NewDue(i, m)], {e}, {e})

(* Damage touches the vitals of both, and marks the source's if it healed. *)
(* The blow, with what came of it. *)
Dealt(c, o) ==
    LET struck == c[2] :> [unit[c[2]] EXCEPT !.vitals = o.target]
        healed == IF c[1] = 0 THEN <<>> ELSE c[1] :> [unit[c[1]] EXCEPT !.vitals = o.source]
    IN  Mutate("vitals", struck @@ healed, {c[2]} \cup (Unit \cap {c[1]}),
               {c[2]} \cup (IF o.vamp > 0 THEN {c[1]} ELSE {}))

ApplyDamage ==
    \E c \in Blow :
      /\ unit[c[2]].vitals.alive
      /\ Dealt(c, ResolveDamage(IF c[1] = 0 THEN NoSource ELSE unit[c[1]].vitals, unit[c[2]].vitals, c[3],
                                [spell |-> FALSE, critical |-> FALSE, death |-> FALSE]))

Restored ==
    \E e \in Unit :
      LET healed == [unit[e] EXCEPT !.vitals.health = ResolveHeal(unit[e].vitals, 1).health]
          shielded == [unit[e] EXCEPT !.vitals.shield = @ + AddShield(unit[e].vitals, 1)]
      IN  /\ unit[e].vitals.alive
          /\ \E new \in {healed, shielded} : Mutate("vitals", e :> new, {e}, IF new = unit[e] THEN {} ELSE {e})

(* The resource is the base of an attribute: costs are paid from it when   *)
(* their sum is affordable, other commands set it, and its bounds may be   *)
(* set.                                                                    *)
SetBase(e, n) == Mutate("attributes", e :> [unit[e] EXCEPT !.base.value = n], {e}, {e})

PayCosts_ ==
    \E c \in Bill :
      LET total == FoldLeft(LAMBDA n, x : IF n = None THEN None ELSE CheckedAdd(n, x), 0, c[2])
      IN  /\ total # None /\ total > 0
          /\ unit[c[1]].base.value >= total
          /\ SetBase(c[1], unit[c[1]].base.value - total)

ApplyResource ==
    \E c \in Gift :
      LET before == unit[c[1]].base.value
          after == CASE c[2] = "set" -> c[3]
                     [] c[2] = "add" -> SaturatingAdd(before, c[3])
                     [] c[2] = "spend" -> IF c[3] < 0 \/ before < c[3] THEN -1 ELSE before - c[3]
      IN  after >= 0 /\ after # before /\ SetBase(c[1], after)

SetAttributeBounds ==
    \E e \in Unit, most \in {2, Top} :
      /\ unit[e].base.maximum # most
      /\ Mutate("attributes", e :> [unit[e] EXCEPT !.base.maximum = most], {e}, {e})

(* Seeded bug of Undone: the instances of the handler are not revoked.     *)
UndoneGrants(u, saved) ==
    LET v == IF "vitals" \in DOMAIN saved THEN [u EXCEPT !.vitals = saved.vitals] ELSE u
        a == IF "attributes" \in DOMAIN saved THEN [v EXCEPT !.base = saved.attributes] ELSE v
    IN  IF "buffs" \notin DOMAIN saved THEN a
        ELSE LinkAttributes([a EXCEPT !.seq = saved.buffs.seq, !.active = saved.buffs.active])

(* The recorded inverses; that of the buffs revokes what is active now and *)
(* grants what was active then.                                            *)
Undone(u, saved) ==
    LET v == IF "vitals" \in DOMAIN saved THEN [u EXCEPT !.vitals = saved.vitals] ELSE u
        a == IF "attributes" \in DOMAIN saved THEN [v EXCEPT !.base = saved.attributes] ELSE v
        r == FoldLeft(LAMBDA w, i : Revoked(w, i.id), a, a.active)
    IN  IF "buffs" \notin DOMAIN saved THEN a
        ELSE LinkAttributes([r EXCEPT !.seq = saved.buffs.seq, !.active = saved.buffs.active])

(* The handler, or the commit of the data engine, fails. *)
Rollback ==
    /\ handler.open
    /\ unit' = [e \in Unit |-> IF handler.captured # <<>> THEN Loaded(handler.captured[e])
                               ELSE Undone(unit[e], handler.undo[e])]
    /\ handler' = Closed(handler.now, handler.work)
    /\ UNCHANGED stored

(* The marked fields are written over the document. *)
Patched(doc, u, fields) == [f \in Field |-> IF f \in fields THEN Doc(u)[f] ELSE doc[f]]

Commit ==
    /\ handler.open
    /\ stored' = [e \in Unit |-> Patched(stored[e], unit[e], handler.marked[e])]
    /\ handler' = Closed(handler.now, handler.work)
    /\ UNCHANGED unit

(* The process dies, and the entities are loaded again. *)
Reload ==
    /\ \E e \in Unit : unit[e] # Loaded(stored[e])
    /\ unit' = [e \in Unit |-> Loaded(stored[e])]
    /\ handler' = Closed(handler.now, handler.work)
    /\ UNCHANGED stored

ComponentNext ==
    \/ Begin \/ Commit \/ Rollback \/ Reload
    \/ ApplyStatus_ \/ RemoveStatus_ \/ DispelStatus \/ TickBuffs \/ ModifyStatusInstance_
    \/ ApplyDamage \/ Restored \/ PayCosts_ \/ ApplyResource \/ SetAttributeBounds

-----------------------------------------------------------------------------
(* The attributes hold the grants of exactly the buffs that are active,    *)
(* for as many stacks as they have, and the sums are those of the grants:  *)
(* no merge, move, undo or load leaves a modifier behind or counts it      *)
(* twice.                                                                  *)
GrantsMatchBuffs ==
    \A e \in Unit :
      LET u == unit[e]
          granting == {k \in DOMAIN u.active : Catalog[u.active[k].buff].bonus # <<>>}
          sum(n) == FoldSet(LAMBDA k, s : s + ModifiersOf(u.active[k])[n], 0, granting)
      IN  /\ DOMAIN u.grants = {u.active[k].id : k \in granting}
          /\ \A k \in granting : u.grants[u.active[k].id] = ModifiersOf(u.active[k])
          /\ u.flat = sum(1) /\ u.rate = sum(2)

(* Between handlers an entity is what its document says, and what loading  *)
(* the document gives: nothing a handler changed goes unmarked, and a      *)
(* handler that failed leaves no trace, in the entity it was called on or  *)
(* another.  A document is never one the load would refuse.                *)
DocumentFollows ==
    /\ ~handler.open => \A e \in Unit : /\ Doc(unit[e]) = stored[e]
                                        /\ Loaded(stored[e]) = unit[e]
    /\ \A e \in Unit : Acceptable(stored[e].buffs)

(* The battery, its document and what a failed handler restores agree.      *)
ComponentIsWhole == GrantsMatchBuffs /\ DocumentFollows
=============================================================================
