----------------------------- MODULE HostStates -----------------------------
(***************************************************************************)
(* The persistent states and the resources of the reference host: what a   *)
(* program remembers between casts, and what its costs are paid from.      *)
(* A state lives under a key until it is due, is cleared, or turns out to  *)
(* hold an entity that died.  A refused call changes nothing and is left   *)
(* out.                                                                    *)
(***************************************************************************)
EXTENDS FixedPoint, Sequences, FiniteSets

CONSTANTS Key,          \* the keys: [owner, subject, policy], entities or 0
          StatePolicy,  \* [policy -> [minimum, maximum, most, clearOn, expiry, default, type]]
          Mutation,     \* the mutations <<operation, value, duration>>
          Being,        \* the entities, positive integers
          Resource,     \* the resources
          Costs,        \* the payments <<entity, sequence of <<resource, amount>>>>
          Change,       \* the resource commands <<entity, resource, operation, amount>>
          MaxTime, MaxRecord   \* bounds

(* The bounds of a declared integer are in order (compile_state.go:57).     *)
ASSUME PoliciesAreTyped ==
    /\ \A p \in DOMAIN StatePolicy :
         /\ StatePolicy[p].most \in Int
         /\ StatePolicy[p].type = "int" =>
              /\ StatePolicy[p].minimum \in Int /\ StatePolicy[p].maximum \in Int
              /\ StatePolicy[p].minimum <= StatePolicy[p].maximum
              /\ StatePolicy[p].default \in Int
    /\ \A k \in Key : k.policy \in DOMAIN StatePolicy
ASSUME MutationsAreTyped ==
    \A m \in Mutation : /\ m[1] \in {"set", "add", "mul_bp", "min", "max"}
                        /\ m[2] \in Int /\ m[3] \in Int
(* An entity is created with a little of every resource. *)
ASSUME PoolsFit == Top >= 2
(* A negative cost is refused (memory_host.go:299), an unknown operation    *)
(* too (memory_host_effect.go:109).                                         *)
ASSUME PaymentsAreTyped ==
    /\ \A c \in Costs : c[1] \in Being /\ c[2] \in Seq(Resource \X (0..Top))
    /\ \A c \in Change : /\ c[1] \in Being /\ c[2] \in Resource
                         /\ c[3] \in {"set", "add", "sub"} /\ c[4] \in Int64

VARIABLE ledger   \* [now, seq, rec : partial function on Key, living, pool]

LedgerInit == ledger = [now |-> 0, seq |-> 0, rec |-> <<>>, living |-> Being,
                        pool |-> [b \in Being |-> [r \in Resource |-> 2]]]

PolicyOf(k) == StatePolicy[k.policy]
Bounded(p, n) == LET low == Greater(p.minimum, n) IN IF p.maximum >= p.minimum THEN Lesser(p.maximum, low) ELSE low

(* What an operation makes of a value: an entity is only set, a number is  *)
(* checked against overflow and then brought into its bounds.              *)
StateAfter(p, op, before, value) ==
    LET result == CASE op = "set" -> value
                    [] op = "add" -> CheckedAdd(before, value)
                    [] op = "mul_bp" -> LET product == CheckedMul(before, value)
                                        IN  IF product = None THEN None ELSE Quot(product, Scale)
                    [] op = "min" -> Lesser(before, value)
                    [] op = "max" -> Greater(before, value)
    IN  IF p.type = "entity" THEN IF op = "set" THEN value ELSE None
        ELSE IF result = None THEN None ELSE Bounded(p, result)

DueAfter(h, k, duration) ==
    LET p == PolicyOf(k)
        lasting == IF p.most > 0 THEN Lesser(p.most, duration) ELSE duration
        extended == h.rec[k].due + lasting
    IN  CASE k \in DOMAIN h.rec /\ p.expiry = "keep" -> h.rec[k].due
          [] k \in DOMAIN h.rec /\ p.expiry = "extend" ->
               IF p.most > 0 THEN Lesser(h.now + p.most, extended) ELSE extended
          [] OTHER -> h.now + lasting

ModifyState ==
    \E k \in Key, m \in Mutation :
      LET p == PolicyOf(k)
          before == IF k \in DOMAIN ledger.rec THEN ledger.rec[k].value ELSE p.default
          after == StateAfter(p, m[1], before, m[2])
      IN  /\ after # None /\ m[3] > 0
          /\ p.type = "entity" => m[2] \in Being
          /\ ledger.seq < MaxRecord
          /\ ledger' = [ledger EXCEPT !.seq = @ + 1,
                 !.rec = [j \in DOMAIN @ \cup {k} |->
                            IF j # k THEN @[j]
                            ELSE [value |-> after, due |-> DueAfter(ledger, k, m[3]), seq |-> ledger.seq + 1]]]

Without(h, gone) == [h EXCEPT !.rec = [k \in DOMAIN @ \ gone |-> @[k]]]

ClearState == \E k \in DOMAIN ledger.rec : ledger' = Without(ledger, {k})

(* Only a read finds out that the entity a state names is dead. *)
Names(h, k) == IF PolicyOf(k).type = "entity" THEN {h.rec[k].value} ELSE {}
ReadState == \E k \in DOMAIN ledger.rec : /\ Names(ledger, k) \ ledger.living # {}
                                          /\ ledger' = Without(ledger, {k})

StatesAdvanced(h, tick) ==
    LET now == [h EXCEPT !.now = tick] IN Without(now, {k \in DOMAIN h.rec : h.rec[k].due <= tick})

StatesAdvance == \E tick \in (ledger.now + 1)..MaxTime : ledger' = StatesAdvanced(ledger, tick)

(* The end of a life clears what is bound to it, other reasons everything  *)
(* that asks for them.                                                     *)
ClearedBy(h, reason, b) ==
    {k \in DOMAIN h.rec : /\ reason \in PolicyOf(k).clearOn
                          /\ reason = "owner_death" => k.owner = b
                          /\ reason = "target_death" => k.subject = b}
ClearStateLifecycle ==
    \E reason \in {"owner_death", "target_death", "match_end"}, b \in Being :
      /\ ClearedBy(ledger, reason, b) # {}
      /\ ledger' = Without(ledger, ClearedBy(ledger, reason, b))

(* The death of an entity, by damage. *)
Death == \E b \in ledger.living : ledger' = [ledger EXCEPT !.living = @ \ {b}]

-----------------------------------------------------------------------------
Total(costs, r) ==
    LET upTo[i \in 0..Len(costs)] ==
            IF i = 0 THEN 0
            ELSE IF costs[i][1] = r THEN SaturatingAdd(upTo[i - 1], costs[i][2]) ELSE upTo[i - 1]
    IN  upTo[Len(costs)]

(* The costs are summed by resource before any is compared. *)
Affordable(pool, costs) == \A r \in Resource : pool[r] >= Total(costs, r)

PayCosts ==
    \E c \in Costs :
      /\ Affordable(ledger.pool[c[1]], c[2])
      /\ ledger' = [ledger EXCEPT !.pool[c[1]] = [r \in Resource |-> @[r] - Total(c[2], r)]]

ChangeResource ==
    \E c \in Change :
      LET before == ledger.pool[c[1]][c[2]]
          after == CASE c[3] = "set" -> c[4]
                     [] c[3] = "add" -> SaturatingAdd(before, c[4])
                     [] c[3] = "sub" -> IF c[4] < 0 \/ before < c[4] THEN -1 ELSE before - c[4]
      IN  after >= 0 /\ after # before /\ ledger' = [ledger EXCEPT !.pool[c[1]][c[2]] = after]

LedgerNext == ModifyState \/ ClearState \/ ReadState \/ StatesAdvance \/ ClearStateLifecycle \/ Death
              \/ PayCosts \/ ChangeResource

-----------------------------------------------------------------------------
(* A state that is there is within its bounds and not yet due, and however *)
(* often it is extended never lasts longer than its longest from now.      *)
StatesAreBounded ==
    \A k \in DOMAIN ledger.rec :
      LET p == PolicyOf(k) r == ledger.rec[k] IN
      /\ r.due > ledger.now
      /\ p.most > 0 => r.due <= ledger.now + p.most
      /\ p.type = "int" => r.value \in p.minimum..p.maximum
      /\ r.seq <= ledger.seq

(* No payment, of several costs on one resource or of one too large to     *)
(* add up, leaves a resource below zero.                                   *)
NothingIsOverdrawn == \A b \in Being, r \in Resource : ledger.pool[b][r] \in 0..Top
=============================================================================
