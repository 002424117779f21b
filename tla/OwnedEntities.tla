--------------------------- MODULE OwnedEntities ----------------------------
(***************************************************************************)
(* The entities a program spawns in the reference host: templates with     *)
(* capacities per owner, source program and team, spawns that replace what *)
(* is there, and the transaction with which the runtime takes a spawn back.*)
(* The runtime resolves a transaction inside the call that opened it, so   *)
(* nothing else reaches the host in between.                               *)
(***************************************************************************)
EXTENDS Integers, Sequences, FiniteSets, FiniteSetsExt

CONSTANTS Hero,      \* the entities that own others, positive integers
          Team,      \* [Hero -> team, or 0 for none]
          Template,  \* [template -> its catalog entry]
          Spawn,     \* the commands <<owner, template, source, count, place, duration, transactional>>
          Order,     \* the commands <<owner, command, place>> to a spawned entity
          MaxClock, MaxSpawned   \* bounds

ASSUME HeroesAreNumbered == Hero \subseteq Nat \ {0} /\ IsFiniteSet(Hero)
ASSUME TemplatesAreBounded ==
    \A t \in DOMAIN Template : /\ Template[t].perOwner \in Int /\ Template[t].perSource \in Int
                               /\ Template[t].perTeam \in Int
ASSUME SpawnsAreTyped ==
    \A c \in Spawn : /\ c[1] \in Hero /\ c[2] \in DOMAIN Template
                     /\ c[4] \in Int /\ c[5] \in Int /\ c[6] \in Int /\ c[7] \in BOOLEAN
ASSUME OrdersAreTyped ==
    \A c \in Order : c[1] \in Hero /\ c[2] \in {"move_to", "return_to_owner", "despawn"} /\ c[3] \in Int

VARIABLE owned   \* [clock, next, meta : entity -> metadata, world : entity -> entity, open]

NoTransaction == [created |-> {}, meta |-> <<>>, world |-> <<>>, was |-> <<>>]

OwnedInit ==
    owned = [clock |-> 0, next |-> Max(Hero \cup {0}) + 1, meta |-> <<>>, open |-> NoTransaction,
             world |-> [h \in Hero |-> [alive |-> TRUE, place |-> 0, owner |-> 0]]]

OnlyOf(f, S) == [x \in DOMAIN f \cap S |-> f[x]]
Over(f, g) == [x \in DOMAIN f \cup DOMAIN g |-> IF x \in DOMAIN f THEN f[x] ELSE g[x]]
Removed(o, gone) == [o EXCEPT !.meta = OnlyOf(@, DOMAIN @ \ gone), !.world = OnlyOf(@, DOMAIN @ \ gone)]

SameTeam(a, b) == IF Team[a] = 0 \/ Team[b] = 0 THEN a = b ELSE Team[a] = Team[b]

(* The three groups a capacity counts. *)
OfTemplate(o, c) == {x \in DOMAIN o.meta : o.meta[x].template = c[2]}
OfOwner(o, c) == {x \in OfTemplate(o, c) : o.meta[x].owner = c[1]}
OfSource(o, c) == {x \in OfOwner(o, c) : o.meta[x].source = c[3]}
OfTeam(o, c) == {x \in OfTemplate(o, c) : SameTeam(c[1], o.meta[x].owner)}

Excess(o, c) ==
    LET t == Template[c[2]]
        over(group, most) == IF most > 0 THEN Cardinality(group) + c[4] - most ELSE 0
    IN  [owner |-> Cardinality(OfOwner(o, c)) + c[4] - t.perOwner,
         source |-> over(OfSource(o, c), t.perSource),
         team |-> over(OfTeam(o, c), t.perTeam)]

Square(n) == n * n

(* The candidates, and the order in which the policy of a template gives   *)
(* them up; an entity spawned later has a greater number.                  *)
Replaceable(o, c) == OfTemplate(o, c) \cap (OfOwner(o, c) \cup OfTeam(o, c))
GivenUpBefore(o, c, x, y) ==
    LET policy == Template[c[2]].replacement
        far(z) == Square(o.world[z].place - c[5])
        older(u, v) == \/ o.meta[u].born < o.meta[v].born
                       \/ o.meta[u].born = o.meta[v].born /\ u < v
    IN  CASE policy = "replace_newest" -> older(y, x)
          [] policy = "replace_nearest" -> far(x) < far(y) \/ (far(x) = far(y) /\ x < y)
          [] policy = "replace_farthest" -> far(x) > far(y) \/ (far(x) = far(y) /\ x < y)
          [] OTHER -> older(x, y)
CandidateOrder(o, c) ==
    LET rank(x) == Cardinality({y \in Replaceable(o, c) : y = x \/ GivenUpBefore(o, c, y, x)})
    IN  [i \in 1..Cardinality(Replaceable(o, c)) |-> CHOOSE x \in Replaceable(o, c) : rank(x) = i]

(* Seeded bug of ReplacementPlan: one removal for each capacity that is    *)
(* exceeded, not for each entity in excess.                                *)
ReplacementPlanOnce(o, c) ==
    LET e == Excess(o, c)
        order == CandidateOrder(o, c)
    IN  IF e.owner <= 0 /\ e.source <= 0 /\ e.team <= 0 THEN [ok |-> TRUE, remove |-> {}]
        ELSE [ok |-> order # <<>> /\ Template[c[2]].replacement # "reject_new",
              remove |-> IF order = <<>> THEN {} ELSE {order[1]}]

(* In the order of the policy, whoever relieves a capacity still exceeded  *)
(* is removed, until none is.                                              *)
Relieves(o, c, e, x) == [owner |-> e.owner > 0 /\ x \in OfOwner(o, c),
                         source |-> e.source > 0 /\ x \in OfSource(o, c),
                         team |-> e.team > 0 /\ x \in OfTeam(o, c)]
Considered(o, c, p, x) ==
    LET m == Relieves(o, c, p.excess, x)
    IN  IF \E k \in DOMAIN m : m[k]
        THEN [excess |-> [k \in DOMAIN m |-> IF m[k] THEN p.excess[k] - 1 ELSE p.excess[k]], remove |-> p.remove \cup {x}]
        ELSE p
Relieved(p) == \A k \in DOMAIN p.excess : p.excess[k] <= 0
ReplacementPlan(o, c) ==
    LET start == [excess |-> Excess(o, c), remove |-> {}]
        order == CandidateOrder(o, c)
        after[i \in 0..Len(order)] == IF i = 0 THEN start ELSE Considered(o, c, after[i - 1], order[i])
        plan == after[Len(order)]
    IN  IF Relieved(start) THEN [ok |-> TRUE, remove |-> {}]
        ELSE [ok |-> Template[c[2]].replacement # "reject_new" /\ Relieved(plan), remove |-> plan.remove]

(* What a spawn that has room leaves behind; a transaction keeps what it   *)
(* removed.  "was" is not kept by the host: it is what a rollback must     *)
(* bring back.                                                             *)
Spawned(o, c, plan) ==
    LET r == Removed(o, plan.remove)
        new == o.next..(o.next + c[4] - 1)
        meta == [x \in new |-> [owner |-> c[1], template |-> c[2], source |-> c[3], born |-> o.clock,
                                due |-> o.clock + c[6]]]
        world == [x \in new |-> [alive |-> TRUE, place |-> c[5], owner |-> c[1]]]
    IN  [r EXCEPT !.next = @ + c[4], !.meta = Over(meta, @), !.world = Over(world, @),
                  !.open = IF c[7] THEN [created |-> new, meta |-> OnlyOf(o.meta, plan.remove),
                                         world |-> OnlyOf(o.world, plan.remove), was |-> <<o.meta, o.world>>] ELSE @]

Idle == owned.open = NoTransaction

SpawnOwned ==
    \E c \in Spawn :
      LET plan == ReplacementPlan(owned, c) IN
      /\ Idle
      /\ owned.world[c[1]].alive
      /\ c[4] \in 1..Template[c[2]].maximum /\ c[6] \in 1..Template[c[2]].lifetime
      /\ plan.ok
      /\ owned.next + c[4] <= MaxSpawned + 1
      /\ owned' = Spawned(owned, c, plan)

CommitOwnedSpawn == ~Idle /\ owned' = [owned EXCEPT !.open = NoTransaction]

(* Seeded bug of RolledBack: the replaced entities return without metadata. *)
RolledBackBare(o) ==
    LET r == Removed(o, o.open.created)
    IN  [r EXCEPT !.world = Over(o.open.world, @), !.open = NoTransaction]

RolledBack(o) ==
    LET r == Removed(o, o.open.created)
    IN  [r EXCEPT !.meta = Over(o.open.meta, @), !.world = Over(o.open.world, @), !.open = NoTransaction]

RollbackOwnedSpawn == ~Idle /\ owned' = RolledBack(owned)

(* A command of the owner: a move, a return or a despawn; the others only  *)
(* tell the listeners.                                                     *)
Command ==
    \E x \in DOMAIN owned.meta, c \in Order :
      /\ Idle
      /\ owned.meta[x].owner = c[1]
      /\ c[2] \in Template[owned.meta[x].template].commands
      /\ owned' = CASE c[2] = "move_to" -> [owned EXCEPT !.world[x].place = c[3]]
                    [] c[2] = "return_to_owner" -> [owned EXCEPT !.world[x].place = owned.world[c[1]].place]
                    [] c[2] = "despawn" -> Removed(owned, {x})

ExpiredAt(o, tick) ==
    {x \in DOMAIN o.meta : \/ o.meta[x].due <= tick
                           \/ /\ Template[o.meta[x].template].ownerDeath = "despawn"
                              /\ ~o.world[o.meta[x].owner].alive}

OwnedAdvance ==
    /\ Idle
    /\ \E tick \in (owned.clock + 1)..MaxClock :
         owned' = [Removed(owned, ExpiredAt(owned, tick)) EXCEPT !.clock = tick]

(* A program is taken away, or the match ends. *)
RemoveOwnedEntities ==
    \E gone \in {{x \in DOMAIN owned.meta : owned.meta[x].source = s /\ Template[owned.meta[x].template].skillRemoved = "despawn"} :
                   s \in {c[3] : c \in Spawn}}
                \cup {{x \in DOMAIN owned.meta : Template[owned.meta[x].template].matchEnd = "despawn"}} :
      Idle /\ gone # {} /\ owned' = Removed(owned, gone)

(* The life of an owner, by damage and rewinds. *)
OwnerLife == Idle /\ \E h \in Hero : owned' = [owned EXCEPT !.world[h].alive = ~@]

OwnedNext == SpawnOwned \/ CommitOwnedSpawn \/ RollbackOwnedSpawn \/ Command \/ OwnedAdvance
             \/ RemoveOwnedEntities \/ OwnerLife

-----------------------------------------------------------------------------
(* Whatever was replaced, taken back or expired, no owner, source or team  *)
(* has more entities of a template than it allows.                         *)
WithinCapacities ==
    \A x \in DOMAIN owned.meta :
      LET m == owned.meta[x]
          c == <<m.owner, m.template, m.source>>
          t == Template[m.template]
      IN  /\ Cardinality(OfOwner(owned, c)) <= t.perOwner
          /\ t.perSource > 0 => Cardinality(OfSource(owned, c)) <= t.perSource
          /\ t.perTeam > 0 => Cardinality(OfTeam(owned, c)) <= t.perTeam

(* A spawn that is taken back leaves the entities and their metadata as    *)
(* they were before it, those it had replaced included, and metadata is    *)
(* kept for the spawned entities of the world and no other.                *)
RollbackRestores ==
    [][/\ RollbackOwnedSpawn => <<owned'.meta, owned'.world>> = owned.open.was
       /\ DOMAIN owned'.meta = DOMAIN owned'.world \ Hero]_owned

(* After an advance nobody outlives its lease, or an owner it should not   *)
(* outlive.                                                                *)
LeasesExpire ==
    [][owned'.clock > owned.clock =>
         \A x \in DOMAIN owned'.meta :
           /\ owned'.meta[x].due > owned'.clock
           /\ Template[owned'.meta[x].template].ownerDeath = "despawn" => owned'.world[owned'.meta[x].owner].alive]_owned

(* A transaction and an advance leave nothing behind that should be gone.   *)
OwnedIsSettled == RollbackRestores /\ LeasesExpire
=============================================================================
