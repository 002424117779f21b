----------------------------- MODULE Selection -----------------------------
(***************************************************************************)
(* Selecting targets: a skill's selector evaluated into a request, the     *)
(* reference host's answer over its map of entities, its list of statuses  *)
(* or the runtime's abilities, the draw of a random site, and the body     *)
(* that consumes what was selected.  A Go map is ranged over in any order: *)
(* here the order is an argument, and no answer may depend on it.          *)
(***************************************************************************)
EXTENDS FixedPoint, Sequences, FiniteSets, SequencesExt

NotOwned == [owner |-> 0, sequence |-> 0, spawned |-> 0, due |-> 0, facts |-> {}]

Compare(l, op, r) ==
    CASE op = "eq" -> l = r [] op = "ne" -> l # r [] op = "lt" -> l < r [] op = "lte" -> l <= r
      [] op = "gt" -> l > r [] op = "gte" -> l >= r [] OTHER -> FALSE

-----------------------------------------------------------------------------
(* What the host selects by *)

(* Whether a shape holds an entity, and from where its distance is taken.  *)
(* A path takes the first of its points that is near.                      *)
Near(e, shape) == {i \in DOMAIN shape.points : WithinRadius(e.at, shape.points[i], 0)}
Origin(e, shape) ==
    CASE shape.kind \in {"single", "owned"} -> e.at
      [] shape.kind = "path" -> IF Near(e, shape) = {} THEN <<0, 0>>
                                ELSE shape.points[CHOOSE i \in Near(e, shape) : \A j \in Near(e, shape) : i <= j]
      [] OTHER -> shape.origin
InShape(e, shape) ==
    CASE shape.kind = "single" -> e.id = shape.entity
      [] shape.kind \in {"circle", "chain", "nearest_valid"} -> WithinRadius(e.at, shape.origin, shape.reach)
      [] shape.kind = "ring" -> /\ DistanceSquared(e.at, shape.origin) >= SquareSaturating(shape.inner)
                                /\ DistanceSquared(e.at, shape.origin) <= SquareSaturating(shape.reach)
      [] shape.kind = "cone" -> /\ WithinRadius(e.at, shape.origin, shape.reach)
                                /\ InForwardHalfPlane(e.at, shape.origin, shape.direction)
      [] shape.kind \in {"line", "rectangle", "raycast"} ->
           WithinLineBounds(e.at, shape.origin, shape.direction, shape.reach,
                            IF shape.kind = "raycast" THEN 0 ELSE shape.inner)
      [] shape.kind = "path" -> Near(e, shape) # {}
      [] shape.kind = "owned" -> e.owned # NotOwned /\ e.owned.owner = shape.entity

(* A fact stands for a status, a tag, a relation, being alive, visible to  *)
(* the caster, targetable or in the line of sight; an owned fact for the   *)
(* template, the tags, the skill and the cast of an owned entity's record. *)
Passes(e, filter, caster) ==
    CASE filter.kind = "not_caster" -> e.id # caster
      [] filter.kind = "fact" -> (filter.fact \in e.facts) = filter.has
      [] filter.kind = "attribute" -> Compare(e.attribute, filter.op, filter.value)
      [] filter.kind = "owned_fact" -> e.owned # NotOwned /\ filter.fact \in e.owned.facts
      [] filter.kind = "spawned" -> e.owned # NotOwned /\ Compare(e.owned.spawned, filter.op, filter.value)

-----------------------------------------------------------------------------
(* Order *)

StableSort(s, Less(_, _)) ==
    LET insert(sorted, x) ==
            LET k == Cardinality({i \in DOMAIN sorted : \A j \in 1..i : ~Less(x, sorted[j])})
            IN  SubSeq(sorted, 1, k) \o <<x>> \o SubSeq(sorted, k + 1, Len(sorted))
    IN  FoldLeft(insert, <<>>, s)

(* The order a request really gets: three shapes are always by distance,   *)
(* and the host itself never draws.                                        *)
OrderBy(request) ==
    CASE request.shape.kind \in {"raycast", "chain", "nearest_valid"} -> "distance"
      [] request.by \in {"", "random"} -> "entity_id"
      [] OTHER -> request.by
Descending(request) == request.descending /\ request.shape.kind \notin {"raycast", "chain", "nearest_valid"}

SortKey(c, by, now) ==
    CASE by \in {"distance", "distance_to_owner"} -> c.distance
      [] by = "spawn_tick" -> c.entity.owned.spawned
      [] by = "spawn_sequence" -> c.entity.owned.sequence
      [] by = "remaining_lifetime" -> Greater(0, c.entity.owned.due - now)
      [] OTHER -> c.entity.id

Before(l, r, request, now) ==
    LET kl == SortKey(l, OrderBy(request), now)
        kr == SortKey(r, OrderBy(request), now)
    IN  IF kl # kr THEN IF Descending(request) THEN kl > kr ELSE kl < kr
        ELSE IF request.shape.kind = "owned" /\ l.entity.owned.sequence # r.entity.owned.sequence
             THEN l.entity.owned.sequence < r.entity.owned.sequence
             ELSE l.entity.id < r.entity.id

(* A chain never takes more than its targets, whatever the request says.   *)
LimitOf(request) ==
    IF request.shape.kind = "chain" /\ request.shape.most > 0
       /\ (request.limit <= 0 \/ request.shape.most < request.limit)
    THEN request.shape.most ELSE request.limit

Cut(s, limit) == IF limit > 0 /\ Len(s) > limit THEN SubSeq(s, 1, limit) ELSE s

(* world is the host's map of entities in the order it is ranged over.     *)
Candidates(world, request) ==
    LET holder == {i \in DOMAIN world : world[i].id = request.shape.entity}
        owner == IF holder = {} THEN <<0, 0>> ELSE world[CHOOSE i \in holder : TRUE].at
        taken(e) == InShape(e, request.shape) /\ \A f \in request.filters : Passes(e, f, request.caster)
        candidate(e) == [entity |-> e,
                         distance |-> DistanceSquared(e.at, IF request.shape.kind = "owned" THEN owner
                                                            ELSE Origin(e, request.shape))]
        kept == SelectSeq(world, taken)
    IN  [i \in DOMAIN kept |-> candidate(kept[i])]

Select(world, now, request) ==
    LET less(l, r) == Before(l, r, request, now)
        chosen == Cut(StableSort(Candidates(world, request), less), LimitOf(request))
    IN  [i \in DOMAIN chosen |-> chosen[i].entity.id]

-----------------------------------------------------------------------------
(* Status instances are ranged over in the order they were granted.        *)

PassesStatus(s, filter, now) ==
    CASE filter.kind = "fact" -> filter.fact \in s.facts
      [] filter.kind = "status_source" -> s.source = filter.value
      [] filter.kind = "status_owner" -> s.target = filter.value
      [] filter.kind = "status_stack_compare" -> Compare(s.stacks, filter.op, filter.value)
      [] filter.kind = "status_duration_compare" -> Compare(Greater(0, s.due - now), filter.op, filter.value)

StatusKey(s, by, now) ==
    CASE by = "dispel_priority" -> s.priority
      [] by = "remaining_duration" -> Greater(0, s.due - now)
      [] by = "stack_count" -> s.stacks
      [] by = "applied_tick" -> s.applied
      [] OTHER -> s.sequence

SelectStatuses(instances, now, request) ==
    LET taken(s) == s.target = request.shape.entity /\ \A f \in request.filters : PassesStatus(s, f, now)
        less(l, r) ==
            LET kl == StatusKey(l, request.by, now)
                kr == StatusKey(r, request.by, now)
            IN  IF kl # kr THEN IF request.descending THEN kl > kr ELSE kl < kr
                ELSE l.sequence < r.sequence
        chosen == Cut(StableSort(SelectSeq(instances, taken), less), request.limit)
    IN  [i \in DOMAIN chosen |-> chosen[i].sequence]

-----------------------------------------------------------------------------
(* The runtime's side *)

Refused == <<0>>   \* no element has this number

(* Abilities are private to the runtime: an owner the program may not look *)
(* at refuses the query.  They come by slot, or by handle.                 *)
PassesAbility(a, filter, self, now) ==
    CASE filter.kind = "ability_tag" -> filter.fact \in a.facts
      [] filter.kind = "ability_slot" -> a.slot = filter.value
      [] filter.kind = "self_ability" -> a.handle = self
      [] filter.kind = "not_self_ability" -> a.handle # self
      [] filter.kind = "ability_enabled" -> a.overlays = 0
      [] filter.kind = "ability_on_cooldown" -> a.cooldown > now
      [] filter.kind = "ability_has_ammo" -> a.stock > 0

SelectAbilities(abilities, now, self, allowed, request) ==
    LET taken(a) == a.owner = request.shape.entity /\ \A f \in request.filters : PassesAbility(a, f, self, now)
        bySlot(l, r) == IF l.slot # r.slot THEN l.slot < r.slot ELSE l.handle < r.handle
        byHandle(l, r) == l.handle < r.handle
        flip(s) == IF request.descending THEN Reverse(s) ELSE s
        kept == SelectSeq(StableSort(abilities, bySlot), taken)
        chosen == flip(IF request.by = "stable_id" THEN StableSort(kept, byHandle) ELSE kept)
    IN  IF request.shape.entity \notin allowed THEN Refused
        ELSE [i \in DOMAIN chosen |-> chosen[i].handle]

(* The request of a selector: the centre is the position of the entity it  *)
(* starts from or the position itself, and a random site asks for every    *)
(* candidate.  A missing number fails the query.                           *)
(* Seeded bug of RequestOf: the host is asked for no more than the limit.  *)
RequestLimited(selector, caster, positions) ==
    [caster |-> caster, filters |-> selector.filters, by |-> selector.by,
     descending |-> selector.descending, limit |-> selector.limit,
     shape |-> [selector.shape EXCEPT
                  !.origin = IF selector.from[1] = "entity" THEN positions[selector.from[2]]
                             ELSE IF selector.from[1] = "position" THEN selector.from[2] ELSE <<0, 0>>,
                  !.entity = IF selector.from[1] = "entity" THEN selector.from[2] ELSE 0]]
RequestOf(selector, caster, positions) ==
    [caster |-> caster, filters |-> selector.filters,
     by |-> IF selector.random THEN "entity_id" ELSE selector.by,
     descending |-> ~selector.random /\ selector.descending,
     limit |-> IF selector.random THEN 0 ELSE selector.limit,
     shape |-> [selector.shape EXCEPT
                  !.origin = IF selector.from[1] = "entity" THEN positions[selector.from[2]]
                             ELSE IF selector.from[1] = "position" THEN selector.from[2] ELSE <<0, 0>>,
                  !.entity = IF selector.from[1] = "entity" THEN selector.from[2] ELSE 0]]

(* A selector that cannot become a request: a number or an entity it needs *)
(* is missing, a filter's operand is.                                      *)
Unusable(selector, positions) ==
    \/ None \in {selector.shape.reach, selector.shape.inner}
    \/ selector.from[1] = "entity" /\ selector.from[2] \notin DOMAIN positions
    \/ selector.shape.kind \in {"single", "owned", "status_set"} /\ selector.from[1] # "entity"
    \/ \E f \in selector.filters : f.value = None

(* The elements of a query, in the order they are consumed.  score ranks   *)
(* an element at this invocation of the selector's site, and two elements  *)
(* may have the same score.                                                *)
Drawn(elements, selector, score) ==
    LET less(l, r) == IF score[l] # score[r] THEN score[l] < score[r] ELSE l < r
    IN  Cut(IF selector.random THEN StableSort(elements, less) ELSE elements, selector.limit)

Query(world, now, caster, positions, selector, score) ==
    IF Unusable(selector, positions) THEN Refused
    ELSE Drawn(Select(world, now, RequestOf(selector, caster, positions)), selector, score)

(* Consuming: the body of a for-each runs once for each element with the   *)
(* element in its local; a body that waits is scheduled with that local    *)
(* and the next element's turn comes, one that fails, finishes or leaves   *)
(* the phase ends the loop.  The local gets back what it held, every way   *)
(* out.  body says how the body ends for an element.                       *)
Consume(elements, mode, local, body) ==
    LET done == [local |-> local, ran |-> <<>>, waiting |-> <<>>, ends |-> "continue"]
        step(s, e) ==
            IF s.ends # "continue" THEN s
            ELSE LET ran == [s EXCEPT !.ran = Append(@, e), !.local = e]
                 IN  IF body[e] = "suspend" /\ mode = "each" THEN [ran EXCEPT !.waiting = Append(@, e)]
                     ELSE [ran EXCEPT !.ends = body[e]]
        after == FoldLeft(step, done, IF mode = "one" THEN Cut(elements, 1) ELSE elements)
    IN  IF elements = <<>> THEN [done EXCEPT !.ends = "empty"] ELSE [after EXCEPT !.local = local]

-----------------------------------------------------------------------------
(* Properties *)

Perms(s) == {[i \in DOMAIN s |-> s[p[i]]] : p \in {q \in [DOMAIN s -> DOMAIN s] : \A i, j \in DOMAIN s : i # j => q[i] # q[j]}}

(* The order in which the host's map happens to be ranged over never shows *)
(* in an answer, ties included: two servers that replay the same commands  *)
(* pick the same targets in the same order.  What a limit leaves is the    *)
(* front of what there was without it.                                     *)
SelectionIsDetermined(world, now, request) ==
    \A answer \in {Select(world, now, request)},
       all \in {Select(world, now, [request EXCEPT !.limit = 0, !.shape.most = 0])} :
        /\ \A w \in Perms(world) : Select(w, now, request) = answer
        /\ answer = Cut(all, LimitOf(request))
        /\ ToSet(all) = {world[i].id : i \in {k \in DOMAIN world :
                              InShape(world[k], request.shape)
                              /\ \A f \in request.filters : Passes(world[k], f, request.caster)}}

(* A random site draws from every candidate, not from those another order  *)
(* would have put first: exactly the lowest scores are taken.  Only a      *)
(* chain draws from its nearest targets.                                   *)
DrawIsFair(world, now, caster, positions, selector, score) ==
    \A taken \in {Query(world, now, caster, positions, selector, score)},
       all \in {ToSet(Query(world, now, caster, positions,
                            [selector EXCEPT !.limit = 0, !.shape.most = 0], score))} :
        selector.random /\ taken # Refused /\ selector.shape.kind # "chain" =>
          /\ Len(taken) = IF selector.limit > 0 THEN Lesser(selector.limit, Cardinality(all)) ELSE Cardinality(all)
          /\ \A x \in ToSet(taken), y \in all \ ToSet(taken) : score[x] <= score[y]

(* The same of the statuses of an entity and of the abilities of an owner. *)
StatusesAreDetermined(instances, now, request) ==
    \A answer \in {SelectStatuses(instances, now, request)},
       all \in {SelectStatuses(instances, now, [request EXCEPT !.limit = 0])} :
        /\ \A w \in Perms(instances) : SelectStatuses(w, now, request) = answer
        /\ answer = Cut(all, request.limit)
AbilitiesAreDetermined(abilities, now, self, request) ==
    \A answer \in {SelectAbilities(abilities, now, self, {1}, request)},
       back \in {SelectAbilities(abilities, now, self, {1}, [request EXCEPT !.descending = ~@])} :
        /\ \A w \in Perms(abilities) : SelectAbilities(w, now, self, {1}, request) = answer
        /\ answer # Refused => back = Reverse(answer)

(* Every element of a for-each gets its turn, in order, even when an       *)
(* earlier one's body waits, unless a body ends the loop; the local is     *)
(* given back whatever the way out.                                        *)
EveryTurnComes(elements, mode, local, body) ==
    \A o \in {Consume(elements, mode, local, body)} :
        /\ o.local = local
        /\ mode = "each" /\ o.ends = "continue" => o.ran = elements
        /\ o.ran = Cut(elements, Len(o.ran))
        /\ ToSet(o.waiting) = {x \in ToSet(o.ran) : mode = "each" /\ body[x] = "suspend"}
=============================================================================
