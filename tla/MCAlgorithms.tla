---------------------------- MODULE MCAlgorithms ----------------------------
(***************************************************************************)
(* The cases the algorithms without a state of their own are checked over: *)
(* arithmetic at the ends of its word, one instance of damage, selections  *)
(* over small worlds, numeric tracks and the flows of MCFlows.             *)
(***************************************************************************)
EXTENDS MCFlows, Selection, NumericTracks, Damage, TLC

Edges == (-9)..9 \cup {Bottom, Bottom + 1, -32, 31, 32, Top - 1, Top}

-----------------------------------------------------------------------------
(* Damage *)

Sources == {[NoSource EXCEPT !.dealt = d, !.penetration = p, !.force = f, !.vamp = v, !.maxHealth = 3] :
               d \in {-4, 2, Top}, p \in {0, 2}, f \in BOOLEAN, v \in {0, 3}}
Targets == {[NoSource EXCEPT !.alive = TRUE, !.health = h, !.maxHealth = 7, !.shield = s, !.armor = a, !.taken = t,
                            !.cap = k, !.minimum = m, !.block = b] :
             h \in {1, 7}, s \in {-1, 0, 2}, a \in {1, 60}, t \in {0, 60}, k \in {0, 2}, m \in {0, 3}, b \in BOOLEAN}
Strike == [amount |-> 0, type |-> "physical", crit |-> TRUE, spell |-> FALSE]
NoHook == [spell |-> FALSE, critical |-> FALSE, death |-> FALSE]

Blows(s) == {[kind |-> "damage", source |-> s, target |-> t, input |-> [Strike EXCEPT !.amount = n],
              hooks |-> [NoHook EXCEPT !.death = d]] : t \in Targets, n \in {-1, 5, 60}, d \in BOOLEAN}

-----------------------------------------------------------------------------
(* Selection: three entities, ties among them, in every shape *)

Fighter(i, p, o, f) == [id |-> i, at |-> p, facts |-> f, attribute |-> i, owned |-> o]
Summoned(s, q) == [owner |-> 1, sequence |-> s, spawned |-> q, due |-> 3 - q, facts |-> {"wolf"}]
Worlds == {<<Fighter(1, <<0, 0>>, NotOwned, {"alive"}), Fighter(2, a, o2, {"alive", "hostile"}), Fighter(3, b, o3, {"hostile"})>> :
             a \in {<<1, 0>>, <<0, 2>>}, b \in {<<0, 1>>, <<1, 0>>, <<-1, 0>>},
             o2 \in {NotOwned, Summoned(2, 0)}, o3 \in {Summoned(1, 0), Summoned(1, 1)}}
Round == [kind |-> "circle", origin |-> <<0, 0>>, entity |-> 1, reach |-> 2, inner |-> 1, direction |-> <<1, 0>>,
          most |-> 0, points |-> <<<<0, 1>>, <<1, 0>>>>]
Shapes == {[Round EXCEPT !.kind = k] : k \in {"single", "circle", "ring", "cone", "line", "raycast", "path", "owned"}}
          \cup {[Round EXCEPT !.kind = "chain", !.most = m] : m \in {0, 1}} \cup {[Round EXCEPT !.reach = None]}
Filter == [kind |-> "fact", fact |-> "alive", has |-> TRUE, op |-> "lt", value |-> 2]
Filters == {{}, {[Filter EXCEPT !.kind = "not_caster"]}, {Filter}, {[Filter EXCEPT !.fact = "hostile", !.has = FALSE]},
            {[Filter EXCEPT !.kind = "attribute", !.op = "gte"]}, {[Filter EXCEPT !.kind = "owned_fact", !.fact = "wolf"]},
            {[Filter EXCEPT !.kind = "spawned", !.value = 1]}, {[Filter EXCEPT !.value = None]}}
Selector == [shape |-> Round, from |-> <<"entity", 1>>, filters |-> {}, by |-> "", descending |-> FALSE, limit |-> 0,
             random |-> FALSE]
Selectors == {[Selector EXCEPT !.shape = s, !.from = f, !.by = b, !.descending = d, !.limit = n, !.random = r] :
                s \in Shapes, f \in {<<"entity", 1>>, <<"position", <<1, 0>>>>}, b \in {"distance", "entity_id"},
                d \in BOOLEAN, n \in {0, 1, 2}, r \in BOOLEAN}
    \cup {[Selector EXCEPT !.filters = fs, !.descending = d, !.limit = n] : fs \in Filters, d \in BOOLEAN, n \in {0, 2}}
    \cup {[Selector EXCEPT !.from = <<"hit", 1>>]}
    \cup {[Selector EXCEPT !.shape.kind = "owned", !.by = b, !.descending = d, !.limit = 1] :
            b \in {"spawn_tick", "spawn_sequence", "distance_to_owner", "remaining_lifetime"}, d \in BOOLEAN}
Scores == {(1 :> 0 @@ 2 :> 1 @@ 3 :> 1), (1 :> 2 @@ 2 :> 1 @@ 3 :> 0)}
Positions == 1 :> <<0, 0>>

(* The scores are of the elements of a random selector. *)
Picks(w) == {[kind |-> "pick", world |-> w, selector |-> s, score |-> c] :
               s \in {r \in Selectors : r.random}, c \in Scores}
            \cup {[kind |-> "pick", world |-> w, selector |-> s, score |-> 1 :> 0 @@ 2 :> 0 @@ 3 :> 0] :
               s \in {r \in Selectors : ~r.random}}

(* Three instances of a status, three abilities, some of them alike. *)
Burn(i, due, stacks) == [sequence |-> i, target |-> 1, source |-> i % 2, facts |-> {"burn"}, due |-> due, stacks |-> stacks,
                             priority |-> stacks, applied |-> 0]
Ability(h, slot, stock) == [handle |-> h, slot |-> slot, owner |-> 1, facts |-> {"fire"}, overlays |-> 1 - stock,
                            cooldown |-> stock, stock |-> stock]
Burning(d) == <<Burn(1, d, 1), Burn(2, 2, 1), Burn(3, 1, 2)>>
Known(s) == <<Ability(1, 2, 1), Ability(2, s, 1), Ability(3, 1, 0)>>
Of(by, fs, d, n) == [shape |-> Round, caster |-> 1, filters |-> fs, by |-> by, descending |-> d, limit |-> n]
FilterSets(kinds) == {{}} \cup {{[Filter EXCEPT !.kind = k, !.fact = f]} : k \in kinds, f \in {"burn", "fire"}}
StatusFilters == FilterSets({"fact", "status_source", "status_owner", "status_stack_compare", "status_duration_compare"})
AbilityFilters == FilterSets({"ability_tag", "ability_slot", "self_ability", "not_self_ability", "ability_enabled",
                              "ability_on_cooldown", "ability_has_ammo"})
Lists == {[kind |-> "statuses", list |-> Burning(x), request |-> Of(by, fs, down, n)] :
            x \in 1..2, fs \in StatusFilters, down \in BOOLEAN, n \in {0, 2},
            by \in {"dispel_priority", "remaining_duration", "stack_count", "applied_tick", "stable_id"}}
    \cup {[kind |-> "abilities", list |-> Known(x), request |-> [Of(by, fs, down, 0) EXCEPT !.shape.entity = owner]] :
            x \in 1..2, fs \in AbilityFilters, down \in BOOLEAN, by \in {"slot", "stable_id"}, owner \in {1, 2}}

-----------------------------------------------------------------------------
(* Numeric tracks: two in succession over a property *)

Motions == {("speed" :> b) @@ ("radius" :> 3) : b \in {0, 5, -9, None}}
Ranges == {[minimum |-> lo, maximum |-> hi, slots |-> s] :
             lo \in {Bottom, 0}, hi \in {6, Top}, s \in {<<"speed", "height">>, <<"speed", "radius">>}}
Tracks == {<<o, v, n>> : o \in {"set", "add", "mul_bp"}, v \in {Bottom, -3, 7, Top}, n \in {0, 3}}
Courses(m) == {[kind |-> "course", motion |-> m, policy |-> p, first |-> a, second |-> b, at |-> 2] :
                 p \in Ranges, a \in Tracks, b \in Tracks}

-----------------------------------------------------------------------------

Seeds == FlowSeeds \cup [kind : {"edge"}, left : Edges] \cup [kind : {"striker"}, source : Sources]
         \cup [kind : {"world"}, world : Worlds] \cup [kind : {"lists"}] \cup [kind : {"motion"}, motion : Motions]
Cases == CASE job.kind = "edge" -> [kind : {"arithmetic"}, left : {job.left}, right : Edges, most : Edges]
           [] job.kind = "striker" -> Blows(job.source)
           [] job.kind = "world" -> Picks(job.world)
           [] job.kind = "lists" -> Lists
           [] job.kind = "motion" -> Courses(job.motion)

JobInit == job \in Seeds
JobNext == \/ FlowNext
           \/ /\ job.kind \in {"edge", "striker", "world", "lists", "motion"}
              /\ \E c \in Cases : job' = c

(* Integer arithmetic reports or clips exactly what does not fit           *)
(* (skill/fixed_math.go), ratios and distances are rounded to the nearest  *)
(* (process_motion.go), and a numeric property moves linearly to its       *)
(* target and stays there (process_numeric.go).                            *)
NumbersAreExact ==
    /\ job.kind = "arithmetic" =>
         /\ ArithmeticIsExact(job.left, job.right)
         /\ RatiosAreRounded(job.left, job.right, job.most)
         /\ KnockbackLeaves(<<job.left, job.right>>, <<job.most, 1>>, job.left)
         /\ job.most >= 0 => DistancesAreRounded(<<job.left, job.right>>, <<job.most, 2>>, job.most)
    /\ job.kind = "course" => TracksAreLinear(job.motion, job.policy, job.first, job.second, job.at, 5)

(* Computed with such numbers, a hit takes from the shield and the health  *)
(* exactly what it reports, and a harder one never hurts less              *)
(* (combat/damage.go).                                                     *)
NumbersAreSound ==
    /\ NumbersAreExact
    /\ job.kind = "damage" => /\ DamageIsConserved(job.source, job.target, job.input, job.hooks)
                              /\ DamageIsMonotone(job.source, job.target, job.input, job.hooks)

(* What a selector selects does not depend on the order a map is ranged    *)
(* over, a random draw is over every candidate, and every element of a     *)
(* for-each gets its turn (memory_host_select.go, runtime_select.go).      *)
SelectionIsSound ==
    /\ job.kind = "pick" =>
         /\ ~Unusable(job.selector, Positions) => SelectionIsDetermined(job.world, 1, RequestOf(job.selector, 1, Positions))
         /\ DrawIsFair(job.world, 1, 1, Positions, job.selector, job.score)
         /\ LET q == Query(job.world, 1, 1, Positions, job.selector, job.score)
            IN  q # Refused => \A mode \in {"one", "each"}, body \in [1..3 -> {"continue", "suspend", "finish"}] :
                                   EveryTurnComes(q, mode, 9, body)
    /\ job.kind = "statuses" => StatusesAreDetermined(job.list, 1, job.request)
    /\ job.kind = "abilities" => AbilitiesAreDetermined(job.list, 1, 1, job.request)

(* The effects of an accepted flow happen at their ticks, once each and    *)
(* with their locals, whatever suspends (executor.go).                     *)
FlowIsDenoted == job.kind = "program" => FlowsRunInOrder(job.program)

(* An accepted cast ends within what the compiler counted, and without     *)
(* clear_memory it reads no memory nothing has set (compile.go:14).        *)
FlowIsBounded ==
    job.kind = "program" => AcceptedFlowsEnd(job.program) /\ MemoryIsInitialized(job.program)
=============================================================================
