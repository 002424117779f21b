------------------------------ MODULE MCViews ------------------------------
(***************************************************************************)
(* Two entities that are shown, hidden or fail to be asked for; for each   *)
(* part of the state every pair of an earlier and a later entry, under the *)
(* policies that can tell them apart.  Four versions of a schema.          *)
(***************************************************************************)
EXTENDS Views

MCFocus == {"cast", "cooldown", "resource", "policy", "process", "persistent", "cue"}
MCVersion == 1..4
MCFaulty == {<<3, 4>>}

Field == {"clock", "casts", "cooldowns", "resources", "abilities", "processes", "process_spatial", "policies",
          "persistent_state", "persistent_value", "presentation", "presentation_spatial"}
Answer == {"yes", "no", "error"}

(* The policies that answer these fields in any way, and show all others. *)
Policies(fields, secrets, flags) ==
    {[entity |-> e, field |-> f @@ [x \in Field |-> "yes"], secret |-> s, spatial |-> "spatial" \in g, opaque |-> "opaque" \in g] :
       e \in [{1, 2} -> Answer], f \in [fields -> {"yes", "no"}], s \in secrets, g \in flags}
Failing(fields) ==
    {[entity |-> e, field |-> [x \in Field |-> IF x = f THEN "error" ELSE "yes"], secret |-> {}, spatial |-> FALSE, opaque |-> FALSE] :
       e \in [{1, 2} -> {"yes", "no"}], f \in fields}

Empty == [tick |-> 1, rev |-> 1, cast |-> <<>>, cooldown |-> <<>>, ability |-> <<>>, process |-> <<>>, resource |-> <<>>,
          policy |-> <<>>, persistent |-> <<>>]
At(d, k, v) == IF v = <<>> THEN Empty ELSE [Empty EXCEPT ![d] = k :> v]
Later(w, by) == [w EXCEPT !.tick = @ + by]
Ask(policies, pairs) == {[policy |-> p, was |-> x[1], now |-> x[2], cues |-> FALSE] : p \in policies, x \in pairs}
OverTime(pairs) == pairs \cup {<<x[1], Later(x[2], 1)>> : x \in pairs}

CastPairs ==
    UNION {LET entries == {<<>>} \cup {[caster |-> c, target |-> t, status |-> s, start |-> 0] : s \in {1, 2}}
           IN  {<<At("cast", <<1>>, v), At("cast", <<1>>, w)>> : v \in entries, w \in entries} : c \in {1, 2}, t \in {0, 1, 2}}

(* A cooldown and two abilities of one program. *)
CooldownWorlds ==
    {[Empty EXCEPT !.cooldown = IF due = 0 THEN <<>> ELSE <<1, 1>> :> due,
                   !.ability = [k \in {<<1, h>> : h \in DOMAIN stock} |-> [prog |-> <<1, 1>>, stock |-> stock[k[2]]]]] :
       due \in {0, 3}, stock \in {<<>>, <<1>>, <<2, 1>>}}
CooldownPairs == CooldownWorlds \X CooldownWorlds

CountPairs(d) == UNION {{<<At(d, <<o, 1>>, v), At(d, <<o, 1>>, w)>> : v, w \in {<<>>, [n |-> 1], [n |-> 2]}} : o \in {1, 2}}

Process(o, e, c, x) == [owner |-> o, entity |-> e, carry |-> c, place |-> x]
ProcessPairs ==
    UNION {LET entries == {<<>>} \cup {Process(o, e, c, x) : c \in {0, 2}, x \in {1, 2}}
           IN  {<<At("process", <<1>>, v), At("process", <<1>>, w)>> : v \in entries, w \in entries} : o \in {1, 2}, e \in {0, 1, 2}}

Plain(base, e) == [base |-> base, here |-> TRUE, ent |-> e, list |-> <<>>, fields |-> <<>>]
RuntimeValues ==
    {Plain(b, 0) : b \in {"int", "position", "snapshot_token"}} \cup {Plain(b, 2) : b \in {"entity", "ability", "status_instance", "hit"}}
    \cup {MissingValue(Plain("entity", 2)), [Plain("entity_list", 0) EXCEPT !.list = <<1, 2, 1>>],
          [Plain("effect_result", 0) EXCEPT !.fields = <<Plain("entity", 1), Plain("path", 0), Plain("hit", 2)>>]}
StateKeys == {<<1, 1, 0>>, <<1, 1, 2>>, <<1, 2, 1>>}
StatePairs ==
    LET first == [value |-> Plain("entity", 1), due |-> 3]
        second == {<<>>, first} \cup {[value |-> x, due |-> 4] : x \in RuntimeValues}
    IN  {<<At("persistent", k, v), At("persistent", k, w)>> : k \in StateKeys, v \in {<<>>, first}, w \in second}

CueWorlds ==
    {[Empty EXCEPT !.cast = IF c = 0 THEN <<>> ELSE <<1>> :> [caster |-> c, target |-> t, status |-> 1, start |-> 0],
                   !.process = <<1>> :> Process(o, e, 2, 1)] : c \in {0, 1, 2}, t \in {0, 2}, o \in {1, 2}, e \in {0, 1, 2}}

MCQuestion(f) ==
    CASE f = "cast" -> Ask(Policies({"clock", "casts"}, {{}}, {{}}) \cup Failing({"clock", "casts", "process_spatial"}), OverTime(CastPairs))
      [] f = "cooldown" -> Ask(Policies({"clock", "cooldowns", "abilities"}, {{}, {1}}, {{}}), OverTime(CooldownPairs))
      [] f \in {"resource", "policy"} ->
           Ask(Policies({IF f = "resource" THEN "resources" ELSE "policies"}, {{}}, {{}}), CountPairs(f))
      [] f = "process" ->
           Ask(Policies({"processes", "process_spatial"}, {{}}, {{}, {"spatial"}}) \cup Failing({"process_spatial"}), ProcessPairs)
      [] f = "persistent" ->
           Ask(Policies({"persistent_state", "persistent_value"}, {{}, {1}}, {{}, {"spatial", "opaque"}})
               \cup Failing({"persistent_value"}), StatePairs)
      [] f = "cue" ->
           {[q EXCEPT !.cues = TRUE] :
              q \in Ask(Policies({"presentation", "presentation_spatial", "processes"}, {{}}, {{}, {"spatial"}}),
                        {<<w, w>> : w \in CueWorlds})}
=============================================================================
