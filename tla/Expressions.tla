---------------------------- MODULE Expressions ----------------------------
(***************************************************************************)
(* The values of a skill: what the compiler accepts as the value of a site *)
(* (an amount, a target, a condition), what it is lowered to, and what the *)
(* runtime makes of it while the cast goes through its snapshots, the      *)
(* memory is written and effects answer.  Accepted and evaluated are two   *)
(* walks over the same tree, written apart; what is hard is that they      *)
(* agree.                                                                  *)
(*                                                                         *)
(* A reference is a pair of a root and a field.  A fragment says where in  *)
(* a program a value stands: under which guard, with which local, in which *)
(* branch of an effect's result, or in which kind of process callback.     *)
(* Contents are tuples of integers; a string is a number.                  *)
(***************************************************************************)
EXTENDS FixedPoint, Sequences, FiniteSets, TLC

CONSTANTS Fragment,  \* the places a value stands in
          Written(_), \* the values written in a fragment, each with its site
          Memory,    \* [name -> the type of a declared memory]
          State      \* [name -> the type of a persistent or shared state]

VARIABLE job   \* one value, from the place it stands in to its answer

(* Types *)

Type(base, q) == [base |-> base, q |-> q, opt |-> FALSE]
Of(base) == Type(base, "unknown")
Number(q) == Type("int", q)
Maybe(t) == [t EXCEPT !.opt = TRUE]
Sure(t) == [t EXCEPT !.opt = FALSE]
Untyped == Of("any")           \* nothing is expected
Invalid == Of("invalid")   \* a diagnostic was given

(* What each site of a program expects. *)
FlowWant == [condition |-> Of("bool"), times |-> Number("count"), window |-> Number("ticks"), cost |-> Number("resource")]
ProcessWant == [target |-> Of("entity"), distance |-> Number("distance"), angle |-> Number("angle"),
                points |-> Of("path"), destination |-> Of("position"), property |-> Number("unknown")]
SelectWant == [direction |-> Of("direction"), attribute |-> Number("combat")]
EffectWant == [amount |-> Number("combat"), stacks |-> Number("count"), duration |-> Number("ticks"), ratio |-> Number("bp"),
               status |-> Of("status"), process |-> Of("process"), ability |-> Of("ability"), snapshot |-> Of("token"),
               score |-> Number("none"), mark |-> Of("entity"), mode |-> Of("string")]
Want == FlowWant @@ ProcessWant @@ SelectWant @@ EffectWant

Compatible(p, q) == p = q \/ "unknown" \in {p, q}

(* Scopes *)

Callback(f) == f.callback # "none"

ModeScope(mode) ==
    CASE mode = "charge" -> <<"charge_bp", "">> :> Number("bp") @@ <<"release_reason", "">> :> Of("string")
      [] mode \in {"hold", "toggle"} -> <<"pulse_index", "">> :> Number("count")
      [] mode = "ammo" -> <<"stock", "">> :> Number("count") @@ <<"max_stock", "">> :> Number("count")
      [] OTHER -> <<"elapsed", "">> :> Number("ticks")

BaseScope(f) ==
    (<<"caster", "">> :> Of("entity")) @@ (<<"caster", "position">> :> Of("position"))
    @@ (<<"primary_target", "">> :> Maybe(Of("entity"))) @@ (<<"self", "">> :> Of("ability"))
    @@ (<<"input", "">> :> Of("entity")) @@ (<<"mode", "">> :> Of("string")) @@ (<<"elapsed", "">> :> Number("ticks"))
    @@ [r \in {<<m, "">> : m \in DOMAIN Memory} |-> Memory[r[1]]] @@ ModeScope(f.mode)

CallbackScope(f) ==
    (<<"owner", "">> :> Of("entity")) @@ (<<"owner", "position">> :> Of("position"))
    @@ [r \in {<<x, "">> : x \in {"lifecycle_entity", "event_source", "event_target"}} |-> Of("entity")]
    @@ (<<"process", "">> :> Of("process")) @@ (<<"event_tick", "">> :> Number("ticks"))
    @@ (IF f.callback = "area" THEN <<"membership_ticks", "">> :> Number("ticks") @@ <<"enter_count", "">> :> Number("count")
        ELSE <<"process", "">> :> Of("process"))

LocalScope(f) ==
    (IF f.element = "none" THEN <<>> ELSE <<"local", "">> :> Of(f.element))
    @@ (IF f.layout = "none" THEN <<>> ELSE <<"result", "">> :> Of("result"))

(* "if exists(x)" makes x present, if x itself is in the scope. *)
Guarded(f, s) == IF f.guard \in DOMAIN s THEN [s EXCEPT ![f.guard] = Sure(@)] ELSE s

Scope == [f \in Fragment |-> Guarded(f, LocalScope(f) @@ (IF Callback(f) THEN CallbackScope(f) ELSE BaseScope(f)))]

(* The results of effects *)

Reason == <<"invalid_target", "permission_denied", "policy_rejected", "invalid_position", "destination_blocked",
            "reference_expired", "capacity_reached">>
Codes(names) == {i \in DOMAIN Reason : Reason[i] \in names}

Allowed(layout) ==
    CASE layout \in {"damage", "heal", "shield", "modifier"} -> Codes({"invalid_target", "permission_denied", "policy_rejected"})
      [] layout = "teleport" -> Codes({"invalid_target", "invalid_position", "destination_blocked", "policy_rejected"})
      [] layout \in {"status", "command"} ->
           Codes({"invalid_target", "policy_rejected", "permission_denied", "reference_expired"})
      [] layout \in {"state", "ability"} -> Codes({"policy_rejected", "permission_denied", "reference_expired"})
      [] layout = "spawn" -> Codes({"invalid_position", "capacity_reached", "permission_denied", "policy_rejected"})
      [] layout = "capture" -> Codes({"invalid_target", "capacity_reached", "permission_denied", "policy_rejected"})
      [] layout = "restore" -> Codes({"invalid_target", "destination_blocked", "permission_denied", "policy_rejected",
                                      "reference_expired"})

Always(names, t) == [n \in names |-> [typ |-> t, always |-> TRUE]]
OnSuccess(names, t) == [n \in names |-> [typ |-> t, always |-> FALSE]]

Fields(f) ==
    CASE f.layout = "damage" ->
           OnSuccess({"attempted", "mitigated", "absorbed", "health_damage"}, Number("combat"))
           @@ OnSuccess({"critical", "blocked", "dodged", "immune", "parried", "killed"}, Of("bool"))
      [] f.layout = "heal" -> OnSuccess({"attempted", "effective"}, Number("combat"))
      [] f.layout = "shield" -> OnSuccess({"added"}, Number("combat"))
      [] f.layout = "teleport" -> OnSuccess({"position"}, Of("position"))
      [] f.layout = "status" ->
           OnSuccess({"applied", "removed", "immune"}, Of("bool")) @@ OnSuccess({"due_tick"}, Number("ticks"))
           @@ OnSuccess({"previous_stacks", "current_stacks", "removed_stacks"}, Number("count"))
      [] f.layout = "modifier" -> OnSuccess({"applied"}, Of("bool")) @@ OnSuccess({"due_tick"}, Number("ticks"))
      [] f.layout \in {"state", "ability"} -> OnSuccess({"before", "after"}, f.dynamic) @@ Always({"applied"}, Of("bool"))
      [] f.layout = "spawn" -> OnSuccess({"entities"}, Of("entities")) @@ OnSuccess({"first_entity"}, Of("entity"))
      [] f.layout = "command" -> Always({"applied"}, Of("bool"))
      [] f.layout = "capture" -> OnSuccess({"token"}, Of("token"))
      [] f.layout = "restore" -> Always({"applied"}, Of("bool")) @@ OnSuccess({"applied_fields", "skipped_fields"}, Of("strings"))

Layout(f) == Always({"succeeded"}, Of("bool")) @@ Always({"failure_reason"}, Of("string")) @@ Fields(f)

(* Seeded bug of Visible: a branch sees the fields of the other branch. *)
VisibleAnywhere(f, field) == field \in DOMAIN Layout(f)
Visible(f, field) == field \in DOMAIN Layout(f) /\ (f.branch = "failure" => Layout(f)[field].always)

-----------------------------------------------------------------------------
(* The type checker.  A value that gets a diagnostic is Invalid, and so is *)
(* every value around it.                                                  *)

Projected(f, t, field) ==
    CASE \/ t.base \in {"entity", "hit"} /\ field = "position" -> [Of("position") EXCEPT !.opt = t.opt]
      [] t.base = "hit" /\ field \in {"entity", "target"} -> [Of("entity") EXCEPT !.opt = t.opt]
      [] t.base = "result" /\ Visible(f, field) -> Layout(f)[field].typ
      [] OTHER -> Invalid

TypeOfRef(f, root, field) ==
    CASE <<root, field>> \in DOMAIN Scope[f] -> Scope[f][<<root, field>>]
      [] <<root, "">> \in DOMAIN Scope[f] /\ <<root, field>> \notin DOMAIN Scope[f] ->
           Projected(f, Scope[f][<<root, "">>], field)
      [] OTHER -> Invalid

IsMemory(v) == v.k = "ref" /\ v.root \in DOMAIN Memory

(* Whether v of type a may stand where t is expected.  That a memory is    *)
(* set is for another pass to say.                                         *)
Fits(v, a, t) ==
    /\ a # Invalid /\ a.base = t.base
    /\ a.base = "int" => Compatible(a.q, t.q)
    /\ a.opt => t.opt \/ IsMemory(v)

Property == [stock |-> Number("count"), cooldown |-> Number("ticks"), enabled |-> Of("bool"),
             last_commit |-> Number("ticks")]

Logical == {"and", "or", "not"}
Compares == {"eq", "ne", "lt", "lte", "gt", "gte"}
Arithmetic == {"add", "sub", "mul", "div", "min", "max", "clamp"}
Arity(op) == IF op \in {"exists", "not"} THEN 1 ELSE IF op = "clamp" THEN 3 ELSE 2

(* A reason no such effect can fail for. *)
Unheard(f, x, y) ==
    /\ x.k = "ref" /\ x.root = "result" /\ x.field = "failure_reason" /\ f.layout # "none" /\ y.k = "string"
    /\ y.n # 0 /\ y.n \notin Allowed(f.layout)

RECURSIVE Infer(_, _, _)

(* What the i-th argument of an expression is expected to be. *)
ArgumentWant(f, v, want, i) ==
    CASE v.op = "exists" -> Untyped
      [] v.op \in Logical -> Of("bool")
      [] v.op \in Compares -> IF i = 1 THEN Untyped ELSE Sure(Infer(f, v.args[1], Untyped))
      [] v.op = "scale_bp" -> IF i = 1 THEN want ELSE Number("bp")
      [] OTHER -> IF i = 1 THEN want ELSE Sure(Infer(f, v.args[1], want))

TypeOfOp(f, v, want) ==
    LET a == [i \in DOMAIN v.args |-> Infer(f, v.args[i], ArgumentWant(f, v, want, i))]
        taken(i) == \/ a[i] # Invalid /\ i = 1 /\ v.op \notin Logical
                    \/ Fits(v.args[i], a[i], ArgumentWant(f, v, want, i))
        suits == CASE v.op = "exists" -> a[1].opt
                   [] v.op \in Compares -> /\ ~a[1].opt
                                           /\ v.op \in {"eq", "ne"} => /\ ~Unheard(f, v.args[1], v.args[2])
                                                                       /\ ~Unheard(f, v.args[2], v.args[1])
                   [] OTHER -> TRUE
    IN  IF Len(v.args) # Arity(v.op) \/ (\E i \in DOMAIN a : ~taken(i)) \/ ~suits THEN Invalid
        ELSE IF v.op \in Arithmetic \cup {"scale_bp"} THEN a[1] ELSE Of("bool")

Infer(f, v, want) ==
    LET entity(x) == Fits(x, Infer(f, x, Of("entity")), Of("entity"))
    IN  CASE v.k = "null" -> IF want = Untyped THEN Maybe(Of("null")) ELSE Maybe(want)
          [] v.k = "int" -> Number(IF want.base = "int" /\ want.q # "unknown" THEN want.q ELSE "none")
          [] v.k \in {"bool", "string"} -> Of(v.k)
          [] v.k = "ref" -> TypeOfRef(f, v.root, v.field)
          [] v.k = "attribute" -> IF entity(v.of) THEN Number("combat") ELSE Invalid
          [] v.k = "state" -> IF entity(v.of) THEN State[v.name] ELSE Invalid
          [] v.k = "ability" -> IF /\ entity(v.of)
                                   /\ Fits(v.ability, Infer(f, v.ability, Of("ability")), Of("ability"))
                                THEN Property[v.name] ELSE Invalid
          [] OTHER -> TypeOfOp(f, v, want)

Accepts(f, v, t) == Fits(v, Infer(f, v, t), t)

-----------------------------------------------------------------------------
(* Lowering: a reference to memory or a local becomes an index and a       *)
(* field, any other must be known as a whole; literals and expressions get *)
(* the quantity they were checked with.                                    *)

RefKind(root, locals) ==
    CASE root \in DOMAIN Memory -> "memory"
      [] root \in {"local", "result"} /\ locals -> "local"
      [] OTHER -> "builtin"

RECURSIVE Lower(_, _, _, _)
Lower(f, v, want, locals) ==
    CASE v.k = "int" -> [v EXCEPT !.q = Infer(f, v, want).q]
      [] v.k = "ref" -> [v EXCEPT !.kind = RefKind(v.root, locals)]
      [] v.k \in {"attribute", "state"} -> [v EXCEPT !.of = Lower(f, v.of, Of("entity"), locals)]
      [] v.k = "ability" -> [v EXCEPT !.of = Lower(f, v.of, Of("entity"), locals),
                                      !.ability = Lower(f, v.ability, Of("ability"), locals)]
      [] v.k = "op" -> [v EXCEPT !.q = Infer(f, v, want).q,
                                 !.args = [i \in DOMAIN v.args |-> Lower(f, v.args[i], ArgumentWant(f, v, want, i), locals)]]
      [] OTHER -> v

(* The attribute reads of a value; their entities contain no others. *)
RECURSIVE ReadsOf(_)
ReadsOf(v) == CASE v.k = "attribute" -> {v}
                [] v.k = "op" -> UNION {ReadsOf(v.args[i]) : i \in DOMAIN v.args}
                [] v.k = "state" -> ReadsOf(v.of)
                [] OTHER -> {}
RECURSIVE RefsOf(_)
RefsOf(v) == CASE v.k = "ref" -> {v}
               [] v.k = "op" -> UNION {RefsOf(v.args[i]) : i \in DOMAIN v.args}
               [] v.k \in {"attribute", "state"} -> RefsOf(v.of)
               [] v.k = "ability" -> RefsOf(v.of) \cup RefsOf(v.ability)
               [] OTHER -> {}

-----------------------------------------------------------------------------
(* Evaluation.  w is what the cast sees.                                   *)

Value(base, q, v) == [err |-> "", here |-> TRUE, base |-> base, q |-> q, v |-> v]
Simple(base, v) == Value(base, "unknown", v)
Missing(base) == [Simple(base, <<>>) EXCEPT !.here = FALSE]
Fails(e) == [Missing("invalid") EXCEPT !.err = e]
Entity(e) == Simple("entity", <<e>>)
Position == Simple("position", <<0, 0>>)
Flag(b) == Simple("bool", IF b THEN <<1>> ELSE <<0>>)
Word(n, q) == IF n = None THEN Fails("overflow") ELSE Value("int", q, <<n>>)

Builtin(f, r, w) ==
    CASE r = <<"caster", "">> -> Entity(1)
      [] r \in {<<"caster", "position">>, <<"owner", "position">>} -> Position
      [] r = <<"primary_target", "">> -> IF w.target = 0 THEN Missing("entity") ELSE Entity(w.target)
      [] r = <<"input", "">> -> Entity(2)
      [] r = <<"self", "">> -> Simple("ability", <<1, 1>>)
      [] r \in {<<"mode", "">>, <<"release_reason", "">>} -> Simple("string", <<0>>)
      [] r \in {<<"elapsed", "">>, <<"event_tick", "">>, <<"membership_ticks", "">>} -> Word(1, "ticks")
      [] r = <<"charge_bp", "">> -> Word(Scale, "bp")
      [] r \in {<<"pulse_index", "">>, <<"stock", "">>, <<"max_stock", "">>, <<"enter_count", "">>} -> Word(1, "count")
      [] r \in {<<"owner", "">>, <<"lifecycle_entity", "">>, <<"event_source", "">>, <<"event_target", "">>} ->
           IF Callback(f) THEN Entity(1) ELSE Fails("invariant")
      [] r = <<"process", "">> -> IF Callback(f) THEN Simple("process", <<1>>) ELSE Fails("invariant")
      [] OTHER -> Fails("invariant")

Field(x, field) ==
    CASE field = "" \/ ~x.here -> x
      [] field = "position" /\ x.base \in {"entity", "hit"} -> Position
      [] field \in {"entity", "target"} /\ x.base = "hit" -> Entity(x.v[1])
      [] field \in {"position", "entity", "target"} -> Fails("mismatch")
      [] OTHER -> Fails("invariant")

Fetch(f, c, w) ==
    CASE c.kind = "builtin" -> Builtin(f, <<c.root, c.field>>, w)
      [] c.kind = "memory" -> Field(w.memory[c.root], c.field)
      [] c.root = "local" -> Field(w.local, c.field)
      [] c.field = "" -> Simple("result", <<>>)
      [] OTHER -> IF c.field \in DOMAIN w.fields THEN w.fields[c.field] ELSE Fails("invariant")

Before(x, y) == x[1] < y[1] \/ (x[1] = y[1] /\ Len(x) = 2 /\ x[2] < y[2])

Compared(op, x, y) ==
    CASE op = "eq" -> x.v = y.v
      [] op = "ne" -> x.v # y.v
      [] op = "lt" -> Before(x.v, y.v)
      [] op = "lte" -> ~Before(y.v, x.v)
      [] op = "gt" -> Before(y.v, x.v)
      [] op = "gte" -> ~Before(x.v, y.v)

Ordered == {"int", "bool", "string", "entity", "ability"}

Computed(op, q, a) ==
    LET l == a[1].v[1]  r == a[2].v[1]
    IN  CASE op = "add" -> IF a[1].q # a[2].q THEN Fails("quantity") ELSE Word(CheckedAdd(l, r), a[1].q)
          [] op = "sub" -> Word(CheckedSub(l, r), q)
          [] op = "mul" -> Word(CheckedMul(l, r), q)
          [] op = "div" -> IF r = 0 THEN Fails("division") ELSE IF l = Bottom /\ r = -1 THEN Fails("overflow")
                           ELSE Word(Quot(l, r), q)
          [] op = "min" -> Word(Lesser(l, r), q)
          [] op = "max" -> Word(Greater(l, r), q)
          [] op = "clamp" -> Word(Greater(r, Lesser(a[3].v[1], l)), q)
          [] op = "scale_bp" -> IF a[2].q # "bp" THEN Fails("quantity")
                                ELSE IF CheckedMul(l, r) = None THEN Fails("overflow")
                                ELSE Word(Quot(CheckedMul(l, r), Scale), a[1].q)

Applied(op, q, a) ==
    LET all(base) == \A i \in DOMAIN a : a[i].base = base
        true(i) == a[i].v = <<1>>
    IN  CASE op \in Arithmetic \cup {"scale_bp"} /\ all("int") -> Computed(op, q, a)
          [] op = "not" /\ all("bool") -> Flag(~true(1))
          [] op = "and" /\ all("bool") -> Flag(true(1) /\ true(2))
          [] op = "or" /\ all("bool") -> Flag(true(1) \/ true(2))
          [] op \in Compares /\ a[1].base \in Ordered /\ a[2].base = a[1].base -> Flag(Compared(op, a[1], a[2]))
          [] OTHER -> Fails("mismatch")

Cached(point) == point \in {"cast_start", "phase_start"}
Slot(c) == <<c.of.root, c.of.field, c.at>>

RECURSIVE Eval(_, _, _)
EvalEntity(f, c, w) ==
    LET e == Eval(f, c, w) IN IF e.err # "" THEN e ELSE IF e.here /\ e.base = "entity" THEN e ELSE Fails("mismatch")
EvalAbility(f, c, w) ==
    LET e == EvalEntity(f, c.of, w)  a == Eval(f, c.ability, w)
        owned == a.here /\ a.base = "ability" /\ a.v[1] = e.v[1]
    IN  CASE e.err # "" -> e
          [] e.err = "" /\ a.err # "" -> a
          [] {e.err, a.err} = {""} /\ ~owned -> Fails("rejected")
          [] OTHER -> IF c.name = "enabled" THEN Flag(TRUE) ELSE Word(1, IF c.name = "stock" THEN "count" ELSE "ticks")
EvalOp(f, c, w) ==
    LET a == [i \in DOMAIN c.args |-> Eval(f, c.args[i], w)]
        bad == {i \in DOMAIN a : a[i].err # "" \/ ~a[i].here}
        first == CHOOSE i \in bad : \A j \in bad : i <= j
    IN  CASE c.op = "exists" -> IF a[1].err # "" THEN a[1] ELSE Flag(a[1].here)
          [] bad # {} /\ c.op # "exists" -> IF a[first].err # "" THEN a[first] ELSE Fails("missing")
          [] OTHER -> Applied(c.op, c.q, a)
Eval(f, c, w) ==
    CASE c.k = "null" -> Missing("null")
      [] c.k = "int" -> Word(c.n, c.q)
      [] c.k \in {"bool", "string"} -> Simple(c.k, <<c.n>>)
      [] c.k = "ref" -> Fetch(f, c, w)
      [] c.k = "attribute" ->
           IF Cached(c.at) /\ Slot(c) \in DOMAIN w.snapshots THEN w.snapshots[Slot(c)]
           ELSE LET e == EvalEntity(f, c.of, w) IN IF e.err # "" THEN e ELSE Word(w.power, "combat")
      [] c.k = "state" -> LET e == EvalEntity(f, c.of, w) IN IF e.err # "" THEN e ELSE w.states[c.name]
      [] c.k = "ability" -> EvalAbility(f, c, w)
      [] OTHER -> EvalOp(f, c, w)

(* What captureSnapshots adds: every read of the program taken at this     *)
(* point, whether or not its flow is ever reached, and without locals.     *)
Capture(f, v, w, point) ==
    LET plans == {n \in ReadsOf(v) : n.at = point}
        outside == [f EXCEPT !.callback = "none"]
        failures == {e \in {EvalEntity(outside, Lower(f, n.of, Of("entity"), FALSE), w) : n \in plans} : e.err # ""}
    IN  IF failures # {} THEN CHOOSE e \in failures : TRUE
        ELSE [Flag(TRUE) EXCEPT !.v = [s \in {Slot(n) : n \in plans} |-> Word(w.power, "combat")] @@ w.snapshots]

(* An effect's answer *)

Direct(f) == f.layout \in {"state", "ability"}   \* answered by the runtime, not by the host

Given(f, r, n) ==
    LET count == IF r.data THEN 1 ELSE 0
    IN  CASE n \in {"attempted", "mitigated", "absorbed", "health_damage", "effective", "added"} -> Word(count, "combat")
          [] n \in {"previous_stacks", "current_stacks", "removed_stacks"} -> Word(count, "count")
          [] n = "due_tick" -> Word(count, "ticks")
          [] n \in {"before", "after"} -> r.dynamic
          [] n = "position" -> Position
          [] n = "first_entity" -> Entity(count)
          [] n = "entities" -> Simple("entities", <<>>)
          [] n = "token" -> Simple("token", <<count>>)
          [] n \in {"applied_fields", "skipped_fields"} -> Simple("strings", <<>>)
          [] n = "applied" /\ Direct(f) -> Flag(r.ok)
          [] OTHER -> Flag(r.data)

ResultFields(f, r) ==
    [n \in DOMAIN Layout(f) |->
       CASE n = "succeeded" -> Flag(r.ok)
         [] n = "failure_reason" -> Simple("string", <<r.reason>>)
         [] OTHER -> IF ~r.ok /\ ~Layout(f)[n].always THEN Missing(Layout(f)[n].typ.base) ELSE Given(f, r, n)]

Breaches(f, r) ==
    LET fields == ResultFields(f, r)
        wrong(n) == LET t == Layout(f)[n].typ
                    IN  IF fields[n].here THEN fields[n].base # t.base \/ (t.base = "int" /\ fields[n].q # t.q) ELSE ~t.opt
    IN  \/ r.typ # f.layout
        \/ IF r.ok THEN r.reason # 0 ELSE r.reason \notin Allowed(f.layout)
        \/ \E n \in DOMAIN fields \ {"succeeded", "failure_reason"} : (r.ok \/ Layout(f)[n].always) /\ wrong(n)
        \/ ~Direct(f) /\ ~r.ok /\ r.data
        \/ f.layout = "state" /\ ~r.ok /\ r.dynamic.here
        \/ f.layout \in {"spawn", "capture"} /\ r.ok /\ ~r.data

-----------------------------------------------------------------------------

NoAnswer == Missing("none")
Defaults(types, n) == [m \in DOMAIN types |-> IF types[m].opt THEN Missing(types[m].base)
                                              ELSE Value(types[m].base, types[m].q, <<n>>)]
Unset(types) == [m \in DOMAIN types |-> [types[m] EXCEPT !.opt = FALSE]]

Mentions(roots) == \/ \E r \in RefsOf(job.v) : r.root \in roots
                   \/ job.f.guard # <<>> /\ job.f.guard[1] \in roots

JobInit == job \in [stage : {"declared"}, f : Fragment]

Check ==
    /\ job.stage = "declared"
    /\ \E x \in Written(job.f) :
         job' = IF Accepts(job.f, x[1], Want[x[2]]) THEN [stage |-> "accepted", f |-> job.f, v |-> x[1], site |-> x[2]]
                ELSE [stage |-> "refused", f |-> job.f]

Element(base) == Simple(base, IF base = "ability" THEN <<2, 1>> ELSE <<2>>)

(* Start: the memory has its defaults, reads at cast_start are taken. *)
Begin ==
    /\ job.stage = "accepted"
    /\ \E target \in IF Mentions({"primary_target"}) THEN {0, 2} ELSE {2} :
         LET w == [target |-> target, power |-> 1, memory |-> Defaults(Memory, 1), states |-> Defaults(State, 1),
                   local |-> Element(job.f.element), fields |-> <<>>, snapshots |-> <<>>]
         IN  \E c \in {Capture(job.f, job.v, w, "cast_start")} :
             job' = [stage |-> IF c.err = "" THEN "running" ELSE "failed", f |-> job.f, v |-> job.v, site |-> job.site,
                     code |-> Lower(job.f, job.v, Want[job.site], TRUE),
                     w |-> IF c.err = "" THEN [w EXCEPT !.snapshots = c.v] ELSE w,
                     answer |-> IF c.err = "" THEN NoAnswer ELSE c, start |-> 1, phase |-> 0]

CapturePhase ==
    /\ job.stage = "running" /\ ReadsOf(job.v) # {}
    /\ \E c \in {Capture(job.f, job.v, job.w, "phase_start")} :
           job' = IF c.err # "" THEN [job EXCEPT !.stage = "failed", !.answer = c]
                  ELSE [job EXCEPT !.w.snapshots = c.v, !.phase = job.w.power, !.answer = NoAnswer]

(* The world moves on: the attribute is modified, the memories are set,    *)
(* the states are written.                                                 *)
Drift ==
    /\ job.stage = "running" /\ ReadsOf(job.v) # {}
    /\ job' = [job EXCEPT !.w.power = 3 - @, !.answer = NoAnswer]
Remember ==
    /\ job.stage = "running" /\ Mentions(DOMAIN Memory)
    /\ job' = [job EXCEPT !.w.memory = Defaults(Unset(Memory), 2), !.answer = NoAnswer]

Replies(f) ==
    LET value == Value(f.dynamic.base, f.dynamic.q, <<1>>)
    IN  [typ : {f.layout} \cup (IF Direct(f) THEN {} ELSE {"other"}), ok : BOOLEAN, reason : {0, 1, 3, 6}, data : BOOLEAN,
         dynamic : IF Direct(f) THEN {value, [value EXCEPT !.q = "angle"], [value EXCEPT !.base = "path"],
                                      [value EXCEPT !.here = FALSE]} ELSE {value}]

(* Memoized by the first evaluation, if its snapshot point did not come.   *)
NewSnapshots(v, w) == [s \in {Slot(n) : n \in {x \in ReadsOf(v) : Cached(x.at)}} |-> Word(w.power, "combat")]

Evaluated(w) ==
    LET g == IF job.f.guard = <<>> THEN Flag(TRUE)
             ELSE Eval(job.f, [k |-> "op", op |-> "exists", q |-> "unknown",
                               args |-> <<[k |-> "ref", root |-> job.f.guard[1], field |-> job.f.guard[2],
                                           kind |-> RefKind(job.f.guard[1], TRUE)]>>], w)
    IN  \E a \in {Eval(job.f, job.code, w)} :
        /\ g.err = "" => g.v = <<1>>
        /\ job' = IF g.err # "" THEN [job EXCEPT !.answer = g]
                  ELSE [job EXCEPT !.answer = a, !.w = [w EXCEPT !.snapshots = IF a.err = "" THEN @ @@ NewSnapshots(job.v, w)
                                                                             ELSE @]]
Evaluate ==
    /\ job.stage = "running" /\ job.answer = NoAnswer
    /\ ReadsOf(job.v) # {} /\ job.phase = 0 => job.site = "cost"   \* paid before the first phase
    /\ \/ job.f.layout = "none" /\ Evaluated(job.w)
       \/ /\ job.f.layout # "none"
          /\ \E r \in Replies(job.f) :
               \/ Breaches(job.f, r) /\ job' = [job EXCEPT !.answer = Fails("host")]
               \/ /\ ~Breaches(job.f, r) /\ r.ok = (job.f.branch = "success")
                  /\ Evaluated([job.w EXCEPT !.fields = ResultFields(job.f, r)])

-----------------------------------------------------------------------------
(* What the compiler accepts and the runtime cannot evaluate, each for a   *)
(* reason of its own.                                                      *)

(* A field of a builtin is accepted as that of any root, but there is no   *)
(* such builtin (lower.go:804).                                            *)
Unresolved(r) == /\ r.field # "" /\ RefKind(r.root, TRUE) = "builtin"
                 /\ <<r.root, r.field>> \notin {<<"caster", "position">>, <<"owner", "position">>}

(* Arithmetic on what is no number, an order on what has none              *)
(* (compile_typecheck.go:766-795).                                         *)
RECURSIVE Unordered(_, _, _)
Unordered(f, v, want) ==
    /\ v.k = "op"
    /\ LET left == Infer(f, v.args[1], ArgumentWant(f, v, want, 1)).base
       IN  \/ v.op \in Arithmetic \cup {"scale_bp"} /\ left # "int"
           \/ v.op \in Compares /\ left \notin Ordered
           \/ \E i \in DOMAIN v.args : Unordered(f, v.args[i], ArgumentWant(f, v, want, i))

(* A snapshot is taken outside of the flow that reads it: before memory is *)
(* set, without locals, guards and the process of a callback               *)
(* (lower.go:243).                                                         *)
Uprooted(f, n) == Cached(n.at) /\ (Callback(f) \/ n.of.root \in {"primary_target", "local"} \cup DOMAIN Memory)

Unsupported == \/ \E r \in RefsOf(job.v) : Unresolved(r)
               \/ \E n \in ReadsOf(job.v) : Uprooted(job.f, n)
               \/ Unordered(job.f, job.v, Want[job.site])
               \/ job.f.guard # <<>> /\ Unresolved([root |-> job.f.guard[1], field |-> job.f.guard[2]])

(* A memory that is read has not been set, which another pass rules out.   *)
Forgotten == \E r \in RefsOf(job.v) : r.root \in DOMAIN Memory /\ ~job.w.memory[r.root].here

Asked == job.stage \in {"running", "failed"} /\ job.answer # NoAnswer

(* What compiles as a value of a site is evaluated to such a value, in     *)
(* every scope, unless the arithmetic overflows or the host breaks its     *)
(* contract: never to a wrong base or quantity, never to nothing, never to *)
(* an internal error (compile_typecheck.go:585, runtime_eval.go:10).       *)
AnswersAreTyped ==
    Asked /\ ~Unsupported =>
        LET a == job.answer  t == Want[job.site]
        IN  \/ a.err \in {"overflow", "division", "rejected", "host"}
            \/ a.err \in {"missing", "mismatch"} /\ Forgotten
            \/ /\ a.err = "" /\ a.here /\ a.base = t.base
               /\ a.base = "int" => Compatible(a.q, t.q)
            \/ a.err = "" /\ ~a.here /\ Forgotten

(* A value read at a snapshot point is that of the latest such point,      *)
(* however often the attribute changed since (runtime_eval.go:28-33).      *)
SnapshotsHold ==
    Asked /\ job.answer.err = "" /\ job.v.k = "attribute" /\ job.phase # 0 /\ ~Unsupported =>
        job.answer.v = <<CASE job.v.at = "cast_start" -> job.start
                           [] job.v.at = "phase_start" -> job.phase
                           [] job.v.at = "current" -> job.w.power>>

(* A branch of an effect runs on an answer of its outcome, that has what   *)
(* the outcome promises and, failed, nothing else                          *)
(* (runtime_effect_result.go:44).                                          *)
ResultsAreWhole ==
    Asked /\ job.stage = "running" /\ job.answer.err # "host" /\ job.f.layout # "none" =>
        LET x == job.w.fields  ok == job.f.branch = "success"
        IN  /\ x.succeeded = Flag(ok)
            /\ ok <=> x.failure_reason.v = <<0>>
            /\ \A n \in DOMAIN Fields(job.f) : x[n].here => ok \/ Fields(job.f)[n].always
            /\ ok => \A n \in DOMAIN Fields(job.f) : x[n].here \/ Fields(job.f)[n].typ.opt

ValuesAreTyped == AnswersAreTyped /\ SnapshotsHold /\ ResultsAreWhole

JobNext == Check \/ Begin \/ CapturePhase \/ Drift \/ Remember \/ Evaluate
=============================================================================
