------------------------------- MODULE Flows -------------------------------
(***************************************************************************)
(* The flows of a phase: what the static passes of skill/compile.go accept *)
(* (compile_graph.go, compile_memory.go, compile_lifetime.go,              *)
(* compile_budget.go, compile_effect_result.go) and what the executor      *)
(* does with them (executor.go, the flow tasks of scheduler.go,            *)
(* runtime_effect_result.go).                                              *)
(*                                                                         *)
(* A flow is a record with the field op; lowering keeps its shape, so the  *)
(* operation tables are the flow itself.  An effect is what it reads and   *)
(* how it comes out; a condition reads a memory or the index of a repeat;  *)
(* a selection is the number of elements it finds.  A memory is present or *)
(* missing, a local is an integer (0 when unset).                          *)
(***************************************************************************)
EXTENDS Integers, SequencesExt, FiniteSetsExt

CONSTANTS
    Local,     \* indices of repeats, elements of selections, "result"
    Horizon    \* bound: scheduled tasks run in one execution
ASSUME HorizonAssumption == Horizon \in Nat

Nop == [op |-> "nop"]          \* an absent branch
IsNop(f) == f.op = "nop"

-----------------------------------------------------------------------------
(* Flows as trees: ir_visit.go.                                            *)

Children(f) ==
    CASE f.op = "sequence" -> f.steps
      [] f.op = "parallel" -> f.branches
      [] f.op = "if"       -> <<f.then, f.else>>
      [] f.op = "repeat"   -> <<f.body>>
      [] f.op = "wait"     -> <<f.then>>
      [] f.op = "select"   -> <<f.body, f.empty>>
      [] f.op = "effect"   -> <<f.success, f.failure>>
      [] OTHER             -> <<>>

RECURSIVE Nodes(_)
Nodes(f) == {f} \cup UNION {Nodes(c) : c \in ToSet(Children(f))}

Suspends(f) == f.op = "wait" \/ (f.op = "repeat" /\ f.interval > 0)
Ends(f) == f.op \in {"goto", "finish"}
MaySuspend(f) == \E n \in Nodes(f) : Suspends(n)
ContainsControl(f) == \E n \in Nodes(f) : Ends(n)

(* runShapePass and runEffectResultScopePass: sequences and parallels are  *)
(* not empty, result branches do not suspend.                              *)
WellShaped(f) ==
    \A n \in Nodes(f) :
        /\ n.op \in {"sequence", "parallel"} => Len(Children(n)) > 0
        /\ n.op = "select" => n.limit > 0 /\ (n.one => n.limit = 1)
        /\ n.op = "effect" => ~MaySuspend(n.success) /\ ~MaySuspend(n.failure)

-----------------------------------------------------------------------------
(* The graph pass: phases are 1..n, the first is the initial one.          *)

Gotos(f) == {n.phase : n \in {m \in Nodes(f) : m.op = "goto"}}

Adjacent(program, from) == Gotos(program.phases[from].enter)

RECURSIVE Reach(_, _)
Reach(program, marked) ==
    LET next == marked \cup UNION {Adjacent(program, i) : i \in marked}
    IN IF next = marked THEN marked ELSE Reach(program, next)

(* Repeatedly takes the first phase nobody left leads to. *)
RECURSIVE TopologicalOrder(_, _)
TopologicalOrder(program, order) ==
    LET left == DOMAIN program.phases \ ToSet(order)
        free == {i \in left : \A j \in left : i \notin Adjacent(program, j)}
    IN IF free = {} THEN order ELSE TopologicalOrder(program, Append(order, Min(free)))

GraphAccepts(program) ==
    /\ \A i \in DOMAIN program.phases : Adjacent(program, i) \subseteq DOMAIN program.phases
    /\ Reach(program, {1}) = DOMAIN program.phases
    /\ Len(TopologicalOrder(program, <<>>)) = Len(program.phases)

-----------------------------------------------------------------------------
(* The memory pass: definite assignment.  A result is the set of memories  *)
(* initialized after the flow and whether a diagnostic was added.          *)

Both(results, field) == \A i \in DOMAIN results : results[i][field]
(* intersectMemoryStates. *)
Intersect(results) == {m \in UNION {r.ready : r \in ToSet(results)} : \A i \in DOMAIN results : m \in results[i].ready}

MayRead(refs, ready, guarded) == refs \subseteq ready \cup guarded

RECURSIVE Analyze(_, _, _), AnalyzeAll(_, _, _)
AnalyzeAll(fs, ready, guarded) ==
    IF fs = <<>> THEN [ready |-> ready, ok |-> TRUE]
    ELSE LET first == Analyze(Head(fs), ready, guarded)
             rest == AnalyzeAll(Tail(fs), first.ready, guarded)
         IN [rest EXCEPT !.ok = @ /\ first.ok]

Join(results) == [ready |-> Intersect(results), ok |-> Both(results, "ok")]

Analyze(f, ready, guarded) ==
    LET unchanged == [ready |-> ready, ok |-> TRUE]
        After(g, extra) == Analyze(g, ready \cup extra, guarded \cup extra)
    IN CASE f.op = "sequence" -> AnalyzeAll(f.steps, ready, guarded)
         [] f.op = "parallel" ->
              Join([i \in DOMAIN f.branches |-> Analyze(f.branches[i], ready, guarded)])
         [] f.op = "if" ->
              LET guard == IF f.on = "exists" THEN {f.name} ELSE {}
              IN Join(<<After(f.then, guard), Analyze(f.else, ready, guarded)>>)
         [] f.op = "repeat" -> Join(<<unchanged, Analyze(f.body, ready, guarded)>>)
         [] f.op = "wait" -> Analyze(f.then, ready, {})
         [] f.op = "select" ->
              Join(<<unchanged, Analyze(f.body, ready, guarded), Analyze(f.empty, ready, guarded)>>)
         [] f.op = "memory" ->
              [ready |-> CASE f.operation = "set" -> ready \cup {f.name}
                           [] f.operation = "clear" -> ready \ {f.name}
                           [] OTHER -> ready,
               ok |-> f.operation = "add" => f.name \in ready]
         [] f.op = "effect" ->
              [ready |-> ready,
               ok |-> /\ MayRead(f.reads, ready, guarded)
                      /\ Analyze(f.success, ready, {}).ok
                      /\ Analyze(f.failure, ready, {}).ok]
         [] OTHER -> unchanged

(* Every phase is analyzed from the declared defaults. *)
MemoryAccepts(program) ==
    \A i \in DOMAIN program.phases : Analyze(program.phases[i].enter, program.defaults, {}).ok

-----------------------------------------------------------------------------
(* The lifetime pass: can control fall out of a flow, may it suspend, how  *)
(* many ticks and schedules can it take at most.                           *)

Fact(falls, ends, suspends, life, schedules) ==
    [falls |-> falls, ends |-> ends, suspends |-> suspends, life |-> life, schedules |-> schedules]
Falling == Fact(TRUE, FALSE, FALSE, 0, 0)

(* Seeded bug of Alternatives: one path that terminates is enough. *)
AlternativesOptimistic(l, r) ==
    Fact(l.falls /\ r.falls, l.ends \/ r.ends, l.suspends \/ r.suspends,
         Max({l.life, r.life}), Max({l.schedules, r.schedules}))

Alternatives(l, r) ==
    Fact(l.falls \/ r.falls, l.ends /\ r.ends, l.suspends \/ r.suspends,
         Max({l.life, r.life}), Max({l.schedules, r.schedules}))

(* A count that is not a literal is taken to be 1. *)
LiteralRepeat(f) == IF f.literal /\ f.times > 0 THEN f.times ELSE 1

RECURSIVE Lifecycle(_)
Lifecycle(f) ==
    CASE Ends(f) -> Fact(FALSE, TRUE, FALSE, 0, 0)
      [] f.op = "effect" -> Alternatives(Lifecycle(f.success), Lifecycle(f.failure))
      [] f.op = "sequence" ->
           FoldLeft(LAMBDA sum, child :
                        IF ~sum.falls THEN sum
                        ELSE LET one == Lifecycle(child)
                             IN Fact(one.falls, one.ends, sum.suspends \/ one.suspends,
                                     sum.life + one.life, sum.schedules + one.schedules),
                    Falling, f.steps)
      [] f.op = "parallel" ->
           FoldLeft(LAMBDA sum, child :
                        LET one == Lifecycle(child)
                        IN Fact(sum.falls /\ one.falls, sum.ends \/ one.ends, sum.suspends \/ one.suspends,
                                Max({sum.life, one.life}), sum.schedules + one.schedules),
                    Falling, f.branches)
      [] f.op = "if" -> Alternatives(Lifecycle(f.then), Lifecycle(f.else))
      [] f.op = "repeat" ->
           LET body == Lifecycle(f.body)
               times == LiteralRepeat(f)
               waits == IF f.interval > 0 THEN times - 1 ELSE 0
           IN Fact(TRUE, FALSE, body.suspends \/ waits > 0,
                   body.life * times + f.interval * waits, body.schedules * times + waits)
      [] f.op = "wait" ->
           LET then == Lifecycle(f.then)
           IN Fact(then.falls, then.ends, TRUE, f.ticks + then.life, then.schedules + 1)
      [] f.op = "select" ->
           LET body == Lifecycle(f.body)
           IN Alternatives([body EXCEPT !.schedules = @ * (IF f.one THEN 1 ELSE f.limit)], Lifecycle(f.empty))
      [] OTHER -> Falling

FallsThroughByPolicy(program) == program.mode \in {"charge", "toggle", "hold"}

LifetimeAccepts(program) ==
    \A i \in DOMAIN program.phases :
        LET phase == program.phases[i]
        IN /\ \A n \in Nodes(phase.enter) : n.op = "parallel" => ~ContainsControl(n)
           /\ \/ phase.timeout > 0
              \/ ~Lifecycle(phase.enter).falls
              \/ (i = 1 /\ FallsThroughByPolicy(program))

-----------------------------------------------------------------------------
(* The budget pass: a bound on the operations a flow executes and on the   *)
(* repeats a repeat may make.  "bound" is how often the flow itself runs.  *)

RECURSIVE FlowNodes(_, _)
FlowNodes(f, bound) ==
    LET Times(child) == CASE f.op = "repeat" -> bound * LiteralRepeat(f)
                          [] f.op = "select" /\ ~f.one /\ child = 1 -> bound * f.limit
                          [] OTHER -> bound
    IN IF IsNop(f) THEN 0
       ELSE bound + FoldFunction(+, 0, [i \in DOMAIN Children(f) |-> FlowNodes(Children(f)[i], Times(i))])

RepeatLimit(program) ==
    Max({1} \cup {LiteralRepeat(n) : n \in {m \in UNION {Nodes(program.phases[i].enter) : i \in DOMAIN program.phases} :
                                               m.op = "repeat"}})

Accepted(program) ==
    /\ \A i \in DOMAIN program.phases : WellShaped(program.phases[i].enter)
    /\ GraphAccepts(program)
    /\ MemoryAccepts(program)
    /\ LifetimeAccepts(program)

-----------------------------------------------------------------------------
(* The executor.  Its state: the clock, the locals and memories of the     *)
(* cast, its phase and token, the tasks it waits for in the order the      *)
(* scheduler takes them, whether its flow has finished, the error that     *)
(* stopped it; and what it did: the effects, the operations, the tasks.    *)

Started(program) ==
    [now |-> 0, locals |-> [l \in Local |-> 0], memory |-> program.defaults,
     phase |-> 1, token |-> 1, tasks |-> <<>>, logical |-> FALSE, waits |-> FALSE, over |-> FALSE, fault |-> "none",
     trace |-> <<>>, operations |-> 0, schedules |-> 0]

(* A control, with the state it leaves. *)
Go(x) == [x |-> x, kind |-> "continue"]
Refuse(x, why) == [x |-> [x EXCEPT !.fault = why], kind |-> "error"]
(* A suspension keeps a copy of the locals; "tail" runs when it is over. *)
Suspend(x, after, repeat, iteration, tail) ==
    [x |-> x, kind |-> "suspend",
     task |-> [due |-> x.now + after, token |-> x.token, frame |-> x.locals,
               repeat |-> repeat, iteration |-> iteration, tail |-> tail]]
(* Seeded bug of SuspendTail: only a wait carries its tail. *)
SuspendTailOfWait(control, tail) ==
    IF control.kind = "suspend" /\ IsNop(control.task.repeat) THEN [control EXCEPT !.task.tail = @ \o tail] ELSE control

SuspendTail(control, tail) ==
    IF control.kind = "suspend" THEN [control EXCEPT !.task.tail = @ \o tail] ELSE control

(* By due tick, then in the order they were scheduled. *)
Schedule(x, task) ==
    LET before == {i \in DOMAIN x.tasks : x.tasks[i].due <= task.due}
    IN [x EXCEPT !.tasks = InsertAt(@, Cardinality(before) + 1, task), !.schedules = @ + 1]

Bind(x, local, value) == [x EXCEPT !.locals[local] = value]

RECURSIVE Execute(_, _), ExecuteAll(_, _), Fork(_, _, _), Repeated(_, _, _)

ExecuteAll(x, fs) ==
    IF fs = <<>> THEN Go(x)
    ELSE LET first == Execute(x, Head(fs))
         IN IF first.kind = "continue" THEN ExecuteAll(first.x, Tail(fs)) ELSE SuspendTail(first, Tail(fs))

(* The branches of a parallel and the elements of a selection run one      *)
(* after the other; one that suspends is scheduled and the next one runs.  *)
Fork(x, fs, local) ==
    IF fs = <<>> THEN Go(x)
    ELSE LET bound == IF local = "" THEN x ELSE Bind(x, local, Head(fs)[1])
             first == Execute(bound, Head(fs)[2])
         IN CASE first.kind = "suspend" -> Fork(Schedule(first.x, first.task), Tail(fs), local)
              [] first.kind = "continue" -> Fork(first.x, Tail(fs), local)
              [] OTHER -> first

(* The iterations of a repeat without interval: one that does not continue *)
(* ends the repeat, whatever is left of it, with the index still set.      *)
Repeated(x, f, iteration) ==
    IF iteration = f.times THEN Go(x)
    ELSE LET once == Execute(Bind(x, f.index, iteration), f.body)
         IN IF once.kind = "continue" THEN Repeated(once.x, f, iteration + 1) ELSE once

Restore(control, x, local) == [control EXCEPT !.x = Bind(@, local, x.locals[local])]

ExecuteRepeat(x, f) ==
    IF f.times > x.limit THEN Refuse(x, "invariant")
    ELSE IF f.times = 0 THEN Go(x)
    ELSE IF f.interval = 0
         THEN LET all == Repeated(x, f, 0)
              IN IF all.kind = "continue" THEN Restore(all, x, f.index) ELSE all
    ELSE LET once == Restore(Execute(Bind(x, f.index, 0), f.body), x, f.index)
         IN IF once.kind # "continue" \/ f.times = 1 THEN once
            ELSE Suspend(once.x, f.interval, f, 1, <<>>)

ExecuteSelect(x, f) ==
    LET found == Min({f.found, f.limit})
        all == Fork(x, [e \in 1..found |-> <<e, f.body>>], f.as)
    IN IF found = 0 THEN Execute(x, f.empty)
       ELSE IF f.one THEN Restore(Execute(Bind(x, f.as, 1), f.body), x, f.as)
       ELSE Restore(all, x, f.as)

ExecuteMemory(x, f) ==
    CASE f.operation = "set" -> Go([x EXCEPT !.memory = @ \cup {f.name}])
      [] f.operation = "clear" -> Go([x EXCEPT !.memory = @ \ {f.name}])
      [] OTHER -> IF f.name \in x.memory THEN Go(x) ELSE Refuse(x, "missing")

(* An effect, then the branch its outcome selects, which may not suspend.  *)
ExecuteEffect(x, f) ==
    LET done == [x EXCEPT !.trace = Append(@, <<x.now, f.id, x.locals>>)]
        root == CASE f.outcome = "succeeds" -> f.success [] f.outcome = "fails" -> f.failure [] OTHER -> Nop
        branch == Execute(Bind(done, "result", 1), root)
    IN IF ~(f.reads \subseteq x.memory) THEN Refuse(x, "missing")
       ELSE IF IsNop(root) THEN Go(done)
       ELSE IF branch.kind = "suspend" THEN Refuse(branch.x, "invariant")
       ELSE Restore(branch, x, "result")

Holds(x, f) == CASE f.on = "exists" -> f.name \in x.memory [] f.on = "later" -> x.locals[f.name] > 0 [] OTHER -> f.on = "yes"

Execute(x0, f) ==
    LET x == IF IsNop(f) THEN x0 ELSE [x0 EXCEPT !.operations = @ + 1] IN
    CASE f.op = "sequence" -> ExecuteAll(x, f.steps)
      [] f.op = "parallel" -> Fork(x, [i \in DOMAIN f.branches |-> <<0, f.branches[i]>>], "")
      [] f.op = "if"       -> Execute(x, IF Holds(x, f) THEN f.then ELSE f.else)
      [] f.op = "repeat"   -> ExecuteRepeat(x, f)
      [] f.op = "wait"     -> Suspend(x, f.ticks, Nop, 0, <<f.then>>)
      [] f.op = "select"   -> ExecuteSelect(x, f)
      [] f.op = "memory"   -> ExecuteMemory(x, f)
      [] f.op = "effect"   -> ExecuteEffect(x, f)
      [] f.op = "goto"     -> [x |-> x, kind |-> "goto", phase |-> f.phase]
      [] f.op = "finish"   -> [x |-> x, kind |-> "finish"]
      [] OTHER             -> Go(x)

(* executeRepeatIteration: the iteration that suspends takes the place of  *)
(* the task, whose tail and remaining iterations go with it.               *)
RepeatIteration(x, task) ==
    LET f == task.repeat
        once == Restore(Execute(Bind(x, f.index, task.iteration), f.body), x, f.index)
    IN IF once.kind # "continue" THEN once
       ELSE IF task.iteration + 1 < f.times THEN Suspend(once.x, f.interval, f, task.iteration + 1, task.tail)
       ELSE ExecuteAll(once.x, task.tail)

-----------------------------------------------------------------------------
(* The cast around the flow.                                               *)

BeginRecovery(x) == [x EXCEPT !.logical = TRUE, !.over = x.tasks = <<>>]

RECURSIVE ExecuteCast(_, _, _)
ExecuteCast(x, program, transitions) ==
    LET control == Execute(x, program.phases[x.phase].enter)
        left == control.x
    IN IF transitions > Len(program.phases) THEN [x EXCEPT !.fault = "invariant"]
       ELSE CASE control.kind = "goto" ->
                   ExecuteCast([left EXCEPT !.tasks = SelectSeq(@, LAMBDA t : t.token # left.token),
                                            !.token = @ + 1, !.phase = control.phase], program, transitions + 1)
              [] control.kind = "finish"  -> BeginRecovery(left)
              [] control.kind = "suspend" -> Schedule(left, control.task)
              [] control.kind = "continue" ->
                   IF FallsThroughByPolicy(program) THEN [left EXCEPT !.waits = TRUE]
                   ELSE [left EXCEPT !.fault = "invariant"]
              [] OTHER -> left

ResolveControl(control, program) ==
    LET left == control.x
    IN CASE control.kind = "suspend" -> Schedule(left, control.task)
         [] control.kind = "goto" ->
              ExecuteCast([left EXCEPT !.tasks = SelectSeq(@, LAMBDA t : t.token # left.token),
                                       !.token = @ + 1, !.phase = control.phase], program, 0)
         [] control.kind = "finish" -> BeginRecovery(left)
         [] control.kind = "continue" ->
              IF left.tasks # <<>> \/ left.waits THEN left
              ELSE IF left.logical THEN BeginRecovery(left)
              ELSE [left EXCEPT !.fault = "invariant"]
         [] OTHER -> left

ExecuteTask(x0, program) ==
    LET task == Head(x0.tasks)
        x == [x0 EXCEPT !.tasks = Tail(@), !.now = task.due]
        resumed == [x EXCEPT !.locals = task.frame]
    IN IF (task.token # x.token) \/ x.over
       THEN IF x.tasks = <<>> /\ x.logical THEN BeginRecovery(x) ELSE x
       ELSE ResolveControl(IF IsNop(task.repeat) THEN ExecuteAll(resumed, task.tail)
                           ELSE RepeatIteration(resumed, task), program)

RECURSIVE Drain(_, _, _)
Drain(x, program, fuel) ==
    IF x.tasks = <<>> \/ x.fault # "none" THEN x
    ELSE IF fuel = 0 THEN [x EXCEPT !.fault = "endless"]
    ELSE Drain(ExecuteTask(x, program), program, fuel - 1)

Outcome(program) ==
    Drain(ExecuteCast(Started(program) @@ [limit |-> RepeatLimit(program)], program, 0), program, Horizon)

-----------------------------------------------------------------------------
(* What flows promise.  Three forms the passes accept are left out where a *)
(* property says so: a repeat whose body suspends, a selection of several  *)
(* whose body suspends before it ends the flow, a count known at run time. *)

Flow(program) == UNION {Nodes(program.phases[i].enter) : i \in DOMAIN program.phases}
RepeatsArePlain(program) == \A n \in Flow(program) : n.op = "repeat" => ~MaySuspend(n.body) /\ n.literal
EndsArePlain(program) == \A n \in Flow(program) : n.op = "select" /\ ~n.one /\ MaySuspend(n.body) => ~ContainsControl(n.body)
NeverClears(program) == \A n \in Flow(program) : n.op = "memory" => n.operation # "clear"

(* The reference: the effects of a flow with their ticks and the locals in *)
(* scope, and the tick at which what follows it begins.  A parallel and a  *)
(* selection of several fork: what follows does not wait for them.         *)
RECURSIVE Denote(_, _, _)
Denote(f, t, locals) ==
    LET Nothing == [out |-> {}, at |-> t, ended |-> FALSE]
        Then(sum, g, tick, bound) ==
            IF sum.ended THEN sum
            ELSE LET next == Denote(g, tick, bound) IN [next EXCEPT !.out = @ \cup sum.out]
        At(local, v) == local :> v @@ locals
        (* What a fork does begins at t, and so does what follows it. *)
        Each(es, Body(_), Bound(_)) ==
            [FoldLeft(LAMBDA sum, e : Then(sum, Body(e), t, Bound(e)), Nothing, es) EXCEPT !.at = t]
        found == IF f.op = "select" THEN Min({f.found, f.limit}) ELSE 0
    IN CASE f.op = "sequence" -> FoldLeft(LAMBDA sum, g : Then(sum, g, sum.at, locals), Nothing, f.steps)
         [] f.op = "parallel" -> Each(f.branches, LAMBDA g : g, LAMBDA g : locals)
         [] f.op = "if" ->
              Denote(IF f.on = "yes" \/ (f.on = "later" /\ locals[f.name] > 0) THEN f.then ELSE f.else, t, locals)
         [] f.op = "repeat" ->
              FoldLeft(LAMBDA sum, i : Then(sum, f.body, t + i * f.interval, At(f.index, i)),
                       Nothing, [i \in 1..f.times |-> i - 1])
         [] f.op = "wait" -> Denote(f.then, t + f.ticks, locals)
         [] f.op = "select" ->
              CASE found = 0 -> Denote(f.empty, t, locals)
                [] f.one -> Denote(f.body, t, At(f.as, 1))
                [] OTHER -> Each([e \in 1..found |-> e], LAMBDA e : f.body, LAMBDA e : At(f.as, e))
         [] f.op = "effect" ->
              LET root == CASE f.outcome = "succeeds" -> f.success [] f.outcome = "fails" -> f.failure [] OTHER -> Nop
              IN Then([Nothing EXCEPT !.out = {<<t, f.id, locals>>}], root, t, At("result", 1))
         [] Ends(f) -> [Nothing EXCEPT !.ended = TRUE]
         [] OTHER -> Nothing

(* Whatever suspends, the effects of a flow come at their ticks, once      *)
(* each, with the locals of their place: a suspension takes along all that *)
(* is left to do (executor.go:60, appendSuspensionTail), a branch that     *)
(* suspends holds up neither its siblings nor their locals.  A read of a   *)
(* missing memory fails the cast (see ReadsAreInitialized).                *)
FlowsRunInOrder(program) ==
    LET meant == Denote(program.phases[1].enter, 0, <<>>).out
        Agree(done, due) == /\ done[1] = due[1] /\ done[2] = due[2]
                            /\ \A l \in DOMAIN due[3] : done[3][l] = due[3][l]
    IN \A end \in {Outcome(program)}, ran \in {Outcome(program).trace} :
       /\ Accepted(program) /\ Len(program.phases) = 1 /\ RepeatsArePlain(program) /\ EndsArePlain(program)
       /\ \A n \in Flow(program) : n.op = "if" => n.on # "exists"
       /\ end.fault # "missing"
       => /\ Len(ran) = Cardinality(meant)
          /\ \A due \in meant : \E i \in DOMAIN ran : Agree(ran[i], due)
          /\ \A i \in DOMAIN ran : \E due \in meant : Agree(ran[i], due)
          /\ \A i, j \in DOMAIN ran : i < j => ran[i][1] <= ran[j][1]

(* A cast whose flows the passes accept ends: control neither falls out of *)
(* a phase nor circles among them (compile_graph.go:56), and it stays      *)
(* within the ticks, the schedules and the operations the compiler counted *)
(* (compile_budget.go:22).                                                 *)
AcceptedFlowsEnd(program) ==
    LET Sum(Of(_)) == FoldFunction(+, 0, [i \in DOMAIN program.phases |-> Of(program.phases[i].enter)])
        Life(f) == Lifecycle(f).life
        Schedules(f) == Lifecycle(f).schedules
        Operations(f) == FlowNodes(f, 1)
    IN \A end \in {Outcome(program)} :
       /\ Accepted(program) /\ RepeatsArePlain(program) /\ EndsArePlain(program)
       /\ \A i \in DOMAIN program.phases : program.phases[i].timeout = 0
       => /\ end.fault \in {"none", "missing"}
          /\ end.fault = "none" => end.over \/ end.waits
          /\ end.now <= Sum(Life) /\ end.schedules <= Sum(Schedules) /\ end.operations <= Sum(Operations)

(* Without clear_memory the pass is right: no accepted flow reads a memory *)
(* nothing has set (compile_memory.go).                                    *)
MemoryIsInitialized(program) ==
    Accepted(program) /\ NeverClears(program) => Outcome(program).fault # "missing"

(* "memory: 每个 memory 读之前必然已初始化" (README.md:301)                 *)
ReadsAreInitialized(program) == Accepted(program) => Outcome(program).fault # "missing"
=============================================================================
