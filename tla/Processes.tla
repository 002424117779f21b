------------------------------- MODULE Processes -------------------------------
(***************************************************************************)
(* The processes that casts start on entities they spawn (projectiles,     *)
(* areas, summons): a spawn is a transaction with the host, a process      *)
(* belongs to its cast until the cast finishes and is then handed over to  *)
(* the Runtime, which steps it until it ends or its entity is gone.        *)
(*                                                                         *)
(* Every public call runs under Runtime.mutex: a flow keeps it from its    *)
(* first operation to the wait or the end (status "flow"), and nothing     *)
(* else runs meanwhile.  Handlers are operators from a world to a world,   *)
(* w.err is the returned error, w.x what the environment does during the   *)
(* action: which host calls and callbacks fail, who stands in an area,     *)
(* whether a motion collides or is back.  Ticks are relative to now.       *)
(***************************************************************************)
EXTENDS Integers, Sequences, FiniteSets, SequencesExt, FiniteSetsExt

CONSTANTS Template,          \* the program's process templates
          Tmpl,              \* [Template -> Definition]
          Target,            \* entities that may stand in an area (numbers)
          MaxOwned,          \* MaxOwnedProcesses, and per owner and program
          MaxPerTemplate,    \* MaxOwnedProcessesPerTemplate
          MaxCasts, MaxEntities, MaxFaults   \* bounds: casts, entities spawned, failing calls

Event == {"enter", "leave", "tick", "end", "cancel"}

Definition ==
    [motion : {"none", "stop", "reflect", "pause", "boomerang"},  \* collision response or completion
     area : BOOLEAN, emitLeave : BOOLEAN, carry : BOOLEAN,
     duration : Nat \ {0}, interval : Nat \ {0}, span : Nat \ {0}, \* span: pause, return or collision budget
     life : Nat \ {0}, perOwner : Nat \ {0},
     policy : {"reject_new", "replace_oldest", "replace_newest"}, despawn : BOOLEAN,
     on : SUBSET Event, finish : SUBSET Event]

ASSUME TmplIsTyped == Tmpl \in [Template -> Definition]

VARIABLES casts, procs, owned,   \* Runtime.casts, processes and ownedProcesses
          alive,                 \* MemoryHost.ownedEntities
          nextProc, nextEnt,
          refused,               \* processes the host has once refused to stop
          faults                 \* failures so far

vars == <<casts, procs, owned, alive, nextProc, nextEnt, refused, faults>>

World(x) == [casts |-> casts, procs |-> procs, owned |-> owned, alive |-> alive, nextProc |-> nextProc,
             nextEnt |-> nextEnt, refused |-> refused, said |-> <<>>, x |-> x, err |-> FALSE]

Bad(w) == [w EXCEPT !.err = TRUE]
Clean(w) == [w EXCEPT !.err = FALSE]
OrElse(w, failed) == [w EXCEPT !.err = @ \/ failed]
Then(w, Op(_)) == IF w.err THEN w ELSE Op(w)
Fails(w, what, p) == <<what, p>> \in w.x.fails
Ascending(ids) == SetToSortSeq(ids, <)
DefOf(w, p) == Tmpl[w.procs[p].tmpl]
Running(w, p) == w.procs[p].status = "running"
Gone(w, p) == w.procs[p].entity \notin DOMAIN w.alive

Init == /\ casts = <<>> /\ procs = <<>> /\ owned = {}
        /\ alive = <<>>
        /\ nextProc = 0 /\ nextEnt = 0
        /\ refused = {} /\ faults = 0

-----------------------------------------------------------------------------
(* Callbacks of a process *)

Signal(kind, target) == [kind |-> kind, target |-> target]
SignalsOf(kind, members) == [i \in 1..Cardinality(members) |-> Signal(kind, Ascending(members)[i])]
Rank == [leave |-> 3, enter |-> 4, tick |-> 5, end |-> 6]
Normalized(signals) == SortSeq(signals, LAMBDA a, b : Rank[a.kind] < Rank[b.kind])

(* May an area callback still finish the cast? *)
Finishable(w, c) == w.casts[c].status \in {"flow", "waiting", "stuck"} /\ ~w.casts[c].logical

Once(w, p, event) == IF event = "end" THEN [w EXCEPT !.procs[p].endRan = TRUE] ELSE w

Counted(w, p, s) ==
    [w EXCEPT !.procs[p].ends = IF s.kind = "end" THEN @ + 1 ELSE @,
              !.procs[p].cancels = IF s.kind = "cancel" THEN @ + 1 ELSE @,
              !.procs[p].inside = IF s.kind = "enter" THEN @ \cup {s.target}
                                  ELSE IF s.kind = "leave" THEN @ \ {s.target} ELSE @]

RunCallback(w, p, s) ==
    LET c == w.procs[p].cast
        v == Counted(Once(w, p, s.kind), p, s)
    IN  IF ~w.procs[p].program \/ (s.kind = "end" /\ w.procs[p].endRan) THEN w
        ELSE IF s.kind \notin DefOf(w, p).on THEN Once(w, p, s.kind)
        ELSE IF Fails(w, "callback", p) THEN Bad(v)
        ELSE IF s.kind \notin DefOf(w, p).finish THEN v
        ELSE IF w.procs[p].handed \/ ~DefOf(w, p).area \/ ~Finishable(w, c) THEN Bad(v)
        ELSE [v EXCEPT !.casts[c].flag = TRUE, !.procs[p].finished = TRUE]

(* The rest of the signals is dropped by an error, or when the cast is finished. *)
Dispatch(w, p, signals) ==
    FoldLeft(LAMBDA v, s : IF v.err \/ v.procs[p].finished THEN v ELSE RunCallback(v, p, s),
             w, Normalized(signals))

-----------------------------------------------------------------------------
(* Stopping *)

DetachCarry(w, p) ==
    LET v == [w EXCEPT !.procs[p].carried = FALSE]
    IN  IF w.procs[p].carried /\ Fails(w, "detach", p) THEN Bad(v) ELSE v

StopProcess(w, p, status) ==
    LET v == DetachCarry([w EXCEPT !.procs[p].members = {}], p)
    IN  IF ~Running(w, p) THEN w
        ELSE IF Fails(w, "stop", p) THEN Bad([v EXCEPT !.refused = @ \cup {p}])
        ELSE [v EXCEPT !.procs[p] = [@ EXCEPT !.status = status, !.program = FALSE,
                                              !.next = 0, !.end = 0, !.count = 0]]   \* no longer looked at

(* The members of an area leave it when it stops, if it says so. *)
LeaveArea(w, p) ==
    LET members == w.procs[p].members
        v == [w EXCEPT !.procs[p].members = {}]
    IN  IF ~w.procs[p].program \/ ~DefOf(w, p).area THEN w
        ELSE Dispatch(v, p, IF DefOf(w, p).emitLeave THEN SignalsOf("leave", members) ELSE <<>>)

LastCallback(w, p, event) ==
    IF w.err \/ event = "" \/ ~Running(w, p) \/ w.procs[p].finished THEN w
    ELSE RunCallback(w, p, Signal(event, 0))

(* Seeded bug of TerminateProcess: an error of a callback keeps the process. *)
TerminateUnlessFailed(w, p, status, event) ==
    LET a == DetachCarry(Clean(w), p)
        b == LastCallback(LeaveArea(Clean(a), p), p, event)
    IN  IF a.err \/ b.err THEN Bad(b) ELSE StopProcess(b, p, status)

TerminateProcess(w, p, status, event) ==
    LET a == DetachCarry(Clean(w), p)
        b == LastCallback(LeaveArea(Clean(a), p), p, event)
        c == StopProcess(Clean(b), p, status)
    IN  OrElse(c, a.err \/ b.err)

(* All of them are tried, whatever fails; the result says whether one did. *)
TerminateAll(w, ids, status, event) ==
    FoldLeft(LAMBDA v, p : OrElse(TerminateProcess(v, p, status, event), v.err), w, Ascending(ids))

(* Seeded bug of TerminateOwned: the process is no longer owned though it still runs. *)
TerminateOwnedForgets(w, p, status, event) ==
    [TerminateProcess(w, p, status, event) EXCEPT !.owned = @ \ {p}]

(* The host that refused is asked again at the next advance. *)
TerminateOwned(w, p, status, event) ==
    LET v == TerminateProcess(w, p, status, event)
    IN  IF v.err THEN v ELSE [v EXCEPT !.owned = @ \ {p}]

Unhanded(w) == {p \in DOMAIN w.procs : Running(w, p) /\ ~w.procs[p].handed}

StopScoped(w, c) ==
    TerminateAll(w, {p \in Unhanded(w) : w.procs[p].cast = c}, "cancelled", "cancel")

ReapUnhanded(w) ==
    TerminateAll(w, {p \in Unhanded(w) : Gone(w, p)}, "cancelled", "cancel")

-----------------------------------------------------------------------------
(* One step of a process *)

(* A collision stops the motion, or uses up what it may reflect or pierce. *)
Collided(pr, d, hit) ==
    LET left == IF pr.count > 0 THEN pr.count - 1 ELSE 0
    IN  IF ~hit \/ pr.stage = "paused" \/ d.motion \notin {"stop", "reflect"} THEN pr
        ELSE [pr EXCEPT !.count = left,
                        !.stage = IF d.motion = "stop" \/ left = 0 THEN "completed" ELSE @]

(* outbound until its ticks are over, then paused, returning, completed *)
Staged(pr, d, x) ==
    LET over == pr.stage = "outbound" /\ pr.end = 0
        left == IF pr.count > 0 THEN pr.count - 1 ELSE 0
        done == [pr EXCEPT !.stage = "completed"]
    IN  CASE over /\ d.motion \in {"stop", "reflect"} -> done
          [] over /\ d.motion = "pause" -> [pr EXCEPT !.stage = "paused", !.count = d.span, !.end = d.span]
          [] over /\ d.motion = "boomerang" -> [pr EXCEPT !.stage = "paused", !.count = 1, !.end = 1 + d.span]
          [] pr.stage = "paused" /\ d.motion = "pause" ->
               IF left = 0 THEN done ELSE [pr EXCEPT !.count = left]
          [] pr.stage = "paused" /\ d.motion = "boomerang" ->
               IF x.ground = "lost" THEN done ELSE [pr EXCEPT !.stage = "returning", !.count = 0]
          [] pr.stage = "returning" ->
               IF x.ground = "home" \/ pr.count + 1 >= d.span THEN done ELSE [pr EXCEPT !.count = @ + 1]
          [] OTHER -> pr

Fresh(pr, d) ==
    IF pr.stage # "new" THEN pr
    ELSE IF d.motion = "none" THEN [pr EXCEPT !.stage = "static"]
    ELSE [pr EXCEPT !.stage = "outbound", !.count = IF d.motion = "reflect" THEN d.span ELSE 0]

(* v.said are the signals of the step. *)
StepMotion(w, p) ==
    LET d == DefOf(w, p)
        first == w.procs[p].stage = "new"
        pr == [Fresh(w.procs[p], d) EXCEPT !.carried = d.carry /\ w.x.ground # "lost"]
        hit == Collided(pr, d, w.x.ground = "hit")
        after == IF hit.stage = "completed" THEN hit ELSE Staged(hit, d, w.x)
        v == [w EXCEPT !.procs[p] = after, !.said = <<Signal("tick", 0)>>]
        ended == DetachCarry(v, p)
    IN  IF Fails(w, "step", p) THEN Bad(w)
        ELSE IF w.procs[p].stage = "completed" THEN [w EXCEPT !.said = <<>>]
        ELSE IF d.motion = "none" THEN [v EXCEPT !.said = IF first THEN <<>> ELSE @]
        ELSE IF after.stage # "completed" THEN v
        ELSE IF ended.err THEN [ended EXCEPT !.procs[p].stage = pr.stage]
        ELSE [ended EXCEPT !.said = Append(@, Signal("end", 0))]

(* Seeded bug of StepArea: who has left is forgotten without a signal. *)
StepAreaSilent(w, p) ==
    LET now == w.x.present
        before == w.procs[p].members
        own == SelectSeq(w.said, LAMBDA s : s.kind \notin {"leave", "enter", "tick"})
    IN  IF ~DefOf(w, p).area THEN w
        ELSE [w EXCEPT !.procs[p].members = now,
                       !.said = own \o SignalsOf("enter", now \ before) \o SignalsOf("tick", now)]

(* An area speaks of its members only, not of the motion's own ticks. *)
StepArea(w, p) ==
    LET now == w.x.present
        before == w.procs[p].members
        own == SelectSeq(w.said, LAMBDA s : s.kind \notin {"leave", "enter", "tick"})
    IN  IF ~DefOf(w, p).area THEN w
        ELSE IF Fails(w, "select", p) THEN Bad(w)
        ELSE [w EXCEPT !.procs[p].members = now,
                       !.said = own \o SignalsOf("leave", before \ now)
                                    \o SignalsOf("enter", now \ before) \o SignalsOf("tick", now)]

-----------------------------------------------------------------------------
(* Spawning: preview, host effect, one process for each entity, commit *)

Owned(w, t) == {e \in DOMAIN w.alive : w.alive[e].tmpl = t}
Excess(w, t, n) == Cardinality(Owned(w, t)) + n - Tmpl[t].perOwner
Fits(w, t, n) == \/ Excess(w, t, n) <= 0
                 \/ Tmpl[t].policy # "reject_new" /\ Excess(w, t, n) <= Cardinality(Owned(w, t))

(* The oldest or the newest make room. *)
Replaced(w, t, n) ==
    LET old == Ascending(Owned(w, t))
        size == Len(old)
        gone == {i \in 1..size : IF Tmpl[t].policy = "replace_oldest" THEN i <= Excess(w, t, n)
                                 ELSE i > size - Excess(w, t, n)}
    IN  {old[i] : i \in gone}

HasCapacity(w, t, n) ==
    LET live == {p \in DOMAIN w.procs : Running(w, p) /\ w.procs[p].entity \notin Replaced(w, t, n)}
    IN  /\ Cardinality(live) + n <= MaxOwned
        /\ Cardinality({p \in live : w.procs[p].tmpl = t}) + n <= MaxPerTemplate

NewProcess(c, t, e) ==
    [cast |-> c, tmpl |-> t, entity |-> e, status |-> "running", program |-> TRUE, handed |-> FALSE,
     next |-> 1, end |-> IF Tmpl[t].motion # "none" \/ Tmpl[t].area THEN Tmpl[t].duration ELSE Tmpl[t].life,
     stage |-> "new", count |-> 0, carried |-> FALSE, members |-> {}, finished |-> FALSE,
     endRan |-> FALSE, ends |-> 0, cancels |-> 0, inside |-> {}]

(* A process that could not start leaves no record, if it can be stopped. *)
GiveUp(w, p) ==
    LET v == TerminateProcess(w, p, "failed", "")
    IN  IF v.err THEN v ELSE Bad([v EXCEPT !.procs = [q \in DOMAIN @ \ {p} |-> @[q]]])

(* What a process is told when it starts: of who is in its area, or to enter. *)
Greeted(w, p) ==
    LET d == DefOf(w, p)
    IN  IF d.area THEN Then(StepArea(w, p), LAMBDA v : [v EXCEPT !.procs[p].next = d.interval])
        ELSE [w EXCEPT !.said = Append(@, Signal("enter", 0))]

Entered(v, p) ==
    IF v.err THEN GiveUp(v, p)
    ELSE IF v.procs[p].finished THEN TerminateProcess(v, p, "cancelled", "")
    ELSE v

Welcomed(w, p) ==
    IF Fails(w, "capture", p) THEN GiveUp(w, p)
    ELSE Entered(Then(Greeted(w, p), LAMBDA v : Dispatch(v, p, v.said)), p)

(* w was before the process. *)
Begun(w, v, c) ==
    LET p == v.nextProc
    IN  IF v.err THEN [v EXCEPT !.procs = w.procs]
        ELSE IF Fails(v, "drain", p) THEN Bad(v)
        ELSE IF v.casts[c].flag THEN TerminateProcess(v, p, "cancelled", "")
        ELSE Welcomed(v, p)

StartProcess(w, c, t, e) ==
    LET p == w.nextProc + 1
        new == [q \in DOMAIN w.procs \cup {p} |-> IF q = p THEN NewProcess(c, t, e) ELSE w.procs[q]]
    IN  Begun(w, StepMotion([w EXCEPT !.nextProc = p, !.procs = new], p), c)

(* Seeded bug of Rollback: what was replaced does not come back. *)
RollbackCreated(w, before, created) == [w EXCEPT !.alive = [e \in DOMAIN @ \ created |-> @[e]]]

Rollback(w, before, created) ==
    LET back == DOMAIN before \ DOMAIN w.alive
    IN  [w EXCEPT !.alive = [e \in (DOMAIN @ \ created) \cup back |-> IF e \in back THEN before[e] ELSE @[e]]]

-----------------------------------------------------------------------------
(* Reaping, stepping and handing over *)

Ended(w, p) == w.procs[p].stage = "completed" \/ w.procs[p].end = 0

ReapOne(v, p, ended) ==
    LET u == IF ended THEN TerminateOwned(Clean(v), p, "ended", "end")
             ELSE TerminateOwned(Clean(v), p, "cancelled", "cancel")
    IN  OrElse(u, v.err)

(* The items are chosen before the first of them is stopped. *)
ReapOwned(w) ==
    LET items == {p \in w.owned : Ended(w, p) \/ Gone(w, p) \/ ~w.procs[p].program}
    IN  FoldLeft(LAMBDA v, p : ReapOne(v, p, Ended(w, p)), w, Ascending(items))

(* Before the step: a motion whose time is over is stepped once more. *)
ReapInvalid(w) ==
    LET moving(p) == w.procs[p].program /\ DefOf(w, p).motion # "none"
        item(p) == IF Ended(w, p) THEN moving(p) => w.procs[p].stage = "completed"
                   ELSE Gone(w, p) \/ ~w.procs[p].program
    IN  FoldLeft(LAMBDA v, p : ReapOne(v, p, Ended(w, p)), w, Ascending({p \in w.owned : item(p)}))

Due(w, p) == Running(w, p) /\ w.procs[p].next = 0

(* The motion, the area and the callbacks of a step. *)
Moved(w, p) ==
    Then(Then(StepMotion(w, p), LAMBDA v : StepArea(v, p)), LAMBDA v : Dispatch(v, p, v.said))

Rescheduled(v, p) ==
    IF v.err THEN Bad(TerminateOwned(Clean(v), p, "failed", ""))
    ELSE [v EXCEPT !.procs[p].next = IF DefOf(v, p).area THEN DefOf(v, p).interval ELSE 1]

StepOwned(w, p) == IF Due(w, p) THEN Rescheduled(Moved(w, p), p) ELSE w

StepAll(w) ==
    FoldLeft(LAMBDA v, p : Then(v, LAMBDA u : StepOwned(u, p)), w, Ascending(w.owned))

Drained(v) == IF v.err \/ Fails(v, "events", 0) THEN Bad(v) ELSE ReapOwned(v)

AdvanceOwned(w) ==
    Then(Then(ReapUnhanded(w), ReapInvalid), LAMBDA v : Drained(StepAll(v)))

(* All or none of a cast's processes go to the Runtime. *)
Handoff(w, c) ==
    LET mine == {p \in Unhanded(w) : w.procs[p].cast = c}
        valid == {p \in mine : ~Gone(w, p)}
        v == TerminateAll(w, mine \ valid, "cancelled", "cancel")
    IN  IF v.err THEN TerminateAll(v, valid, "cancelled", "cancel")
        ELSE [v EXCEPT !.owned = @ \cup valid,
                       !.procs = [p \in DOMAIN @ |-> IF p \in valid THEN [@[p] EXCEPT !.handed = TRUE] ELSE @[p]]]

(* w was before the spawn. *)
Committed(w, v, new) ==
    LET started == (w.nextProc + 1)..(IF v.err THEN v.nextProc - 1 ELSE v.nextProc)
    IN  IF v.err \/ Fails(v, "commit", 0)
        THEN Bad(Rollback(TerminateAll(Clean(v), started, "failed", ""), w.alive, new))
        ELSE Then(ReapUnhanded(v), ReapOwned)

Spawn(w, c, t, n) ==
    LET new == (w.nextEnt + 1)..(w.nextEnt + n)
        kept == DOMAIN w.alive \ Replaced(w, t, n)
        put == [w EXCEPT !.nextEnt = @ + n,
                         !.alive = [e \in kept \cup new |-> IF e \in new THEN [tmpl |-> t, due |-> Tmpl[t].life]
                                                            ELSE @[e]]]
    IN  IF ~Fits(w, t, n) \/ ~HasCapacity(w, t, n) THEN w
        ELSE IF Fails(w, "apply", 0) THEN Bad(w)
        ELSE Committed(w, FoldLeft(LAMBDA v, e : Then(v, LAMBDA u : StartProcess(u, c, t, e)), put, Ascending(new)),
                       new)

-----------------------------------------------------------------------------
(* The end of a flow *)

Cast(status) == [status |-> status, start |-> FALSE, logical |-> FALSE, flag |-> FALSE, due |-> 0, waits |-> 0]

FailCast(w, c) == [StopScoped(Clean(w), c) EXCEPT !.casts[c] = Cast("failed")]

Live(w, c, pending) == [w EXCEPT !.casts[c] = IF pending THEN [@ EXCEPT !.status = "waiting", !.due = 1]
                                              ELSE Cast("over")]

(* An activation that fails ends its cast; a task that fails here leaves it as it is. *)
Finish(w, c, pending) ==
    LET v == Handoff([w EXCEPT !.casts[c].logical = TRUE], c)
        stopped == StopScoped(Clean(v), c)
    IN  IF ~v.err THEN Live(v, c, pending)
        ELSE [stopped EXCEPT !.casts[c] = IF w.casts[c].start THEN Cast("failed") ELSE [@ EXCEPT !.status = "stuck"]]

-----------------------------------------------------------------------------
(* Actions *)

(* The calls that may fail for a process that is stopped, stepped and started. *)
Stopping == {"callback", "detach", "stop"}
Stepping == Stopping \cup {"step", "select"}
Starting == Stepping \cup {"capture", "drain"}
RunningIds == {p \in DOMAIN procs : procs[p].status = "running"}

(* At most two of the calls of one action fail. *)
Failing(calls) ==
    {f \in {{a, b} : a, b \in calls} \cup {{}} : Cardinality(f) <= MaxFaults - faults}

(* What an action may meet that makes these calls and steps processes of these templates. *)
Env(calls, templates) ==
    [fails : Failing(calls),
     ground : IF \A t \in templates : Tmpl[t].motion = "none" THEN {"clear"} ELSE {"clear", "hit", "home", "lost"},
     present : IF \A t \in templates : ~Tmpl[t].area THEN {{}} ELSE SUBSET Target]

StopEnv == Env(Stopping \X RunningIds, {})
StepEnv == Env((Stepping \X RunningIds) \cup {<<"events", 0>>}, {procs[p].tmpl : p \in RunningIds})
SpawnEnv(t, n) == Env((Stopping \X RunningIds) \cup (Starting \X ((nextProc + 1)..(nextProc + n)))
                        \cup {<<"apply", 0>>, <<"commit", 0>>}, {t})

Become(w) == /\ casts' = w.casts /\ procs' = w.procs /\ owned' = w.owned
             /\ alive' = w.alive
             /\ nextProc' = w.nextProc /\ nextEnt' = w.nextEnt
             /\ refused' = w.refused
             /\ faults' = faults + Cardinality(w.x.fails)

NoFlow == \A c \in DOMAIN casts : casts[c].status # "flow"
OwnedDue == \E p \in owned : procs[p].status = "running" /\ procs[p].next = 0
TaskDue == \E c \in DOMAIN casts : casts[c].status = "waiting" /\ casts[c].due = 0

StartCast ==
    /\ NoFlow /\ Len(casts) < MaxCasts
    /\ casts' = Append(casts, [Cast("flow") EXCEPT !.start = TRUE])
    /\ UNCHANGED <<procs, owned, alive, nextProc, nextEnt, refused, faults>>

(* Owned processes come first at their tick. *)
BeginTask(c) ==
    /\ NoFlow /\ ~OwnedDue
    /\ casts[c].status = "waiting" /\ casts[c].due = 0
    /\ casts' = [casts EXCEPT ![c].status = "flow", ![c].start = FALSE]
    /\ UNCHANGED <<procs, owned, alive, nextProc, nextEnt, refused, faults>>

FlowSpawn(c, t, n) ==
    /\ casts[c].status = "flow"
    /\ nextEnt + n <= MaxEntities
    /\ \E x \in SpawnEnv(t, n) :
         \E v \in {Spawn(World(x), c, t, n)} :
             Become(IF v.err THEN FailCast(v, c)
                    ELSE IF v.casts[c].flag THEN Finish(v, c, FALSE)
                    ELSE v)

(* A program waits a bounded number of times, as the compiler's budget sees to (here once,
   and one cast at a time). *)
MayWait == \A c \in DOMAIN casts : casts[c].waits = 0

FlowWait(c) ==
    /\ casts[c].status = "flow" /\ MayWait
    /\ casts' = [casts EXCEPT ![c].status = "waiting", ![c].due = 1, ![c].waits = 1]
    /\ UNCHANGED <<procs, owned, alive, nextProc, nextEnt, refused, faults>>

(* The flow ends: the cast is over, or has another task to run. *)
FlowFinish(c) ==
    /\ casts[c].status = "flow"
    /\ \E x \in StopEnv, pending \in BOOLEAN :
         /\ pending => MayWait
         /\ Become(Finish([World(x) EXCEPT !.casts[c].waits = 1], c, pending))

(* Another operation of the flow fails. *)
FlowError(c) ==
    /\ casts[c].status = "flow"
    /\ \E x \in StopEnv : Become(FailCast(World(x), c))

(* Cancel and Interrupt: stuck, the cast can be cancelled once more. *)
Cancel(c) ==
    /\ NoFlow
    /\ casts[c].status \in {"waiting", "stuck"} /\ ~casts[c].logical
    /\ \E x \in StopEnv :
         LET v == StopScoped(World(x), c)
         IN  Become([v EXCEPT !.casts[c] = IF v.err THEN [@ EXCEPT !.status = "stuck", !.due = 0] ELSE Cast("over")])

(* The game removes an entity. *)
Despawn(e) ==
    /\ NoFlow
    /\ alive' = [d \in DOMAIN alive \ {e} |-> alive[d]]
    /\ UNCHANGED <<casts, procs, owned, nextProc, nextEnt, refused, faults>>

Sooner(n) == IF n > 0 THEN n - 1 ELSE 0

(* Advance to the next tick; entities whose time is over go first. *)
Tick ==
    /\ NoFlow /\ ~OwnedDue /\ ~TaskDue
    /\ \E x \in StepEnv :
         LET now == [World(x) EXCEPT
                       !.casts = [c \in DOMAIN @ |-> [@[c] EXCEPT !.due = Sooner(@)]],
                       !.procs = [p \in DOMAIN @ |-> IF @[p].status # "running" THEN @[p]
                                    ELSE [@[p] EXCEPT !.next = Sooner(@), !.end = Sooner(@)]],
                       !.alive = [e \in {d \in DOMAIN @ : @[d].due > 1} |-> [@[e] EXCEPT !.due = @ - 1]]]
         IN  Become(IF Fails(now, "events", 0) THEN now ELSE AdvanceOwned(now))

(* Advance once more at the tick at which the last call stopped with an error. *)
Retry ==
    /\ NoFlow /\ OwnedDue
    /\ \E x \in StepEnv : Become(AdvanceOwned(World(x)))

(* Shutdown: everything is stopped, and the host removes what should not outlive it. *)
Shutdown ==
    /\ NoFlow
    /\ \E x \in StopEnv :
         LET running == {p \in DOMAIN procs : procs[p].status = "running"}
             stop(v, p) == LET u == TerminateProcess(v, p, "cancelled", IF v.procs[p].handed THEN "cancel" ELSE "")
                           IN  IF u.err THEN u ELSE [u EXCEPT !.owned = @ \ {p}]
             w == FoldLeft(LAMBDA v, p : stop(v, p), World(x), Ascending(running))
         IN  Become([w EXCEPT !.alive = [e \in {d \in DOMAIN @ : ~Tmpl[@[d].tmpl].despawn} |-> @[e]]])

FlowStep(c) == \/ \E t \in Template, n \in 1..2 : FlowSpawn(c, t, n)
               \/ FlowWait(c)
               \/ FlowFinish(c)
               \/ FlowError(c)

Next == \/ StartCast
        \/ \E c \in DOMAIN casts : BeginTask(c) \/ FlowStep(c) \/ Cancel(c)
        \/ \E e \in DOMAIN alive : Despawn(e)
        \/ Tick
        \/ Retry
        \/ Shutdown

Spec == Init /\ [][Next]_vars

(* A call that has begun ends, and the caller goes on advancing: while a step of the
   Runtime's own could change something, some step does (all other steps are finite in
   number).  Weak fairness of Next on that condition, spelt out to spare TLC the search
   for a successor. *)
CanWork == \/ \E c \in DOMAIN casts : casts[c].status \in {"flow", "waiting"}
           \/ \E p \in RunningIds : ~procs[p].handed /\ procs[p].entity \notin DOMAIN alive
           \/ owned # {} \/ alive # <<>>
FairSpec == Spec /\ ([]<>(~CanWork) \/ []<><<TRUE>>_vars)

-----------------------------------------------------------------------------
(* Properties *)

Process == [cast : 1..MaxCasts, tmpl : Template, entity : 1..MaxEntities,
            status : {"running", "ended", "cancelled", "failed"},
            program : BOOLEAN, handed : BOOLEAN, next : Nat, end : Nat,
            stage : {"new", "static", "outbound", "paused", "returning", "completed"},
            count : Nat, carried : BOOLEAN, members : SUBSET Target, finished : BOOLEAN,
            endRan : BOOLEAN, ends : Nat, cancels : Nat, inside : SUBSET Target]

(* Every variable keeps its type; an owned process has been handed over, and a stopped one
   has no program, no members and carries nobody. *)
TypeOK ==
    /\ casts \in Seq([status : {"flow", "waiting", "stuck", "over", "failed"}, start : BOOLEAN,
                      logical : BOOLEAN, flag : BOOLEAN, due : 0..1, waits : 0..1])
    /\ Len(casts) <= MaxCasts
    /\ DOMAIN procs \subseteq 1..nextProc /\ \A p \in DOMAIN procs : procs[p] \in Process
    /\ owned \subseteq DOMAIN procs /\ refused \subseteq 1..nextProc
    /\ DOMAIN alive \subseteq 1..nextEnt
    /\ \A e \in DOMAIN alive : alive[e] \in [tmpl : Template, due : Nat]
    /\ \A p \in owned : procs[p].handed
    /\ \A p \in DOMAIN procs : procs[p].status # "running" =>
         ~procs[p].program /\ procs[p].members = {} /\ ~procs[p].carried

(* No process runs for nobody: unless the host refused to stop it, a running process is
   owned by the Runtime, or belongs to a cast that still runs, whichever of the steps of a
   spawn, of the end of a cast, or of the stops of its other processes failed. *)
NoOrphan ==
    \A p \in DOMAIN procs : procs[p].status = "running" /\ p \notin owned \cup refused =>
        casts[procs[p].cast].status \in {"flow", "waiting"}

(* The last callbacks of a process run at most once, though stopping it may be repeated:
   the end callback never twice, the cancel callback twice only after a refused stop. *)
TerminalOnce ==
    \A p \in DOMAIN procs : /\ procs[p].ends <= 1
                            /\ p \notin refused => procs[p].cancels <= 1

(* Whoever has been told to enter an area that speaks of leaving is told to leave it before
   the area is gone, if no call failed. *)
LeavesPaired ==
    \A p \in DOMAIN procs :
        LET d == Tmpl[procs[p].tmpl]
        IN  /\ faults = 0 /\ procs[p].status # "running"
            /\ d.area /\ d.emitLeave /\ d.finish = {} /\ {"enter", "leave"} \subseteq d.on
            => procs[p].inside = {}

(* The limits on processes and on entities of a template hold, counting what is replaced
   only once and what failed to start not at all; a process that would not stop is not counted. *)
WithinCapacity ==
    LET live == {p \in DOMAIN procs : procs[p].status = "running"} \ refused
    IN  /\ Cardinality(live) <= MaxOwned
        /\ \A t \in Template :
             /\ Cardinality({p \in live : procs[p].tmpl = t}) <= MaxPerTemplate
             /\ Cardinality({e \in DOMAIN alive : alive[e].tmpl = t}) <= Tmpl[t].perOwner

(* What runs belongs to somebody who will stop it. *)
ProcessesAreOwned == TypeOK /\ NoOrphan

(* The callbacks of a process come once and in pairs, and its place is counted. *)
LivesAreWhole == TerminalOnce /\ LeavesPaired /\ WithinCapacity

(* A spawn is all or nothing: if the cast fails in it, the entities there were are there and
   no other, unless each new one has its process (then only a later stop has failed). *)
SpawnIsAtomic ==
    [][\A c \in DOMAIN casts :
         casts[c].status = "flow" /\ casts'[c].status = "failed" =>
            LET new == DOMAIN alive' \ DOMAIN alive
            IN  \/ alive' = alive
                \/ new # {} /\ \A e \in new : \E p \in DOMAIN procs' : procs'[p].entity = e]_vars

(* Every process stops in the end: one that was handed over even if the host has refused
   to stop it, any other if the host has not. *)
ProcessEnds ==
    \A p \in 1..MaxEntities :
        p \in DOMAIN procs /\ procs[p].status = "running"
            ~> \/ p \notin DOMAIN procs \/ procs[p].status # "running"
               \/ (p \in refused /\ ~procs[p].handed)
=============================================================================
