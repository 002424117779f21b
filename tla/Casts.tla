------------------------------- MODULE Casts -------------------------------
(***************************************************************************)
(* The casts of one caster in the Runtime of package skill: their windows  *)
(* (windup, commit, execution, recovery), policies (tap, ammo, charge,     *)
(* hold, toggle), cooldowns, ammunition, the heap of scheduled tasks and   *)
(* the retention of completed casts.  All of it is under Runtime.mutex, so *)
(* an action is a whole public call, or the run of one task by Advance;    *)
(* what is hard here is the order of calls, tasks and errors.              *)
(*                                                                         *)
(* Handlers are operators from a world w (the Runtime's fields) to a world *)
(* w.err says that the Go function returned an error.  A program's flow is *)
(* what it can do to the cast: fork a branch that waits, then finish, go   *)
(* to the second phase, wait, fall through or fail.  Due ticks, cooldowns  *)
(* and ages are relative to the current tick.                              *)
(***************************************************************************)
EXTENDS Integers, Sequences, FiniteSets, SequencesExt

CONSTANTS Program,            \* the compiled active programs
          Def,                \* [Program -> Definition], see Definition
          Gcd,                \* the reserved id of the global cooldown
          Wait,               \* what a wait of a flow takes
          MaxActiveCasts, CompletedCastLimit,
          MaxCasts, MaxToken  \* bounds: casts started, phase tokens

Control == {"finish", "goto", "wait", "through", "error"}
Outcome == [fork : BOOLEAN, then : Control]
Event == {"enter", "release", "pulse", "cancel", "input", "tail", "branch", "second"}

Definition ==
    [mode : {"tap", "ammo", "charge", "hold", "toggle"}, concurrent : BOOLEAN, refund : BOOLEAN,
     cost : BOOLEAN, sustain : BOOLEAN, ports : BOOLEAN, autoRelease : BOOLEAN,
     windup : Nat, commit : Nat, recovery : Nat, cooldown : Nat, global : Nat,
     pulse : Nat, maxTicks : Nat, minCharge : Nat,
     maxStock : Nat, initialStock : Nat, recharge : Nat, flow : [Event -> SUBSET Outcome]]

ASSUME GcdIsReserved == Gcd \notin Program
ASSUME DefIsTyped == Def \in [Program -> Definition]

(* What the compiler's shape pass refuses does not reach the runtime, and a *)
(* wait has a positive duration.                                            *)
ASSUME ShapeIsChecked ==
    \A p \in Program : /\ Def[p].commit <= Def[p].windup
                       /\ Def[p].initialStock <= Def[p].maxStock
ASSUME LimitsAreNumbers ==
    /\ Wait \in Nat \ {0} /\ MaxActiveCasts \in Nat /\ CompletedCastLimit \in Nat
    /\ MaxCasts \in Nat /\ MaxToken \in Nat

VARIABLES casts,      \* casts by id
          tasks,      \* scheduler.tasks in the order they are popped
          cooldowns,  \* ticks left
          policies,   \* activePolicies: the id of a cast, or 0
          ammo,       \* skillStates
          nextCast, active, completed,   \* ids, activeCastCount, completedCastOrder
          aborted,    \* the last Advance returned an error
          refused     \* casts whose last operation returned an error and left them live

vars == <<casts, tasks, cooldowns, policies, ammo, nextCast, active, completed, aborted, refused>>

World == [casts |-> casts, tasks |-> tasks, cooldowns |-> cooldowns, policies |-> policies,
          ammo |-> ammo, nextCast |-> nextCast, active |-> active, completed |-> completed,
          err |-> FALSE]

Bad(w) == [w EXCEPT !.err = TRUE]
DefOf(w, c) == Def[w.casts[c].prog]
Mode(w, c) == DefOf(w, c).mode
Ended(cast) == cast.status \in {"finished", "failed"}
Longest(d) == d.maxTicks + 1     \* ages above it are not told apart

NewCast(p) == [prog |-> p, status |-> "running", stage |-> "none", phase |-> 1, token |-> 1,
               pending |-> 0, logical |-> FALSE, age |-> 0, committed |-> FALSE, paid |-> FALSE,
               cooled |-> FALSE, root |-> "enter", policy |-> FALSE, done |-> FALSE]

FullStock(p) == [stock |-> Def[p].initialStock, scheduled |-> FALSE, gen |-> 0, due |-> 0]

Init == /\ casts = <<>>
        /\ tasks = <<>>
        /\ cooldowns = [k \in Program \cup {Gcd} |-> 0]
        /\ policies = [p \in Program |-> 0]
        /\ ammo = [p \in Program |-> FullStock(p)]
        /\ nextCast = 0 /\ active = 0 /\ completed = <<>>
        /\ aborted = FALSE /\ refused = {}

-----------------------------------------------------------------------------
(* The scheduler *)

Insert(ts, t) ==
    LET k == Cardinality({i \in DOMAIN ts : ts[i].due <= t.due})
    IN  SubSeq(ts, 1, k) \o <<t>> \o SubSeq(ts, k + 1, Len(ts))

Task(due, kind, id, token, what) ==
    [due |-> due, kind |-> kind, id |-> id, token |-> token, what |-> what]

Schedule(w, c, due, kind, what) ==
    IF due < 0 THEN Bad(w)
    ELSE [w EXCEPT !.tasks = Insert(@, Task(due, kind, c, w.casts[c].token, what)),
                   !.casts[c].pending = @ + 1,
                   !.casts[c].status = "suspended"]

(* The elements of s that are not in gone, in their order (SelectSeq, said  *)
(* by the places of its result, which is what proofs need).                *)
Kept(s, gone) ==
    LET left == {i \in DOMAIN s : s[i] \notin gone}
        nth(k) == CHOOSE i \in left : Cardinality({j \in left : j <= i}) = k
    IN  [k \in 1 .. Cardinality(left) |-> s[nth(k)]]

CancelPhaseTasks(w, c) ==
    LET phase == {t \in ToSet(w.tasks) : t.id = c /\ t.token = w.casts[c].token}
        gone == Len(w.tasks) - Len(Kept(w.tasks, phase))
    IN  [w EXCEPT !.tasks = Kept(@, phase),
                  !.casts[c].pending = IF @ > gone THEN @ - gone ELSE 0]

-----------------------------------------------------------------------------
(* Retention of completed casts *)

Evictable(w, c) == /\ w.casts[c].pending = 0
                   /\ ~w.casts[c].policy
                   /\ Ended(w.casts[c])

PruneCompleted(w) ==
    LET may == Kept(w.completed, {c \in DOMAIN w.casts : ~Evictable(w, c)})
        over == Len(w.completed) - CompletedCastLimit
        out == {may[i] : i \in {j \in DOMAIN may : j <= over}}
    IN  [w EXCEPT !.completed = Kept(@, out),
                  !.casts = [c \in DOMAIN @ \ out |-> @[c]]]

MarkFinished(w, c) ==
    LET v == [w EXCEPT !.casts[c].done = TRUE, !.active = IF @ > 0 THEN @ - 1 ELSE 0]
    IN  IF w.casts[c].done THEN w
        ELSE IF w.casts[c].status = "finished" \/ (w.casts[c].status = "failed" /\ w.casts[c].committed)
             THEN PruneCompleted([v EXCEPT !.completed = Append(@, c)])
             ELSE v

-----------------------------------------------------------------------------
(* Commit, cooldowns and ammunition *)

StartCooldown(w, c) ==
    IF w.casts[c].cooled THEN w
    ELSE [w EXCEPT !.casts[c].cooled = TRUE,
                   !.cooldowns[w.casts[c].prog] = DefOf(w, c).cooldown]

(* The host takes the program's costs, or refuses for want of resources. *)
PayCosts(w, c, pay) ==
    IF pay \/ ~DefOf(w, c).cost THEN [w EXCEPT !.casts[c].paid = TRUE] ELSE Bad(w)

EnsureRecharge(w, p) ==
    LET a == w.ammo[p]
        gen == a.gen + 1
        due == Def[p].recharge
    IN  IF a.scheduled \/ a.stock >= Def[p].maxStock THEN w
        ELSE [w EXCEPT !.ammo[p] = [a EXCEPT !.scheduled = TRUE, !.gen = gen, !.due = due],
                       !.tasks = Insert(@, Task(due, "recharge", 0, gen, p))]

TakeAmmo(w, c) ==
    LET p == w.casts[c].prog
    IN  IF Mode(w, c) # "ammo" THEN w
        ELSE EnsureRecharge([w EXCEPT !.ammo[p].stock = @ - 1], p)

EnterCommitted(w, c) ==
    LET global == DefOf(w, c).global
        v == [w EXCEPT !.casts[c].committed = TRUE, !.casts[c].stage = "committed",
                       !.cooldowns[Gcd] = IF global > @ THEN global ELSE @]
    IN  IF Mode(w, c) \in {"tap", "ammo", "charge"} THEN StartCooldown(v, c) ELSE v

CommitCast(w, c, pay) ==
    IF w.casts[c].stage = "cancelled" \/ w.casts[c].committed THEN w
    ELSE IF Mode(w, c) = "ammo" /\ w.ammo[w.casts[c].prog].stock <= 0 THEN Bad(w)
    ELSE LET paid == IF w.casts[c].paid THEN w ELSE PayCosts(w, c, pay)
         IN  IF paid.err THEN paid ELSE EnterCommitted(TakeAmmo(paid, c), c)

-----------------------------------------------------------------------------
(* Recovery, policies and flows *)

(* The slot of the skill is given up, whichever cast holds it. *)
DropSlot(w, c) == [w EXCEPT !.casts[c].policy = FALSE, !.policies[w.casts[c].prog] = 0]

(* The cast is tracked as completed while it still counts as policy-active. *)
CompleteRecovery(w, c) ==
    IF w.casts[c].stage = "cancelled" THEN w
    ELSE LET v == MarkFinished([w EXCEPT !.casts[c].stage = "complete",
                                         !.casts[c].status = "finished"], c)
         IN  IF c \in DOMAIN v.casts THEN DropSlot(v, c)
             ELSE [v EXCEPT !.policies[w.casts[c].prog] = 0]

BeginRecovery(w, c) ==
    LET v == [w EXCEPT !.casts[c].logical = TRUE, !.casts[c].stage = "recovering"]
    IN  IF v.casts[c].pending > 0 THEN [v EXCEPT !.casts[c].status = "suspended"]
        ELSE IF DefOf(w, c).recovery = 0 THEN CompleteRecovery(v, c)
        ELSE Schedule(v, c, DefOf(w, c).recovery, "recovery", "")

(* Seeded bug of PolicyWait: a hold and a toggle pulse, but no task ends them. *)
PulsesOnly(w, c) ==
    Schedule([w EXCEPT !.casts[c].policy = TRUE, !.policies[w.casts[c].prog] = c],
             c, IF Mode(w, c) = "charge" THEN 1 ELSE DefOf(w, c).pulse, "pulse", "")

PolicyWait(w, c) ==
    LET d == DefOf(w, c)
        v == [w EXCEPT !.casts[c].policy = TRUE, !.casts[c].status = "suspended",
                       !.policies[w.casts[c].prog] = c]
        left == d.maxTicks - w.casts[c].age
    IN  IF d.mode \in {"tap", "ammo"} THEN Bad(w)
        ELSE IF w.casts[c].policy THEN [w EXCEPT !.casts[c].status = "suspended"]
        ELSE IF d.mode = "charge"
             THEN Schedule(v, c, left, "auto", IF d.autoRelease THEN "charge_full" ELSE "cancelled")
             ELSE Schedule(Schedule(v, c, d.pulse, "pulse", ""), c, left, "auto", "max_duration")

Forked(w, c, o) == IF o.fork THEN Schedule(w, c, Wait, "flow", "branch") ELSE w

NextPhase(w, c) == [CancelPhaseTasks(w, c) EXCEPT !.casts[c].token = @ + 1, !.casts[c].phase = 2]

(* executeCast of one phase that does not go on to another. *)
EnterPhase(w, c, o) ==
    LET v == Forked(w, c, o)
    IN  CASE o.then = "finish"  -> BeginRecovery(v, c)
          [] o.then = "wait"    -> Schedule(v, c, Wait, "flow", "tail")
          [] o.then = "through" -> PolicyWait(v, c)
          [] OTHER              -> Bad(v)

ExecuteCast(w, c, x) ==
    IF w.casts[c].phase = 2 THEN EnterPhase(w, c, x.second)
    ELSE IF x.enter.then = "goto" THEN EnterPhase(NextPhase(Forked(w, c, x.enter), c), c, x.second)
    ELSE EnterPhase(w, c, x.enter)

ResolveControl(w, c, control, x) ==
    CASE control = "finish"  -> BeginRecovery(w, c)
      [] control = "wait"    -> Schedule(w, c, Wait, "flow", "tail")
      [] control = "goto"    -> EnterPhase([NextPhase(w, c) EXCEPT !.casts[c].status = "running"], c, x.second)
      [] control = "error"   -> Bad(w)
      [] control = "through" -> IF w.casts[c].pending > 0 THEN [w EXCEPT !.casts[c].status = "suspended"]
                                ELSE IF w.casts[c].logical THEN BeginRecovery(w, c)
                                ELSE Bad(w)

(* Only the first phase has roots beside enter: the second one is a plain   *)
(* end of the skill.                                                       *)
ExecuteCastEvent(w, c, o, x) ==
    IF w.casts[c].phase # 1 THEN Bad(w) ELSE ResolveControl(Forked(w, c, o), c, o.then, x)

BeginExecution(w, c, x) ==
    LET v == [w EXCEPT !.casts[c].stage = "executing", !.casts[c].status = "running"]
    IN  IF w.casts[c].stage = "cancelled" THEN w
        ELSE IF ~w.casts[c].committed THEN Bad(w)
        ELSE IF w.casts[c].root = "release" THEN ExecuteCastEvent(v, c, x.release, x)
        ELSE ExecuteCast(v, c, x)

(* Costs, commit and execution of a window, at once or as tasks. *)
Windup(w, c, x) ==
    LET d == DefOf(w, c)
        paid == IF d.refund THEN w ELSE PayCosts(w, c, x.pay)
        begun == IF paid.err THEN paid
                 ELSE IF d.commit = 0 THEN CommitCast(paid, c, x.pay)
                 ELSE Schedule(paid, c, d.commit, "commit", "")
    IN  IF begun.err THEN begun
        ELSE IF d.windup = 0 THEN BeginExecution(begun, c, x)
        ELSE Schedule(begun, c, d.windup, "execute", "")

PrepareWindow(w, c, root, x) ==
    Windup([w EXCEPT !.casts[c].root = root, !.casts[c].stage = "preparing"], c, x)

CancelledAs(w, c) == MarkFinished([w EXCEPT !.casts[c].stage = "cancelled",
                                            !.casts[c].status = "finished"], c)

ReleaseCast(w, c, x) ==
    LET d == DefOf(w, c)
        quit == CancelPhaseTasks(w, c)
        next == [quit EXCEPT !.casts[c].token = @ + 1]
    IN  IF w.casts[c].logical \/ w.casts[c].stage \in {"recovering", "complete", "cancelled"} THEN Bad(w)
        ELSE IF d.mode = "charge"
             THEN IF w.casts[c].age < d.minCharge
                  THEN CancelledAs(CancelPhaseTasks(DropSlot(w, c), c), c)
                  ELSE PrepareWindow([next EXCEPT !.casts[c].status = "running"], c, "release", x)
        ELSE IF d.mode \in {"hold", "toggle"}
             THEN ExecuteCastEvent(StartCooldown(DropSlot(next, c), c), c, x.release, x)
        ELSE Bad(w)

ExecutePulse(w, c, x) ==
    LET d == DefOf(w, c)
        acts == w.casts[c].phase = 1
        v == IF acts THEN Forked(w, c, x.pulse) ELSE w
        again == IF d.pulse < d.maxTicks - w.casts[c].age THEN Schedule(v, c, d.pulse, "pulse", "") ELSE v
    IN  IF ~w.casts[c].policy THEN w
        ELSE IF d.sustain /\ ~x.pay THEN ReleaseCast(w, c, x)
        ELSE IF acts /\ x.pulse.then = "error" THEN Bad(v)
        ELSE IF acts /\ x.pulse.then # "through" THEN ResolveControl(v, c, x.pulse.then, x)
        ELSE [again EXCEPT !.casts[c].status = "suspended"]

ExecuteAutoRelease(w, c, reason, x) ==
    IF ~w.casts[c].policy THEN w
    ELSE IF Mode(w, c) = "charge" /\ reason = "cancelled" THEN CancelledAs(DropSlot(w, c), c)
    ELSE ReleaseCast(w, c, x)

Failed(w, c) == MarkFinished([w EXCEPT !.casts[c].status = "failed"], c)
FailScheduled(w, c) == Failed(CancelPhaseTasks(w, c), c)

-----------------------------------------------------------------------------
(* What can happen to the cast of p while the flows of the events es run;  *)
(* flows that do not run have one outcome, to keep the choice small.       *)

Lots(p, es) ==
    LET Of(e) == IF e \in es THEN Def[p].flow[e] ELSE {[fork |-> FALSE, then |-> "through"]}
    IN  [pay : BOOLEAN, enter : Of("enter"), release : Of("release"), pulse : Of("pulse"),
         cancel : Of("cancel"), input : Of("input"), tail : Of("tail"), branch : Of("branch"),
         second : Of("second")]

(* An Advance runs to its tick without giving the mutex up, unless it fails. *)
Due == tasks # <<>> /\ tasks[1].due = 0
Quiet == Due => aborted

Becomes(w) == /\ casts' = w.casts
              /\ tasks' = w.tasks
              /\ cooldowns' = w.cooldowns
              /\ policies' = w.policies
              /\ ammo' = w.ammo
              /\ nextCast' = w.nextCast
              /\ active' = w.active
              /\ completed' = w.completed

LiveIn(w, c) == c \in DOMAIN w.casts /\ ~Ended(w.casts[c])

(* The public call on cast c returns what w says. *)
Returns(w, c) ==
    /\ Becomes(w)
    /\ refused' = {d \in (IF w.err THEN refused \cup {c} ELSE refused \ {c}) : LiveIn(w, d)}
    /\ UNCHANGED aborted

-----------------------------------------------------------------------------
(* Public calls *)

(* Seeded bug of Busy: the windup is not exclusive. *)
BusyAfterCommit == \E c \in DOMAIN casts : /\ ~Ended(casts[c])
                                           /\ casts[c].stage \in {"committed", "recovering"}

Busy == \E c \in DOMAIN casts : /\ ~Ended(casts[c])
                                /\ casts[c].stage \in {"preparing", "committed", "recovering"}

Prepared(w, c, x) ==
    IF Mode(w, c) = "charge" THEN ExecuteCast([w EXCEPT !.casts[c].stage = "executing"], c, x)
    ELSE PrepareWindow(w, c, "enter", x)

Without(w, c) == [w EXCEPT !.casts = [d \in DOMAIN @ \ {c} |-> @[d]], !.nextCast = @ - 1]

Started(w, c) ==
    IF ~w.err THEN w
    ELSE LET v == Failed(w, c)
         IN  IF w.casts[c].committed THEN v ELSE Without(v, c)

HeldToggle(p) == /\ Def[p].mode = "toggle"
                 /\ policies[p] \in DOMAIN casts
                 /\ casts[policies[p]].policy

Start(p) ==
    /\ Quiet
    /\ active < MaxActiveCasts /\ nextCast < MaxCasts
    /\ ~HeldToggle(p)
    /\ Def[p].concurrent \/ ~Busy
    /\ cooldowns[Gcd] = 0 /\ cooldowns[p] = 0
    /\ \E x \in Lots(p, {"enter", "second"}) :
         LET c == nextCast + 1
             w == [World EXCEPT !.casts = [d \in DOMAIN @ \cup {c} |-> IF d = c THEN NewCast(p) ELSE @[d]],
                                !.policies[p] = IF Def[p].mode = "toggle" THEN 0 ELSE @,
                                !.nextCast = c, !.active = @ + 1]
         IN  /\ Becomes(Started(Prepared(w, c, x), c))
             /\ UNCHANGED <<aborted, refused>>

Tokened(c) == casts[c].token < MaxToken

Gameplay(cast) == ~cast.logical /\ cast.stage \notin {"recovering", "complete", "cancelled"}

(* Start of a toggle that is on. *)
ToggleOff(p) ==
    /\ Quiet /\ active < MaxActiveCasts
    /\ HeldToggle(p) /\ Tokened(policies[p]) /\ Gameplay(casts[policies[p]])
    /\ \E x \in Lots(p, {"release", "second"}) :
         Returns(ReleaseCast(World, policies[p], x), policies[p])

Release(c) ==
    /\ Quiet /\ Tokened(c)
    /\ Gameplay(casts[c]) /\ Mode(World, c) \in {"charge", "hold", "toggle"}
    /\ \E x \in Lots(casts[c].prog, {"release", "second"}) : Returns(ReleaseCast(World, c, x), c)

(* What Cancel and Interrupt share: phase tasks and cooldown first, ... *)
BrokenOff(c) ==
    LET v == [CancelPhaseTasks(World, c) EXCEPT !.casts[c].token = @ + 1]
    IN  IF casts[c].committed /\ Mode(World, c) \in {"hold", "toggle"} THEN StartCooldown(v, c) ELSE v

(* Seeded bug of EndedEarly: the slot outlives the cast. *)
EndedWithSlot(w, c) == CancelledAs([w EXCEPT !.casts[c].policy = FALSE], c)

(* ... then the slot, if the cast still owns it, and the end. *)
EndedEarly(w, c) ==
    LET p == w.casts[c].prog
    IN  CancelledAs([w EXCEPT !.casts[c].policy = FALSE,
                              !.policies[p] = IF w.casts[c].policy /\ @ = c THEN 0 ELSE @], c)

Interrupt(c) ==
    /\ Quiet /\ Tokened(c)
    /\ Gameplay(casts[c])
    /\ Returns(EndedEarly(BrokenOff(c), c), c)

Cancel(c) ==
    /\ Quiet /\ Tokened(c)
    /\ Gameplay(casts[c])
    /\ casts[c].phase = 1
    /\ \E x \in Lots(casts[c].prog, {"cancel"}) :
         LET w == Forked(BrokenOff(c), c, x.cancel)
         IN  Returns(IF x.cancel.then = "error" THEN Bad(w) ELSE EndedEarly(w, c), c)

Input(c) ==
    /\ Quiet /\ Tokened(c)
    /\ Gameplay(casts[c]) /\ ~Ended(casts[c])
    /\ casts[c].phase = 1
    /\ Def[casts[c].prog].ports
    /\ \E x \in Lots(casts[c].prog, {"input", "second"}) :
         Returns(ExecuteCastEvent(World, c, x.input, x), c)

-----------------------------------------------------------------------------
(* Advance: time passes when no task is due, else the first task runs. *)

Tick ==
    /\ ~Due
    /\ tasks' = [i \in DOMAIN tasks |-> [tasks[i] EXCEPT !.due = @ - 1]]
    /\ cooldowns' = [k \in DOMAIN cooldowns |-> IF cooldowns[k] > 0 THEN cooldowns[k] - 1 ELSE 0]
    /\ casts' = [c \in DOMAIN casts |->
                   [casts[c] EXCEPT !.age = IF @ < Longest(Def[casts[c].prog]) THEN @ + 1 ELSE @]]
    /\ ammo' = [p \in Program |-> [ammo[p] EXCEPT !.due = IF ammo[p].scheduled THEN @ - 1 ELSE 0]]
    /\ aborted' = FALSE
    /\ UNCHANGED <<policies, nextCast, active, completed, refused>>

HeadIs(kind) == Due /\ tasks[1].kind = kind
First == tasks[1]
Popped == [World EXCEPT !.tasks = Tail(@)]

RunRecharge ==
    /\ HeadIs("recharge")
    /\ LET p == First.what
           a == ammo[p]
           stock == IF a.stock < Def[p].maxStock THEN a.stock + 1 ELSE a.stock
           full == stock >= Def[p].maxStock
           due == Def[p].recharge
           w == [Popped EXCEPT !.ammo[p] = [a EXCEPT !.stock = stock, !.scheduled = ~full,
                                                     !.due = IF full THEN 0 ELSE due]]
       IN  Becomes(IF ~a.scheduled \/ a.gen # First.token \/ a.due # 0 THEN Popped
                   ELSE IF full THEN w
                   ELSE [w EXCEPT !.tasks = Insert(@, Task(due, "recharge", 0, First.token, p))])
    /\ aborted' = FALSE
    /\ UNCHANGED refused

(* The popped task is no longer pending. *)
Taken(c) == [Popped EXCEPT !.casts[c].pending = IF @ > 0 THEN @ - 1 ELSE 0]
IsStale(c) == First.token # casts[c].token \/ Ended(casts[c])

(* Advance goes on, or returns the error of the task. *)
Advanced(w, c) ==
    /\ Becomes(w)
    /\ aborted' = w.err
    /\ refused' = {d \in (IF w.err THEN refused \cup {c} ELSE refused) : LiveIn(w, d)}

RunStale ==
    /\ Due /\ First.kind # "recharge"
    /\ LET c == First.id
       IN  IF c \notin DOMAIN casts THEN Advanced(Popped, c)
           ELSE /\ IsStale(c)
                /\ LET w == Taken(c)
                   IN  Advanced(IF w.casts[c].pending = 0 /\ w.casts[c].logical /\ w.casts[c].status # "failed"
                                THEN BeginRecovery(w, c) ELSE w, c)

(* A task of kind that is due and meant for the cast as it is. *)
Runs(kind) == HeadIs(kind) /\ First.id \in DOMAIN casts /\ ~IsStale(First.id)

(* Errors of these tasks fail the cast. *)
FailsOnError(w, c) == Advanced(IF w.err THEN FailScheduled(w, c) ELSE w, c)

RunCommit ==
    /\ Runs("commit")
    /\ \E pay \in BOOLEAN : FailsOnError(CommitCast(Taken(First.id), First.id, pay), First.id)

RunExecute ==
    /\ Runs("execute")
    /\ LET c == First.id
       IN  \E x \in Lots(casts[c].prog, {casts[c].root, "second"}) :
             FailsOnError(BeginExecution(Taken(c), c, x), c)

RunPulse ==
    /\ Runs("pulse")
    /\ LET c == First.id
       IN  \E x \in Lots(casts[c].prog, {"pulse", "release", "second"}) :
             FailsOnError(ExecutePulse(Taken(c), c, x), c)

RunAutoRelease ==
    /\ Runs("auto")
    /\ LET c == First.id
       IN  \E x \in Lots(casts[c].prog, {"release", "second"}) :
             FailsOnError(ExecuteAutoRelease(Taken(c), c, First.what, x), c)

RunRecovery ==
    /\ Runs("recovery")
    /\ Advanced(CompleteRecovery(Taken(First.id), First.id), First.id)

(* A flow goes on: an error of its operations fails the cast and leaves    *)
(* its tasks, one of what follows is only returned.                        *)
RunFlow ==
    /\ Runs("flow")
    /\ LET c == First.id
           e == First.what
       IN  \E x \in Lots(casts[c].prog, {e, "second"}) :
             LET o == IF e = "branch" THEN x.branch ELSE x.tail
                 w == Forked(Taken(c), c, o)
             IN  Advanced(IF o.then = "error" THEN Bad(Failed(w, c))
                          ELSE ResolveControl(w, c, o.then, x), c)

Advance == \/ Tick \/ RunRecharge \/ RunStale \/ RunCommit \/ RunExecute
           \/ RunPulse \/ RunAutoRelease \/ RunRecovery \/ RunFlow

Next == \/ Advance
        \/ \E p \in Program : Start(p) \/ ToggleOff(p)
        \/ \E c \in DOMAIN casts : Release(c) \/ Cancel(c) \/ Interrupt(c) \/ Input(c)

Spec == Init /\ [][Next]_vars

(* The owner of the runtime goes on calling Advance: WF_vars(Advance) with *)
(* its enabling condition spelt out (a Tick that changes nothing is no     *)
(* step), which spares TLC the search for a successor.                     *)
CanAdvance == \/ tasks # <<>> \/ aborted
              \/ \E k \in DOMAIN cooldowns : cooldowns[k] > 0
              \/ \E c \in DOMAIN casts : casts[c].age < Longest(Def[casts[c].prog])

Progress == []<>(~CanAdvance) \/ []<><<Advance>>_vars
FairSpec == Spec /\ Progress

-----------------------------------------------------------------------------
(* Properties *)

CastRecord ==
    [prog : Program, status : {"running", "suspended", "finished", "failed"},
     stage : {"preparing", "committed", "executing", "recovering", "complete", "cancelled"},
     phase : 1 .. 2, token : Nat \ {0}, pending : Nat, logical : BOOLEAN, age : Nat,
     committed : BOOLEAN, paid : BOOLEAN, cooled : BOOLEAN, root : {"enter", "release"},
     policy : BOOLEAN, done : BOOLEAN]

(* The fields have their types, the heap its order, and the caster has no  *)
(* more than MaxActiveCasts casts that count as active.                    *)
TypeOK ==
    /\ \A c \in DOMAIN casts : casts[c] \in CastRecord
    /\ \A i \in DOMAIN tasks : /\ tasks[i].due >= 0
                               /\ \A j \in 1 .. i : tasks[j].due <= tasks[i].due
    /\ cooldowns \in [Program \cup {Gcd} -> Nat]
    /\ policies \in [Program -> 0 .. MaxCasts]
    /\ active \in 0 .. MaxActiveCasts
    /\ aborted \in BOOLEAN /\ refused \subseteq DOMAIN casts

(* A slot of activePolicies names a cast of that skill that is still kept  *)
(* and policy-active: a slot that outlives its cast blocks the toggle, and *)
(* names a cast of another skill once the id is used again.                *)
SlotIsHeld ==
    \A p \in Program : policies[p] # 0 =>
        /\ policies[p] \in DOMAIN casts
        /\ casts[policies[p]].prog = p
        /\ casts[policies[p]].policy

(* What RestoreRuntime demands of a checkpoint holds whenever one may be   *)
(* taken: ids below the counter, as many tasks in the heap for each kept   *)
(* cast as it counts pending, slots that name kept casts, stock in range.  *)
Restorable ==
    /\ \A c \in DOMAIN casts :
         /\ c \in 1 .. nextCast
         /\ casts[c].pending = Cardinality({i \in DOMAIN tasks : tasks[i].id = c})
    /\ \A p \in Program : /\ policies[p] \in {0} \cup DOMAIN casts
                          /\ ammo[p].stock \in 0 .. Def[p].maxStock
    /\ active = Cardinality({c \in DOMAIN casts : ~casts[c].done})

(* Ammunition comes back: below the maximum one recharge, of the current   *)
(* generation and at the tick the state says, is in the heap, and never    *)
(* two.  (A skill never fired has gen 0: its recharge starts with a shot.) *)
AmmoRecharges ==
    \A p \in Program :
        LET waiting == {i \in DOMAIN tasks : tasks[i].kind = "recharge" /\ tasks[i].what = p}
        IN  /\ ammo[p].scheduled <=> ammo[p].gen > 0 /\ ammo[p].stock < Def[p].maxStock
            /\ Cardinality(waiting) = IF ammo[p].scheduled THEN 1 ELSE 0
            /\ \A i \in waiting : tasks[i].token = ammo[p].gen /\ tasks[i].due = ammo[p].due

(* A cast commits before it executes, also at one and the same tick:       *)
(* beginCastExecution never meets a cast that has not committed.           *)
CommitsFirst ==
    \A i \in DOMAIN tasks :
        LET t == tasks[i]
            of == t.id \in DOMAIN casts /\ t.kind = "execute" /\ t.token = casts[t.id].token /\ ~Ended(casts[t.id])
        IN  of => \/ casts[t.id].committed
                  \/ \E j \in 1 .. i - 1 : /\ tasks[j].kind = "commit"
                                           /\ tasks[j].id = t.id /\ tasks[j].token = t.token

(* Two casts of a tap or ammo skill that respects the exclusivity of the   *)
(* caster never commit within its cooldown, although Start checks the      *)
(* cooldown and only the commit, ticks later, begins it.                   *)
CommitIsSpaced ==
    \A c \in DOMAIN casts \cap DOMAIN casts' :
        LET p == casts[c].prog
        IN  /\ ~Def[p].concurrent /\ Def[p].mode \in {"tap", "ammo"}
            /\ ~casts[c].committed /\ casts'[c].committed
            => cooldowns[p] = 0

(* Every step commits so. *)
CommitsSpaced == [][CommitIsSpaced]_vars

(* The tables that name casts agree with the casts, and ammunition with its *)
(* recharges, at any moment.                                                *)
CastsAreSound == TypeOK /\ SlotIsHeld /\ Restorable /\ AmmoRecharges

(* A cast commits before it acts and not within the cooldown of another.    *)
CommitsInOrder == []CommitsFirst /\ CommitsSpaced

(* If the owner goes on advancing, a live cast ends, unless an operation   *)
(* on it returned an error: a hold or a charge that nobody releases, a     *)
(* cast whose branches outlive its finish, one that changed phase.         *)
CastEnds ==
    \A c \in 1 .. MaxCasts :
        LET live == c \in DOMAIN casts /\ ~Ended(casts[c])
        IN  live ~> (~live \/ c \in refused)

=============================================================================
