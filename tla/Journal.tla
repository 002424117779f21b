------------------------------ MODULE Journal ------------------------------
(***************************************************************************)
(* The state a Runtime of package skill publishes: its abilities, the      *)
(* journal of state mutations that lets a consumer keep a copy of it, and  *)
(* the checkpoint a new Runtime is restored from.                          *)
(*                                                                         *)
(* Every public call marks the keys it writes as dirty and commits them to *)
(* the journal before it returns, so an action is a whole call; an Advance *)
(* may pass several ticks in one commit.  Casts are cut down to what the   *)
(* published state tells apart: a window of commit ticks, one wait, one    *)
(* end.  The host is its persistent states and its revision, which stands  *)
(* for all the stamps of a mutation that are not its tick.                 *)
(***************************************************************************)
EXTENDS Mutations

CONSTANTS Program,             \* the programs the caster can activate
          Def,                 \* [Program -> Definition]
          Operation,           \* the operations <<name, operand>> tried by ModifyAbilityState
          Registration,        \* the handles and stocks <<h, n>> tried by RegisterAbility
          Limit,               \* [min, max, step : Int], the policy of the ability properties
          Duration,            \* how long an ability may be disabled
          Lifetime,            \* how long a persistent state lives
          StateMutationLimit, CompletedCastLimit, MaxActiveCasts, MaxAbilities,
          MaxTick, MaxCasts, MaxStep, MaxChanges   \* bounds

Definition == [mode : {"tap", "ammo", "hold"}, commit : Nat, cooldown : Nat, hold : Nat,
               maxStock : Nat, recharge : Nat, writes : BOOLEAN]

ASSUME DefIsTyped == Def \in [Program -> Definition]

VARIABLES world,    \* the Runtime and the host it runs on
          past,     \* the copy of a consumer whose cursor is the oldest still served
          changes   \* calls of the extension surface so far, bounded

vars == <<world, past, changes>>

-----------------------------------------------------------------------------
(* The snapshot *)

Left(w, p) == IF p \in DOMAIN w.cooldowns THEN AtLeast0(w.cooldowns[p] - w.tick) ELSE 0

CastView(w, c) ==
    [prog |-> w.casts[c].prog, status |-> w.casts[c].status, committed |-> w.casts[c].committed,
     start |-> w.casts[c].start, elapsed |-> w.tick - w.casts[c].start]

AbilityView(w, h) ==
    LET a == w.abilities[h]
    IN  [prog |-> a.prog, left |-> Left(w, a.prog), stock |-> a.stock, active |-> a.active,
         commit |-> a.commit, finish |-> a.finish, overlays |-> a.overlays]

Snapshot(w) ==
    [tick |-> w.tick, rev |-> w.rev,
     ability |-> [h \in DOMAIN w.abilities |-> AbilityView(w, h)],
     cast |-> [c \in DOMAIN w.casts |-> CastView(w, c)],
     cooldown |-> [p \in DOMAIN w.cooldowns |-> [due |-> w.cooldowns[p], left |-> Left(w, p)]],
     persistent |-> w.states,
     policy |-> w.policies,
     resource |-> w.ammo]

-----------------------------------------------------------------------------
(* Write points and the baseline *)

(* The domains whose writes are recorded key by key. *)
Tracked == {"ability", "cooldown", "policy", "resource"}

(* Time only lowers what is left of a cooldown, in the baseline too. *)
Aged(base, by) ==
    [base EXCEPT !.cooldown = [p \in DOMAIN @ |-> [@[p] EXCEPT !.left = AtLeast0(@ - by)]],
                 !.ability = [h \in DOMAIN @ |-> [@[h] EXCEPT !.left = AtLeast0(@ - by)]]]

Refreshed(now, was, dirty) == [k \in (DOMAIN was \ dirty) \cup (DOMAIN now \cap dirty) |->
                                 IF k \in dirty THEN now[k] ELSE was[k]]

(* An ability derives what is left of its cooldown from the cooldowns. *)
RefreshLeft(abilities, now, dirty) ==
    [h \in DOMAIN abilities |->
       LET p == abilities[h].prog
       IN  IF p \in dirty THEN [abilities[h] EXCEPT !.left = IF p \in DOMAIN now THEN now[p].left ELSE 0]
           ELSE abilities[h]]

(* Seeded bug of NextBaseline: it keeps what was left of a cooldown. *)
BaselineNotAged(w, now) ==
    [w.baseline EXCEPT !.tick = now.tick, !.rev = now.rev, !.cast = now.cast, !.persistent = now.persistent,
        !.cooldown = Refreshed(now.cooldown, @, w.dirty.cooldown),
        !.ability = Refreshed(now.ability, RefreshLeft(@, now.cooldown, w.dirty.cooldown), w.dirty.ability),
        !.policy = Refreshed(now.policy, @, w.dirty.policy),
        !.resource = Refreshed(now.resource, @, w.dirty.resource)]

NextBaseline(w, now) ==
    [Aged(w.baseline, w.tick - w.baseline.tick) EXCEPT
        !.tick = now.tick, !.rev = now.rev, !.cast = now.cast, !.persistent = now.persistent,
        !.cooldown = Refreshed(now.cooldown, @, w.dirty.cooldown),
        !.ability = Refreshed(now.ability, RefreshLeft(@, now.cooldown, w.dirty.cooldown), w.dirty.ability),
        !.policy = Refreshed(now.policy, @, w.dirty.policy),
        !.resource = Refreshed(now.resource, @, w.dirty.resource)]

DiffWritePoints(w, now) ==
    [d \in {"cast", "persistent"} |-> Diff(d, w.baseline[d], now[d])]
    @@ [d \in Tracked |-> Diff(d, Only(w.baseline[d], w.dirty[d]), Only(now[d], w.dirty[d]))]
    @@ ("clock" :> ClockDiff(w.baseline, now))

Clean == [d \in Tracked |-> {}]

AppendMutations(w, muts) ==
    LET stamped == [i \in DOMAIN muts |-> muts[i] @@ [tick |-> w.tick, rev |-> w.rev]]
        all == w.journal \o stamped
        over == AtLeast0(Len(all) - StateMutationLimit)
    IN  [w EXCEPT !.journal = SubSeq(all, over + 1, Len(all)), !.gone = SubSeq(all, 1, over)]

CommitWritePoints(w) ==
    LET now == Snapshot(w)
    IN  [AppendMutations(w, InOrder(DiffWritePoints(w, now))) EXCEPT
            !.baseline = NextBaseline(w, now), !.dirty = Clean]

CommitAll(w) ==
    LET now == Snapshot(w)
    IN  [AppendMutations(w, InOrder(DiffRuntimeState(w.baseline, now))) EXCEPT !.baseline = now, !.dirty = Clean]

Touch(w, d, k) == [w EXCEPT !.dirty[d] = @ \cup {k}]

-----------------------------------------------------------------------------
(* The consumer *)

(* Cursors are told by how far they are behind the latest sequence. *)
Oldest(w) == Len(w.journal)

StateDeltas(w, behind, limit) ==
    LET news == SubSeq(w.journal, AtLeast0(Oldest(w) - behind) + 1, Oldest(w))
    IN  [expired |-> behind > Oldest(w),
         muts |-> IF limit > 0 /\ limit < Len(news) THEN SubSeq(news, 1, limit) ELSE news]

-----------------------------------------------------------------------------
(* Abilities and ammunition *)

DefOf(w, c) == Def[w.casts[c].prog]
Handle(w, p) == IF p \in DOMAIN w.byProgram THEN w.byProgram[p] ELSE 0
Insert(ts, t) == InsertAt(ts, Cardinality({i \in DOMAIN ts : ts[i].due <= t.due}) + 1, t)
Task(due, kind, id, gen, what) == [due |-> due, kind |-> kind, id |-> id, gen |-> gen, what |-> what]
ScheduleSystem(w, t) == [w EXCEPT !.tasks = Insert(@, t)]

NewAbility(p, stock) == [prog |-> p, stock |-> stock, active |-> 0, commit |-> 0, finish |-> 0,
                         overlays |-> Nothing]

WithAbility(w, h, a) ==
    Touch([w EXCEPT !.abilities = Assign(@, h, a), !.byProgram = Assign(@, a.prog, h)], "ability", h)

(* Registered with a stock, an ability brings its ammunition along. *)
NewAmmo(p, stock) == [stock |-> stock, scheduled |-> FALSE, gen |-> 0, due |-> 0]

EnsureAbility(w, p) ==
    LET h == w.nextHandle + 1
    IN  IF Handle(w, p) # 0 THEN w
        ELSE WithAbility([w EXCEPT !.nextHandle = h], h,
                         NewAbility(p, IF p \in DOMAIN w.ammo THEN w.ammo[p].stock ELSE Def[p].maxStock))

AmmoState(w, p) ==
    Touch([w EXCEPT !.ammo = IF p \in DOMAIN @ THEN @ ELSE Assign(@, p, NewAmmo(p, Def[p].maxStock))], "resource", p)

EnsureAmmoRecharge(w, p) ==
    LET a == w.ammo[p]
        due == w.tick + Def[p].recharge
    IN  IF a.scheduled \/ a.stock >= Def[p].maxStock THEN w
        ELSE ScheduleSystem(Touch([w EXCEPT !.ammo[p] = [a EXCEPT !.scheduled = TRUE, !.gen = @ + 1, !.due = due]],
                                  "resource", p),
                            Task(due, "recharge", 0, a.gen + 1, p))

(* The ability's copy of the stock follows a recharge, as a recorded write. *)
SyncAbility(w, p) ==
    IF Handle(w, p) = 0 THEN w
    ELSE Touch([w EXCEPT !.abilities[Handle(w, p)].stock = w.ammo[p].stock], "ability", Handle(w, p))

ExecuteAmmoRecharge(w, t) ==
    LET p == t.what
        a == w.ammo[p]
        stock == IF a.stock < Def[p].maxStock THEN a.stock + 1 ELSE a.stock
        full == stock >= Def[p].maxStock
        due == a.due + Def[p].recharge
        v == SyncAbility(Touch([w EXCEPT !.ammo[p] = [a EXCEPT !.stock = stock, !.scheduled = ~full,
                                                               !.due = IF full THEN @ ELSE due]], "resource", p), p)
    IN  IF ~a.scheduled \/ t.gen # a.gen \/ w.tick # a.due THEN w
        ELSE IF full THEN v ELSE ScheduleSystem(v, Task(due, "recharge", 0, t.gen, p))

ExpireAbilityOverlay(w, t) ==
    IF t.what \notin DOMAIN w.abilities \/ t.id \notin DOMAIN w.abilities[t.what].overlays THEN w
    ELSE Touch([w EXCEPT !.abilities[t.what].overlays = Drop(@, {t.id})], "ability", t.what)

ApplyNumeric(cur, op) ==
    CASE op[1] = "set" -> op[2]
      [] op[1] = "add" -> cur + op[2]
      [] op[1] = "mul_bp" -> (cur * op[2]) \div 10000
      [] op[1] = "min" -> IF op[2] < cur THEN op[2] ELSE cur
      [] op[1] = "max" -> IF op[2] > cur THEN op[2] ELSE cur

Clamp(n, lo, hi) == IF n < lo THEN lo ELSE IF n > hi THEN hi ELSE n
Permitted(cur, next) == Clamp(Clamp(next, cur - Limit.step, cur + Limit.step), Limit.min, Limit.max)

Disabled(w, h, d) ==
    LET id == w.nextOverlay + 1
    IN  ScheduleSystem(Touch([w EXCEPT !.nextOverlay = id, !.abilities[h].overlays = Assign(@, id, w.tick + d)],
                             "ability", h),
                       Task(w.tick + d, "overlay", id, 0, h))

CooldownSet(w, p, op) ==
    Touch([w EXCEPT !.cooldowns = Assign(@, p, w.tick + Permitted(Left(w, p), ApplyNumeric(Left(w, p), op)))],
          "cooldown", p)

StockSet(w, h, op) ==
    LET p == w.abilities[h].prog
        v == IF p \in DOMAIN w.ammo THEN w ELSE [w EXCEPT !.ammo = Assign(@, p, NewAmmo(p, w.abilities[h].stock))]
        cur == v.ammo[p].stock
        allowed == Permitted(cur, ApplyNumeric(cur, op))
        next == IF allowed > Def[p].maxStock THEN Def[p].maxStock ELSE allowed
        full == next >= Def[p].maxStock
    IN  Touch(Touch([v EXCEPT !.abilities[h].stock = next,
                              !.ammo[p] = [@ EXCEPT !.stock = next,
                                                    !.scheduled = IF full THEN FALSE ELSE @,
                                                    !.gen = IF full THEN @ + 1 ELSE @]],
                    "ability", h), "resource", p)

-----------------------------------------------------------------------------
(* Casts *)

Ended(cast) == cast.status \in {"finished", "failed"}

Schedule(w, c, due, kind) ==
    ScheduleSystem([w EXCEPT !.casts[c].pending = @ + 1, !.casts[c].status = "suspended"],
                   Task(due, kind, c, 0, 0))

CancelTasks(w, c) ==
    [w EXCEPT !.tasks = SelectSeq(@, LAMBDA t : ~(t.kind \in {"commit", "execute", "auto"} /\ t.id = c)),
              !.casts[c].pending = 0]

PruneCompleted(w) ==
    LET Evictable(c) == w.casts[c].pending = 0 /\ ~w.casts[c].policy /\ Ended(w.casts[c])
        may == SelectSeq(w.completed, Evictable)
        out == {may[i] : i \in {j \in DOMAIN may : j <= Len(w.completed) - CompletedCastLimit}}
    IN  [w EXCEPT !.completed = SelectSeq(@, LAMBDA c : c \notin out), !.casts = Drop(@, out)]

(* Only a cast that finished, or failed once committed, is retained by the limit. *)
TrackCompleted(w, c) ==
    LET v == [w EXCEPT !.active = AtLeast0(@ - 1)]
    IN  IF w.casts[c].status = "finished" \/ w.casts[c].committed
        THEN PruneCompleted([v EXCEPT !.completed = Append(@, c)]) ELSE v

(* Seeded bug of MarkFinished: a cast that failed still counts for its ability. *)
MarkFinishedClean(w, c) ==
    LET h == w.casts[c].ability
    IN  Touch([TrackCompleted(w, c) EXCEPT !.abilities[h].active =
                  IF w.casts[c].status = "failed" THEN @ ELSE AtLeast0(@ - 1),
              !.abilities[h].finish = w.tick], "ability", h)

MarkFinished(w, c) ==
    LET h == w.casts[c].ability
    IN  Touch([TrackCompleted(w, c) EXCEPT !.abilities[h].active = AtLeast0(@ - 1),
                                           !.abilities[h].finish = w.tick], "ability", h)

StartCooldown(w, c) ==
    LET p == w.casts[c].prog
    IN  Touch([w EXCEPT !.cooldowns = Assign(@, p, w.tick + Def[p].cooldown)], "cooldown", p)

MarkCommitted(w, c) ==
    LET h == w.casts[c].ability
        p == w.casts[c].prog
        v == Touch([w EXCEPT !.casts[c].committed = TRUE, !.abilities[h].commit = w.tick], "ability", h)
    IN  IF Def[p].mode = "ammo" THEN [v EXCEPT !.abilities[h].stock = w.ammo[p].stock] ELSE v

Bad(w) == [w EXCEPT !.err = TRUE]

CommitCast(w, c, pay) ==
    LET p == w.casts[c].prog
        taken == EnsureAmmoRecharge([AmmoState(w, p) EXCEPT !.ammo[p].stock = @ - 1], p)
    IN  IF Def[p].mode = "ammo"
        THEN IF w.ammo[p].stock <= 0 \/ ~pay THEN Bad(w) ELSE StartCooldown(MarkCommitted(taken, c), c)
        ELSE IF ~pay THEN Bad(w)
        ELSE IF Def[p].mode = "hold" THEN MarkCommitted(w, c)
        ELSE StartCooldown(MarkCommitted(w, c), c)

(* The host commits a write of the flow, which lives for Lifetime ticks. *)
HostWrites(w, p) ==
    IF ~Def[p].writes THEN w
    ELSE [w EXCEPT !.states = Assign(@, p, [due |-> w.tick + Lifetime, seq |-> w.stateSeq + 1]),
                   !.stateSeq = @ + 1, !.rev = @ + 1]

DropSlot(w, c) ==
    Touch([w EXCEPT !.casts[c].policy = FALSE, !.policies = Drop(@, {w.casts[c].prog})], "policy", w.casts[c].prog)

CompleteCast(w, c) ==
    LET p == w.casts[c].prog
        v == MarkFinished([HostWrites(w, p) EXCEPT !.casts[c].status = "finished"], c)
    IN  Touch([v EXCEPT !.policies = Drop(@, {p})], "policy", p)

ExecuteCast(w, c) ==
    LET p == w.casts[c].prog
        v == Touch([w EXCEPT !.casts[c].policy = TRUE, !.policies = Assign(@, p, c)], "policy", p)
    IN  IF Def[p].mode = "hold" THEN Schedule(v, c, w.tick + Def[p].hold, "auto") ELSE CompleteCast(w, c)

PrepareWindow(w, c, pay) ==
    LET p == w.casts[c].prog
        due == w.tick + Def[p].commit
        v == IF Def[p].mode = "ammo" THEN AmmoState(w, p) ELSE w
        begun == CommitCast(v, c, pay)
    IN  IF Def[p].commit > 0 THEN Schedule(Schedule(v, c, due, "commit"), c, due, "execute")
        ELSE IF begun.err THEN begun ELSE ExecuteCast(begun, c)

NewCast(w, p) == [prog |-> p, status |-> "running", committed |-> FALSE, start |-> w.tick,
                  pending |-> 0, policy |-> FALSE, ability |-> Handle(w, p)]

FailedCast(w, c) == MarkFinished([CancelTasks(w, c) EXCEPT !.casts[c].status = "failed"], c)

(* A cast that fails at once, uncommitted, leaves no record; its id is given back. *)
StartCast(w, p, pay) ==
    LET c == w.nextCast + 1
        u == EnsureAbility(w, p)
        h == Handle(u, p)
        v == Touch([u EXCEPT !.nextCast = c, !.active = @ + 1, !.casts = Assign(@, c, NewCast(u, p)),
                             !.abilities[h].active = @ + 1], "ability", h)
        begun == IF Left(u, p) > 0 THEN Bad(v) ELSE PrepareWindow(v, c, pay)
        gone == FailedCast(begun, c)
    IN  IF begun.err THEN [gone EXCEPT !.casts = Drop(@, {c}), !.nextCast = @ - 1] ELSE begun

ReleaseCast(w, c) == CompleteCast(StartCooldown(DropSlot(w, c), c), c)

-----------------------------------------------------------------------------
(* Time *)

HostAdvance(w, to) ==
    LET dead == {k \in DOMAIN w.states : w.states[k].due <= to}
    IN  [w EXCEPT !.tick = to, !.states = Drop(@, dead), !.rev = @ + Cardinality(dead)]

Execute(w, t, pay) ==
    LET c == t.id
        v == [w EXCEPT !.casts[c].pending = AtLeast0(@ - 1)]
        committed == CommitCast(v, c, pay)
    IN  CASE t.kind = "recharge" -> ExecuteAmmoRecharge(w, t)
          [] t.kind = "overlay"  -> ExpireAbilityOverlay(w, t)
          [] t.kind = "commit"   -> IF committed.err THEN FailedCast(committed, c) ELSE committed
          [] t.kind = "execute"  -> ExecuteCast([v EXCEPT !.casts[c].status = "running"], c)
          [] t.kind = "auto"     -> ReleaseCast(v, c)

Next_(w, to, pay) ==
    IF w.err \/ w.tasks = <<>> THEN w
    ELSE LET t == w.tasks[1]
             v == IF t.due > w.tick THEN HostAdvance(w, t.due) ELSE w
         IN  IF t.due > to THEN w ELSE Execute([v EXCEPT !.tasks = Tail(@)], t, pay)

(* An Advance stops at the first task that fails, and leaves the rest due. *)
AdvanceTo(w, to, pay) ==
    LET v == FoldLeft(LAMBDA u, i : Next_(u, to, pay), w, [i \in 1..(2 * Len(w.tasks) + 4) |-> i])
    IN  IF v.err \/ v.tick = to THEN v ELSE HostAdvance(v, to)

-----------------------------------------------------------------------------
(* Public calls *)

Fresh == [tick |-> 0, rev |-> 0, states |-> Nothing, stateSeq |-> 0,
          casts |-> Nothing, nextCast |-> 0, active |-> 0, completed |-> <<>>, tasks |-> <<>>,
          cooldowns |-> Nothing, ammo |-> Nothing, policies |-> Nothing,
          abilities |-> Nothing, byProgram |-> Nothing, nextHandle |-> 0, nextOverlay |-> 0,
          journal |-> <<>>, gone |-> <<>>, dirty |-> Clean, err |-> FALSE]

Init == /\ world = [x \in DOMAIN Fresh \cup {"baseline"} |-> IF x = "baseline" THEN Snapshot(Fresh) ELSE Fresh[x]]
        /\ past = Snapshot(Fresh)
        /\ changes = 0

(* The entries that leave the journal have been read by the consumer. *)
Becomes(w) == /\ world' = [w EXCEPT !.err = FALSE, !.gone = <<>>]
              /\ past' = Fold(past, w.gone)

(* A call returns after its writes are committed. *)
Returns(w) == Becomes(CommitWritePoints(PruneCompleted(w)))

HasOverlay(p) == Handle(world, p) # 0 /\ world.abilities[Handle(world, p)].overlays # Nothing
Busy == \E c \in DOMAIN world.casts : ~Ended(world.casts[c]) /\ ~world.casts[c].policy

Start(p) ==
    /\ world.active < MaxActiveCasts /\ world.nextCast < MaxCasts
    /\ ~HasOverlay(p)
    /\ Handle(world, p) = 0 => Cardinality(DOMAIN world.abilities) < MaxAbilities
    /\ \E pay \in BOOLEAN : Returns(IF Busy THEN EnsureAbility(world, p) ELSE StartCast(world, p, pay))
    /\ UNCHANGED changes

Interrupt(c) ==
    /\ ~Ended(world.casts[c])
    /\ LET v == CancelTasks(world, c)
           w == IF v.casts[c].policy THEN DropSlot(StartCooldown(v, c), c) ELSE v
       IN  Returns(MarkFinished([w EXCEPT !.casts[c].status = "finished"], c))
    /\ UNCHANGED changes

Advance ==
    /\ \E n \in 0..MaxStep, pay \in BOOLEAN :
         /\ n = 0 => world.tasks # <<>> /\ world.tasks[1].due <= world.tick
         /\ world.tick + n <= MaxTick
         /\ Returns(AdvanceTo(world, world.tick + n, pay))
    /\ UNCHANGED changes

Changing == changes < MaxChanges /\ changes' = changes + 1

RegisterAbility(p, h, stock) ==
    /\ Changing
    /\ p \notin DOMAIN world.byProgram /\ h \notin DOMAIN world.abilities
    /\ Cardinality(DOMAIN world.abilities) < MaxAbilities
    /\ Def[p].mode # "ammo" => stock = 0
    /\ LET w == WithAbility(world, h, NewAbility(p, stock))
           v == IF Def[p].mode = "ammo"
                THEN Touch([w EXCEPT !.ammo = Assign(@, p, NewAmmo(p, stock))], "resource", p) ELSE w
       IN  Returns([v EXCEPT !.nextHandle = IF h > @ THEN h ELSE @])

ModifyEnabled(h) ==
    /\ Changing
    /\ Returns(Disabled(world, h, Duration))

ModifyCooldown(h) ==
    /\ Changing
    /\ \E op \in Operation : Returns(CooldownSet(world, world.abilities[h].prog, op))

ModifyStock(h) ==
    /\ Changing
    /\ Def[world.abilities[h].prog].mode = "ammo"
    /\ \E op \in Operation : Returns(StockSet(world, h, op))

(* An extension of the host changes its states outside every call ... *)
ExternalChange(p) ==
    /\ Changing
    /\ Def[p].writes
    /\ Becomes(HostWrites(world, p))

(* ... and has them captured. *)
CaptureExternalState ==
    /\ Snapshot(world) # world.baseline
    /\ Becomes(CommitAll(PruneCompleted(world)))
    /\ UNCHANGED changes

-----------------------------------------------------------------------------
(* Checkpoint and restore *)

(* Delivery state, the journal, is not gameplay: it is not in the payload.  *)
CanCheckpoint == world.baseline = Snapshot(world)
Payload(w) == [w EXCEPT !.journal = <<>>, !.completed = <<>>, !.active = 0]

Ascending(ids) == SetToSortSeq(ids, <)

(* Seeded bug of Restored: the last overlay id is not restored. *)
RestoredOverlays(p) ==
    [p EXCEPT !.completed = Ascending({c \in DOMAIN p.casts : Ended(p.casts[c])}),
              !.active = Cardinality({c \in DOMAIN p.casts : ~Ended(p.casts[c])}),
              !.nextOverlay = 0]

(* What completed first is told by the ids, whatever the order was. *)
Restored(p) ==
    [p EXCEPT !.completed = Ascending({c \in DOMAIN p.casts : Ended(p.casts[c])}),
              !.active = Cardinality({c \in DOMAIN p.casts : ~Ended(p.casts[c])})]

ValidRecords(p) ==
    /\ \A c \in DOMAIN p.casts : c \in 1..p.nextCast
    /\ \A k \in DOMAIN p.ammo : p.ammo[k].stock \in 0..Def[k].maxStock
    /\ \A k \in DOMAIN p.policies : p.policies[k] \in DOMAIN p.casts
    /\ \A h \in DOMAIN p.abilities : \A id \in DOMAIN p.abilities[h].overlays : id \in 1..p.nextOverlay
    /\ \A k \in DOMAIN p.byProgram : p.byProgram[k] \in DOMAIN p.abilities
    /\ \A h \in DOMAIN p.abilities : Handle(p, p.abilities[h].prog) = h

ValidTasks(p) ==
    /\ \A i \in DOMAIN p.tasks : p.tasks[i].due >= p.tick
    /\ \A c \in DOMAIN p.casts :
         p.casts[c].pending = Len(SelectSeq(p.tasks, LAMBDA t : t.kind \in {"commit", "execute", "auto"} /\ t.id = c))

WithinLimits(p) ==
    /\ Restored(p).active <= MaxActiveCasts
    /\ Cardinality(DOMAIN p.abilities) <= MaxAbilities

RetainsCasts(p) == Len(Restored(p).completed) <= CompletedCastLimit

Accepts(p) == /\ ValidRecords(p)
              /\ ValidTasks(p)
              /\ WithinLimits(p)
              /\ p.baseline = Snapshot(Restored(p))

(* The process dies and the host comes back as it was at the checkpoint:    *)
(* whatever was done after it is gone, so this is the world at the time of  *)
(* the checkpoint, restored.  Consumers start over from a snapshot.         *)
Restore ==
    /\ Changing
    /\ CanCheckpoint
    /\ Accepts(Payload(world)) /\ RetainsCasts(Payload(world))
    /\ world' = Restored(Payload(world))
    /\ past' = Snapshot(world')

Next ==
    \/ \E p \in Program : Start(p) \/ ExternalChange(p)
    \/ \E p \in Program, r \in Registration : RegisterAbility(p, r[1], r[2])
    \/ \E c \in DOMAIN world.casts : Interrupt(c)
    \/ \E h \in DOMAIN world.abilities : ModifyEnabled(h) \/ ModifyCooldown(h) \/ ModifyStock(h)
    \/ Advance \/ CaptureExternalState \/ Restore

Spec == Init /\ [][Next]_vars

-----------------------------------------------------------------------------
(* Properties *)

(* Types, the bound of the journal, and the count of live casts.            *)
TypeOK ==
    /\ world.tick \in 0..MaxTick /\ world.nextCast \in 0..MaxCasts
    /\ world.active = Cardinality({c \in DOMAIN world.casts : ~Ended(world.casts[c])})
    /\ Len(world.journal) <= StateMutationLimit
    /\ world.dirty = Clean /\ world.gone = <<>>

(* The baseline kept key by key is the snapshot of the whole, whatever the  *)
(* calls wrote and however many ticks one commit spans: a write without its *)
(* record, or a derived field that is not aged, leaves them apart and no    *)
(* checkpoint can be taken again (commitStateMutationsLocked).  The host's  *)
(* states may differ until an external change is captured.                  *)
BaselineIsSnapshot ==
    LET now == Snapshot(world)
    IN  \A d \in DOMAIN now \ {"persistent", "rev"} : world.baseline[d] = now[d]

(* A consumer that folds what it is served holds the Runtime's state: the   *)
(* entries are the whole difference, and a cursor from which some of them   *)
(* are missing is told so (StateDeltas, ApplyStateMutation).                *)
ClientAgrees ==
    /\ Fold(past, world.journal) = world.baseline
    /\ \A behind \in 0..(StateMutationLimit + 1), limit \in {0, 1} :
         LET batch == StateDeltas(world, behind, limit)
             n == IF limit = 0 \/ behind < limit THEN behind ELSE limit
         IN  \/ batch.expired
             \/ behind <= Oldest(world)
                /\ batch.muts = SubSeq(world.journal, Oldest(world) - behind + 1, Oldest(world) - behind + n)

(* What an ability shows of its casts and its stock is what the Runtime     *)
(* decides by, after commits, recharges, changes and restores.              *)
AbilityMirrors ==
    \A h \in DOMAIN world.abilities :
      LET a == world.abilities[h]
      IN  /\ a.active = Cardinality({c \in DOMAIN world.casts : world.casts[c].ability = h /\ ~Ended(world.casts[c])})
          /\ a.prog \in DOMAIN world.ammo => a.stock = world.ammo[a.prog].stock

(* A disabled ability is enabled again when the caller asked: each overlay  *)
(* has one expiry task, of its own tick, also after a restore.              *)
OverlaysExpire ==
    \A h \in DOMAIN world.abilities : \A id \in DOMAIN world.abilities[h].overlays :
      Len(SelectSeq(world.tasks, LAMBDA t : t.kind = "overlay" /\ t.id = id
                                              /\ t.due = world.abilities[h].overlays[id])) = 1

(* RestoreRuntime accepts every checkpoint Checkpoint returns, but for the  *)
(* number of ended casts in it.                                             *)
CheckpointIsValid == CanCheckpoint => Accepts(Payload(world))

(* CompletedCastLimit bounds the ended casts that nothing refers to         *)
(* (runtime.go:48), between any two calls.  It does not: one that failed    *)
(* before its commit is never tracked, and a restore counts it.             *)
EndedCastsAreBounded ==
    Cardinality({c \in DOMAIN world.casts : Ended(world.casts[c]) /\ world.casts[c].pending = 0
                                              /\ ~world.casts[c].policy}) <= CompletedCastLimit

(* The state of an ability never goes its own way. *)
AbilitiesFollow == AbilityMirrors /\ OverlaysExpire

(* A checkpoint taken between any two calls is good. *)
CheckpointIsSound == TypeOK /\ CheckpointIsValid
=============================================================================
