----------------------------- MODULE Mutations -----------------------------
(***************************************************************************)
(* The published state of a Runtime as a consumer sees it: a snapshot, the *)
(* mutations that lead from one snapshot to a later one, and the fold by   *)
(* which a consumer applies them to its copy.                              *)
(*                                                                         *)
(* A snapshot has a tick, the host's revision (which stands for all other  *)
(* stamps of a mutation), and for each domain a function from keys to      *)
(* records.  The "prog" of an ability is the key of its cooldown.          *)
(***************************************************************************)
EXTENDS Integers, Sequences, FiniteSets, SequencesExt, FiniteSetsExt

Nothing == <<>>   \* the empty function

Assign(f, k, v) == [x \in DOMAIN f \cup {k} |-> IF x = k THEN v ELSE f[x]]
Drop(f, ks) == [x \in DOMAIN f \ ks |-> f[x]]
Only(f, ks) == [x \in DOMAIN f \cap ks |-> f[x]]
AtLeast0(n) == IF n > 0 THEN n ELSE 0

-----------------------------------------------------------------------------
(* Mutations: what differs between two snapshots, in the order of the kinds *)

Domains == <<"ability", "cast", "clock", "cooldown", "persistent", "policy", "process", "resource">>

IgnoringClock(d, v) ==
    CASE d = "cast" -> [v EXCEPT !.elapsed = 0]
      [] d \in {"ability", "cooldown"} -> [v EXCEPT !.left = 0]
      [] OTHER -> v

Diff(d, before, after) ==
    {[kind |-> d, op |-> "upsert", key |-> k, val |-> after[k]] :
       k \in {x \in DOMAIN after : x \in DOMAIN before => IgnoringClock(d, before[x]) # IgnoringClock(d, after[x])}}
    \cup {[kind |-> d, op |-> "remove", key |-> k, val |-> Nothing] : k \in DOMAIN before \ DOMAIN after}

ClockDiff(before, after) ==
    IF <<before.tick, before.rev>> = <<after.tick, after.rev>> THEN {}
    ELSE {[kind |-> "clock", op |-> "upsert", key |-> 0, val |-> Nothing]}

(* diff: for each domain, its mutations. *)
InOrder(diff) ==
    LET of(d, op) == SetToSeq({m \in diff[d] : m.op = op})
        sorted == SelectSeq(Domains, LAMBDA d : d \in DOMAIN diff)
    IN  FlattenSeq([i \in DOMAIN sorted |-> of(sorted[i], "remove") \o of(sorted[i], "upsert")])

DiffRuntimeState(before, after) ==
    [d \in DOMAIN after \ {"tick", "rev"} |-> Diff(d, before[d], after[d])] @@ ("clock" :> ClockDiff(before, after))

-----------------------------------------------------------------------------
(* The consumer *)

(* Seeded bug of RecomputeClock: what is left of a cooldown is derived for  *)
(* the cooldowns, not for the abilities.                                    *)
RecomputeCooldowns(s) ==
    [s EXCEPT !.cast = [c \in DOMAIN @ |-> [@[c] EXCEPT !.elapsed = AtLeast0(s.tick - s.cast[c].start)]],
              !.cooldown = [p \in DOMAIN @ |-> [@[p] EXCEPT !.left = AtLeast0(s.cooldown[p].due - s.tick)]]]

RecomputeClock(s) ==
    LET cds == [p \in DOMAIN s.cooldown |-> [s.cooldown[p] EXCEPT !.left = AtLeast0(s.cooldown[p].due - s.tick)]]
    IN  [s EXCEPT !.cast = [c \in DOMAIN @ |-> [@[c] EXCEPT !.elapsed = AtLeast0(s.tick - s.cast[c].start)]],
                  !.cooldown = cds,
                  !.ability = [h \in DOMAIN @ |->
                      [@[h] EXCEPT !.left = IF s.ability[h].prog \in DOMAIN cds THEN cds[s.ability[h].prog].left ELSE 0]]]

SetLeft(s, p, left) ==
    [s EXCEPT !.ability = [h \in DOMAIN @ |-> IF @[h].prog = p THEN [@[h] EXCEPT !.left = left] ELSE @[h]]]

ApplyStateMutation(snap, m) ==
    LET s == [snap EXCEPT !.tick = m.tick, !.rev = m.rev]
        d == m.kind
        v == IF m.op = "remove" THEN [s EXCEPT ![d] = Drop(@, {m.key})]
             ELSE [s EXCEPT ![d] = Assign(@, m.key, m.val)]
    IN  IF d = "clock" THEN RecomputeClock(s)
        ELSE IF d = "cooldown" THEN SetLeft(v, m.key, IF m.op = "remove" THEN 0 ELSE m.val.left)
        ELSE v

Fold(snap, muts) == FoldLeft(ApplyStateMutation, snap, muts)
=============================================================================
