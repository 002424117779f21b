--------------------------- MODULE NumericTracks ---------------------------
(***************************************************************************)
(* The numeric properties of a process: the value bound to a slot of its   *)
(* motion, clamped by its policy, and the track that moves it linearly to  *)
(* a target.  A track is sampled at the tick, a new one starts from the    *)
(* value that was last sampled.                                            *)
(***************************************************************************)
EXTENDS FixedPoint, Sequences, FiniteSets

NoTrack == [start |-> 0, target |-> 0, since |-> 0, over |-> 0, on |-> FALSE]

Clamp(v, policy) == IF v < policy.minimum THEN policy.minimum ELSE IF v > policy.maximum THEN policy.maximum ELSE v

(* The slots of the motion a policy names; the first one gives the value   *)
(* a property starts from, and only a single one is bound by a track.      *)
Slots(motion, policy) == SelectSeq(policy.slots, LAMBDA s : s \in DOMAIN motion)
BaseOf(motion, policy) ==
    IF Slots(motion, policy) = <<>> \/ motion[Slots(motion, policy)[1]] = None THEN 0
    ELSE motion[Slots(motion, policy)[1]]
BoundTo(motion, policy) ==
    IF Len(Slots(motion, policy)) = 1 THEN Slots(motion, policy)[1] ELSE "unbound"

(* The value at a tick, None when the way is too long for the arithmetic.  *)
Sample(track, tick) ==
    LET way == CheckedSub(track.target, track.start)
        scaled == IF way = None THEN None ELSE CheckedMul(way, tick - track.since)
    IN  IF track.over <= 0 \/ tick - track.since >= track.over THEN [value |-> track.target, complete |-> TRUE]
        ELSE [complete |-> FALSE,
              value |-> IF tick <= track.since THEN track.start
                        ELSE IF scaled = None THEN None ELSE CheckedAdd(track.start, Quot(scaled, track.over))]

(* A property at a tick; an overflow fails the process's step.             *)
AdvanceTrack(p, policy, tick) ==
    LET s == Sample(p.track, tick)
    IN  IF ~p.track.on THEN p
        ELSE IF s.value = None THEN [p EXCEPT !.failed = TRUE]
             ELSE [p EXCEPT !.current = Clamp(s.value, policy), !.track = IF s.complete THEN NoTrack ELSE @]

Target(p, operation, operand) ==
    CASE operation = "set" -> operand
      [] operation = "add" -> CheckedAdd(p.current, operand)
      [] operation = "mul_bp" -> IF CheckedMul(p.current, operand) = None THEN None
                                 ELSE Quot(CheckedMul(p.current, operand), Scale)

(* modify_process and the tracks a template starts with: nothing moves     *)
(* until the next step samples the track.                                  *)
Replace(p, policy, motion, operation, operand, over, tick) ==
    LET target == Target(p, operation, operand)
    IN  IF p.failed \/ target = None \/ over < 0 THEN [p EXCEPT !.failed = TRUE]
        ELSE [p EXCEPT !.bound = BoundTo(motion, policy),
                       !.track = [start |-> p.current, target |-> Clamp(target, policy), since |-> tick,
                                  over |-> over, on |-> TRUE]]

NewProperty(motion, policy) ==
    [current |-> Clamp(BaseOf(motion, policy), policy), track |-> NoTrack, bound |-> "unbound",
     failed |-> Slots(motion, policy) = <<>>]

-----------------------------------------------------------------------------
(* A process that steps every tick, with a first track at 0 and a second   *)
(* that replaces it.                                                       *)

Course(motion, policy, first, second, at, until) ==
    LET value[t \in 0..until] ==
            LET before == IF t = 0 THEN Replace(NewProperty(motion, policy), policy, motion, first[1], first[2], first[3], 0)
                          ELSE value[t - 1]
                stepped == IF before.failed THEN before ELSE AdvanceTrack(before, policy, t)
            IN  IF t = at /\ ~stepped.failed
                THEN Replace(stepped, policy, motion, second[1], second[2], second[3], t) ELSE stepped
    IN  value

(* From one tick to the next the value keeps to the track before it. *)
Follows(before, current, t) ==
    LET track == before.track
        way == AbsOf(track.target - track.start)
        gone == AbsOf(current - track.start)
        elapsed == t - track.since
    IN  /\ ~track.on => current = before.current
        /\ track.on =>
             /\ gone + AbsOf(track.target - current) = way
             /\ elapsed >= track.over => current = track.target
             /\ elapsed < track.over => /\ gone * track.over <= way * elapsed
                                         /\ way * elapsed < (gone + 1) * track.over

(* A moving property stays within its policy and moves one way, never past *)
(* its target nor faster than its slope, reaches the target exactly when   *)
(* the track ends, and a replacement does not make it jump.                *)
TracksAreLinear(motion, policy, first, second, at, until) ==
    \A c \in {Course(motion, policy, first, second, at, until)} :
      \A t \in {n \in 0..until : ~c[n].failed} :
          /\ policy.minimum <= c[t].current /\ c[t].current <= policy.maximum
          /\ c[t].bound = BoundTo(motion, policy)
          /\ t > 0 => Follows(c[t - 1], c[t].current, t)
=============================================================================
