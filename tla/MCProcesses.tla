------------------------------ MODULE MCProcesses ------------------------------
(* Four templates: an arrow that may be reflected, a boomerang that carries its
   caster, an aura that may finish its cast when somebody leaves it, and a totem. *)
EXTENDS Processes

Plain == [motion |-> "none", area |-> FALSE, emitLeave |-> FALSE, carry |-> FALSE,
          duration |-> 1, interval |-> 1, span |-> 1, life |-> 2, perOwner |-> 2,
          policy |-> "reject_new", despawn |-> TRUE, on |-> {"end", "cancel"}, finish |-> {}]

MCTarget == {1}
MCTmpl ==
    [boomerang |-> [Plain EXCEPT !.motion = "boomerang", !.carry = TRUE, !.life = 4,
                                 !.policy = "replace_oldest", !.perOwner = 1],
     aura |-> [Plain EXCEPT !.area = TRUE, !.emitLeave = TRUE, !.duration = 2, !.on = {"enter", "leave"},
                            !.policy = "replace_newest", !.despawn = FALSE],
     trap |-> [Plain EXCEPT !.motion = "reflect", !.area = TRUE, !.on = {"enter", "end"}, !.finish = {"enter"}]]
MCTemplate == DOMAIN MCTmpl
=============================================================================
