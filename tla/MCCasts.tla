------------------------------ MODULE MCCasts ------------------------------
(***************************************************************************)
(* Five small programs, one for each policy; and apart from them, in       *)
(* behaviors of their own, the values a program is written with: "job" is  *)
(* one value, or none when the behavior is about casts.                    *)
(***************************************************************************)
EXTENDS Casts, MCValues

CONSTANTS bolt, vent, beam, aura, orb, gcd

Do(then) == [fork |-> FALSE, then |-> then]
Fork(then) == [fork |-> TRUE, then |-> then]

Ends == {Do("finish"), Do("error")}
Flows(enter, release, pulse) ==
    [enter |-> enter, release |-> release, pulse |-> pulse, cancel |-> {Fork("through"), Do("error")},
     input |-> {Do("through"), Do("goto")}, tail |-> {Do("finish")}, branch |-> {Do("through"), Do("error")},
     second |-> Ends]
Nothing == {Do("through")}

Plain == [mode |-> "tap", concurrent |-> FALSE, refund |-> FALSE, cost |-> TRUE, sustain |-> FALSE,
          ports |-> FALSE, autoRelease |-> FALSE, windup |-> 2, commit |-> 2, recovery |-> 1,
          cooldown |-> 3, global |-> 1, pulse |-> 0, maxTicks |-> 0, minCharge |-> 0,
          maxStock |-> 0, initialStock |-> 0, recharge |-> 0,
          flow |-> Flows({Fork("finish"), Do("goto"), Do("wait"), Do("error")}, Nothing, Nothing)]

Vent == [Plain EXCEPT !.mode = "ammo", !.refund = TRUE, !.windup = 1, !.commit = 0, !.cooldown = 0,
                      !.global = 0, !.maxStock = 2, !.initialStock = 2, !.recharge = 2,
                      !.flow = Flows(Ends, Nothing, Nothing)]
Beam == [Plain EXCEPT !.mode = "hold", !.concurrent = TRUE, !.cost = FALSE, !.sustain = TRUE, !.ports = TRUE,
                      !.windup = 1, !.commit = 1, !.recovery = 0, !.cooldown = 1, !.global = 0,
                      !.pulse = 1, !.maxTicks = 4,
                      !.flow = Flows(Nothing, {Do("finish"), Fork("goto")}, {Do("through"), Fork("through"), Do("error")})]
Aura == [Beam EXCEPT !.mode = "toggle", !.windup = 0, !.commit = 0, !.recovery = 1, !.ports = FALSE, !.pulse = 2, !.maxTicks = 3,
                     !.flow = Flows(Nothing, {Do("wait")}, {Do("through"), Do("goto")})]
Orb == [Plain EXCEPT !.mode = "charge", !.maxTicks = 2, !.minCharge = 1, !.autoRelease = TRUE,
                     !.windup = 1, !.commit = 0, !.cooldown = 1,
                     !.flow = Flows(Nothing, Ends, Nothing)]

MCDef == bolt :> Plain @@ vent :> Vent @@ beam :> Beam @@ aura :> Aura @@ orb :> Orb
MCProgram == {bolt, vent, beam, aura, orb}

NoJob == [stage |-> "none"]
MCInit == Init /\ (job = NoJob \/ JobInit)
MCNext == \/ job = NoJob /\ Next /\ UNCHANGED job
          \/ job # NoJob /\ JobNext /\ UNCHANGED vars
          \/ job # NoJob /\ UNCHANGED <<vars, job>>   \* a value has no last step
MCSpec == /\ MCInit /\ [][MCNext]_<<vars, job>>
          /\ Progress
=============================================================================
