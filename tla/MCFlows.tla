------------------------------ MODULE MCFlows ------------------------------
(***************************************************************************)
(* The programs the flows are checked over: small flows put into every     *)
(* construct and in front of or behind another, a flow after a memory was  *)
(* set, and three phases that jump.  A job is one case; the seed it starts *)
(* from only splits the enumeration.                                       *)
(***************************************************************************)
EXTENDS Flows

VARIABLE job

Act(id) == [op |-> "effect", id |-> id, reads |-> {}, outcome |-> "none", success |-> Nop, failure |-> Nop]
Read(id) == [Act(id) EXCEPT !.reads = {"m"}]
Eff(id, o, f, g) == [Act(id) EXCEPT !.outcome = o, !.success = f, !.failure = g]
Mem(how) == [op |-> "memory", operation |-> how, name |-> "m"]
Finish == [op |-> "finish"]
Goto(p) == [op |-> "goto", phase |-> p]
Seq2(f, g) == [op |-> "sequence", steps |-> <<f, g>>]
Par(f, g) == [op |-> "parallel", branches |-> <<f, g>>]
Wait(n, f) == [op |-> "wait", ticks |-> n, then |-> f]
If(on, name, f, g) == [op |-> "if", on |-> on, name |-> name, then |-> f, else |-> g]
Rep(n, every, f, literal, i) ==
    [op |-> "repeat", times |-> n, interval |-> every, literal |-> literal, index |-> i, body |-> f]
Sel(as, one, limit, found, f, g) ==
    [op |-> "select", as |-> as, one |-> one, limit |-> limit, found |-> found, body |-> f, empty |-> g]

(* No two effects of a program have the same name. *)
Leaves(id) == {Act(id), Read(id), Mem("set"), Finish}
Small(id) == Leaves(id) \cup {Mem("clear"), Mem("add"), Nop}
    \cup {Wait(1, f) : f \in Leaves(id)}
    \cup {Rep(n, 1, f, TRUE, "i") : n \in {0, 2}, f \in Leaves(id)}
    \cup {If(on, "m", f, g) : on \in {"exists", "yes"}, f \in {Read(id), Finish}, g \in {Nop, Finish, Mem("set")}}
    \cup {Sel("e", FALSE, 2, n, f, Nop) : n \in {0, 3}, f \in {Act(id), Mem("set"), Finish, Wait(1, Finish)}}
    \cup {Eff(id, o, f, Finish) : o \in {"succeeds", "fails"}, f \in {Read("r"), Finish, Wait(1, Act("r"))}}
Around(f) ==
    {f, Wait(2, f), Rep(3, 0, f, TRUE, "j"), Rep(2, 2, f, TRUE, "j"), Rep(2, 0, f, FALSE, "j"),
     Par(f, Wait(1, Act("x"))), Par(Act("y"), f), Sel("t", TRUE, 1, 1, f, Act("z")), Sel("t", FALSE, 2, 2, f, Finish),
     Rep(2, 1, If("later", "j", f, Act("l")), TRUE, "j"), If("exists", "m", f, Finish), Eff("s", "succeeds", f, Nop)}
Touches(id) == {Read(id), Mem("clear"), Mem("add"), Mem("set")}
Jumps == {Goto(1), Goto(2), Goto(3), Finish, Wait(1, Goto(3)), Seq2(Par(Wait(1, Act("p")), Act("q")), Goto(2)),
          If("yes", "m", Goto(2), Goto(3)), Eff("e", "fails", Goto(3), Goto(2)), Seq2(Wait(1, Act("a")), Wait(1, Goto(1)))}

Phase(f) == [enter |-> f, timeout |-> 0]
Tap(flows) == [mode |-> "tap", defaults |-> {}, phases |-> [i \in DOMAIN flows |-> Phase(flows[i])]]

(* The programs of a seed. *)
Programs(f) ==
    {Tap(<<Seq2(w, Seq2(g, Finish))>>) : w \in Around(f), g \in Small("b")}
    \cup {Tap(<<Seq2(g, w)>>) : w \in Around(f), g \in Small("b")}
Guarded(f) == {Tap(<<Seq2(Mem("set"), Seq2(w, Finish))>>) : w \in UNION {Around(Seq2(f, g)) : g \in Touches("u")}}
Phases(f) == {Tap(<<f, g, h>>) : g, h \in Jumps}

FlowSeeds == {[kind |-> "around", flow |-> f] : f \in Small("a")}
             \cup {[kind |-> "guarded", flow |-> f] : f \in Touches("r")}
             \cup {[kind |-> "phases", flow |-> f] : f \in Jumps}
FlowCases == CASE job.kind = "around" -> Programs(job.flow)
               [] job.kind = "guarded" -> Guarded(job.flow)
               [] job.kind = "phases" -> Phases(job.flow)

FlowInit == job \in FlowSeeds
FlowNext == /\ job.kind \in {"around", "guarded", "phases"}
            /\ \E p \in FlowCases : job' = [kind |-> "program", program |-> p]
FlowSpec == FlowInit /\ [][FlowNext]_job

(* What the README says of every flow the compiler accepts (README.md:301): *)
(* no memory is read before something has set it.                           *)
AcceptedReadsAreInitialized == job.kind = "program" => ReadsAreInitialized(job.program)
=============================================================================
