------------------------------ MODULE MCValues ------------------------------
(***************************************************************************)
(* The places of a program and the values written there: everything that   *)
(* can be named, a field of everything, literals at both ends, reads of    *)
(* attributes, states and abilities, and operators over them.              *)
(***************************************************************************)
EXTENDS Expressions

Ref(root, field) == [k |-> "ref", root |-> root, field |-> field, kind |-> ""]
Lit(n) == [k |-> "int", n |-> n, q |-> ""]
Str(n) == [k |-> "string", n |-> n]
Attr(of, at) == [k |-> "attribute", of |-> of, at |-> at]
Op(op, args) == [k |-> "op", op |-> op, q |-> "", args |-> args]

MCMemory == [score |-> Number("none"), count |-> Maybe(Number("none")), mark |-> Maybe(Of("entity"))]
MCState == [combo |-> Number("none"), prey |-> Maybe(Of("entity"))]

Site0 == [guard |-> <<>>, element |-> "none", layout |-> "none", branch |-> "success", dynamic |-> Of("bool"), mode |-> "tap",
          callback |-> "none"]
MCFragment ==
    {[Site0 EXCEPT !.mode = m] : m \in {"charge", "ammo"}}
    \cup {[Site0 EXCEPT !.guard = g] : g \in {<<"primary_target", "">>, <<"primary_target", "position">>, <<"mark", "">>, <<"count", "">>}}
    \cup {[Site0 EXCEPT !.element = e] : e \in {"entity", "hit", "ability"}}
    \cup {[Site0 EXCEPT !.callback = c] : c \in {"area", "motion"}}
    \cup {[Site0 EXCEPT !.layout = l, !.branch = b] : b \in {"success", "failure"},
              l \in {"damage", "heal", "shield", "teleport", "status", "modifier", "spawn", "command", "capture", "restore"}}
    \cup {[Site0 EXCEPT !.layout = l, !.branch = b, !.dynamic = d] : b \in {"success", "failure"}, l \in {"state", "ability"},
              d \in {Number("count"), Maybe(Of("entity"))}}

Points == {"cast_start", "phase_start", "current"}

(* Everything in the scope of a place, a field of everything, and something *)
(* that is not in scope.                                                   *)
Names(f) == {r \in DOMAIN Scope[f] : r[1] \notin {"mode", "self", "elapsed"} \/ f.mode = "ammo"}
            \cup {<<r[1], x>> : r \in {q \in DOMAIN Scope[f] : Scope[f][q].base \in {"entity", "hit"}}, x \in {"position", "entity"}}
            \cup (IF f.layout = "none" THEN {} ELSE {<<"result", n>> : n \in DOMAIN Layout(f)})
            \cup {<<"local", "">>}
Literals == {Lit(0), Lit(Top), Str(6), Str(2), [k |-> "bool", n |-> 1], [k |-> "null"]}
Refs(f) == {Ref(r[1], r[2]) : r \in Names(f)}
Reads(f) == {Attr(r, p) : r \in {x \in Refs(f) : x.field = "" /\ x.root \in {"caster", "primary_target", "mark", "local", "owner", "event_source"}}, p \in Points}
            \cup {[k |-> "state", name |-> s, of |-> Ref("caster", "")] : s \in DOMAIN State}
            \cup {[k |-> "ability", name |-> p, of |-> r, ability |-> Ref("self", "")] :
                     p \in DOMAIN Property, r \in {Ref("caster", ""), Ref("primary_target", "")}}
Atoms(f) == Literals \cup Refs(f) \cup (IF f.layout = "none" THEN Reads(f) ELSE {})
Few(f) == {Lit(2), Ref("score", ""), Ref("count", ""), Ref("charge_bp", "")}
Nested(f) == {Op("exists", <<r>>) : r \in Refs(f)} \cup {Op("add", <<Ref("count", ""), Lit(1)>>), Op("add", <<Ref("score", ""), Lit(Top)>>),
              Op("scale_bp", <<Attr(Ref("caster", ""), "cast_start"), Ref("charge_bp", "")>>), Op("lt", <<Ref("score", ""), Lit(2)>>)}
Values(f) == IF f.layout = "none" THEN Atoms(f) ELSE Literals \cup {r \in Refs(f) : r.root = "result"}
Sums(f) == {Op(o, <<a, b>>) : o \in {"add", "div", "scale_bp"}, a \in Values(f), b \in Values(f)}
Tests(f) == {Op(o, <<a, b>>) : o \in {"eq", "lt"}, a \in Values(f), b \in Values(f)}
            \cup {Op(o, <<a>>) : o \in {"exists", "not"}, a \in Values(f)}
Deeper(f) == {Op(o, <<a, b>>) : o \in {"and", "or", "gte"}, a \in Nested(f), b \in Few(f) \cup Nested(f)}
             \cup {Op("exists", <<a>>) : a \in Nested(f)}
Larger(f) == {Op(o, <<a, b>>) : o \in {"sub", "mul", "max", "add"}, a \in Nested(f), b \in Few(f) \cup Nested(f)}
             \cup {Op("clamp", <<a, b, Lit(1)>>) : a \in Few(f), b \in Few(f)}
MCWritten(f) ==
    Atoms(f) \X DOMAIN Want
    \cup Sums(f) \X {"amount", "score", "property"}
    \cup Tests(f) \X {"condition"}
    \cup IF f.layout # "none" THEN {} ELSE Deeper(f) \X {"condition"} \cup Larger(f) \X {"amount", "score"}
=============================================================================
