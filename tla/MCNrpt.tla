------------------------------- MODULE MCNrpt -------------------------------
(* Connections and namespaces for TLC: the catch-all, a domain, and the    *)
(* reverse zone of one connection's subnet.  They never differ in case only, *)
(* so that each has a rule of its own.                                     *)
EXTENDS Nrpt, TLC

CONSTANTS A, B, t1, t2, dot, corp, zone

Itself == [n \in {dot, corp, zone} |-> n]

For(c, w, z) == [conn |-> c, wanted |-> w, zones |-> z]

(* A's profile has no domain and gives two zones; B has the catch-all now  *)
(* and a domain then.  One request at a time, and anything may go wrong.   *)
Troubled ==
    [crew |-> {t1}, upsets |-> Upsets, claims |-> {{}, {dot}},
     asks |-> {For(A, dot, {zone, corp}), For(B, dot, {}), For(B, corp, {})}]

Undisturbed == [Troubled EXCEPT !.upsets = {}]

(* Every profile asks for one namespace of its own, always the same one.   *)
Crowded ==
    [crew |-> {t1, t2}, upsets |-> {}, claims |-> {{}},
     asks |-> {For(A, corp, {}), For(B, dot, {})}]

AllSettings == {Troubled, Undisturbed, Crowded}
=============================================================================
