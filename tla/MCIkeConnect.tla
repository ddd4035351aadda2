---------------------------- MODULE MCIkeConnect ----------------------------
(* Profiles and circumstances for TLC: a split profile of two networks,    *)
(* which states IKEv2, and two full tunnels, which state IKEv1.            *)
EXTENDS IkeConnect, TLC

CONSTANTS A, F, G, n1, n2, all, j1, j2

NetsOf == (A :> {n1, n2}) @@ (F :> {all}) @@ (G :> {all})
StatedOf == (A :> 2) @@ (F :> 1) @@ (G :> 1)

(* Networks and logins are refused, tunnels are lost.                      *)
Troubled == [users |-> {A}, upsets |-> {"drops", "refuses", "typos"}]

(* The gateway is upgraded or replaced.                                    *)
Fickle == [users |-> {A}, upsets |-> {"changes", "typos"}]

(* Learned versions grow old.  A tick is a file reaching its TTL.          *)
Ageing == [users |-> {F}, upsets |-> {"time", "drops"}]

(* charon dies or redials by itself, requests fail.                        *)
Flaky == [users |-> {F}, upsets |-> {"fails", "dies", "drops", "redials"}]

(* Requests fail half way through a command, and nothing is lost meanwhile. *)
Failing == [users |-> {A}, upsets |-> {"fails", "refuses"}]

(* DNS cannot be changed.                                                  *)
Unresolved == [users |-> {F}, upsets |-> {"unresolved", "drops"}]

(* The button is pressed again before a connect has ended.                 *)
Impatient == [users |-> {F}, upsets |-> {"cancel"}]

(* Two full tunnels, one command at a time.                                *)
Serial == [users |-> {F, G}, upsets |-> {"drops"}]

(* Two profiles' commands at once.                                         *)
Crowded == [users |-> {A, F}, upsets |-> {"parallel"}]

AllSettings == {Troubled, Fickle, Ageing, Flaky, Failing, Unresolved, Impatient,
                Serial, Crowded}
=============================================================================
