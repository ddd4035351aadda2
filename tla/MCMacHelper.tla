---------------------------- MODULE MCMacHelper ----------------------------
(* Two connections, two domains, two charons and one SSL tunnel; the names  *)
(* of a kind are interchangeable.                                           *)
EXTENDS MacHelper, TLC

Interchangeable ==
    Permutations(Conns) \cup Permutations(Domains) \cup Permutations(Charons)
=============================================================================
