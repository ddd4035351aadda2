------------------------------ MODULE SlotPool ------------------------------
(***************************************************************************)
(* What the broker promises of its adapter slots, whatever its handler     *)
(* threads do: a slot has at most one owner, an owner at most one slot, a  *)
(* newcomer is given the lowest slot nobody owns, and an owned slot        *)
(* changes hands only by being handed over or given up (supervisor.rs,     *)
(* SslRegistry).                                                           *)
(***************************************************************************)
EXTENDS Naturals

CONSTANTS Slots, Owners, Nobody

VARIABLE owner   \* who owns each slot

Owning == {owner[s] : s \in Slots} \ {Nobody}

PoolInit == owner = [s \in Slots |-> Nobody]

Grant(h) ==
    /\ h \notin Owning
    /\ \E s \in Slots :
         /\ owner[s] = Nobody
         /\ \A r \in Slots : r < s => owner[r] # Nobody
         /\ owner' = [owner EXCEPT ![s] = h]

HandOver(h, k) ==
    /\ k \notin Owning
    /\ \E s \in Slots :
         /\ owner[s] = h
         /\ owner' = [owner EXCEPT ![s] = k]

GiveUp(S) ==
    /\ S # {}
    /\ \A s \in S : owner[s] # Nobody
    /\ owner' = [s \in Slots |-> IF s \in S THEN Nobody ELSE owner[s]]

PoolNext ==
    \/ \E h \in Owners : Grant(h)
    \/ \E h, k \in Owners : HandOver(h, k)
    \/ \E S \in SUBSET Slots : GiveUp(S)

PoolSpec == PoolInit /\ [][PoolNext]_owner
=============================================================================
