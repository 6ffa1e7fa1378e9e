------------------------------- MODULE MCLeases --------------------------------
(* One tier of one tick, a purchase, a read and a revocation at a time. *)
EXTENDS Leases, TLC

CONSTANT tier

MCLength == [t \in Tiers |-> 1]
MCMultiplier == [t \in Tiers |-> 3]

Symmetry == Permutations(Leases)
=============================================================================
