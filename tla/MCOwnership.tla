----------------------------- MODULE MCOwnership ------------------------------
(* One resource; its publisher, and the platform as the other account. *)
EXTENDS Ownership

CONSTANTS x, alice, server, t1

MCOwner == [id \in Ids |-> alice]
=============================================================================
