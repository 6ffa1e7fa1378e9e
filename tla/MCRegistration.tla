---------------------------- MODULE MCRegistration ----------------------------
(* The row of a publisher, who is not the platform. *)
EXTENDS Registration, TLC

CONSTANTS a, alice, server, q1, q2, t1, t2

MCWallet == [id \in Ids |-> alice]

Symmetry == Permutations(Requests) \cup Permutations(Ticks)
=============================================================================
