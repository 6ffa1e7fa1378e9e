----------------------------- MODULE MCRequests -----------------------------
(* Requests from one address, of two wallets; both limits can be reached. *)
EXTENDS Requests
CONSTANTS q1, q2, q3, A, B

MCLimiter == {"ip", A, B}
MCLimitOf == [l \in MCLimiter |-> IF l = "ip" THEN 2 ELSE 1]
MCAsked == [q \in Request |-> <<"ip", IF q = q3 THEN B ELSE A>>]
=============================================================================
