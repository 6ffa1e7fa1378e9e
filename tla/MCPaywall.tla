------------------------------ MODULE MCPaywall -------------------------------
(* Two prices, two owners, two requests at a time. *)
EXTENDS Paywall, TLC

Symmetry == Permutations(Buyers) \cup Permutations(Wallets) \cup Permutations(Prices)
=============================================================================
