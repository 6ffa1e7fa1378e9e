---------------------------- MODULE MCVaultStorage ---------------------------
(* A small instance of the contract and its rent for TLC. *)
EXTENDS VaultStorage, TLC

Symmetry == Permutations(Accounts) \cup Permutations(Ids)
=============================================================================
