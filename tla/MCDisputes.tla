------------------------------ MODULE MCDisputes ------------------------------
EXTENDS Disputes, TLC

Symmetry ==
  Permutations(Filers) \cup Permutations(Rulers) \cup Permutations(Rows)
=============================================================================
