----------------------------- MODULE MCEventSync ------------------------------
(* One resource; it is registered, changed and handed over. *)
EXTENDS EventSync

CONSTANTS x, alice

MCOwner == [id \in Ids |-> alice]
=============================================================================
