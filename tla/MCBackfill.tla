------------------------------ MODULE MCBackfill ------------------------------
(* A row of the platform itself, which enables the legacy flow as well; one *)
(* request, one worker tick at a time, the script.                         *)
EXTENDS Backfill

CONSTANTS a, server, q1, t1

MCWallet == [id \in Ids |-> server]
=============================================================================
