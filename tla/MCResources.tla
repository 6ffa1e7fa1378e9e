----------------------------- MODULE MCResources ----------------------------
(* The parts of a resource's life, each explored alone: its publisher      *)
(* retries the publish while someone else publishes a link under the same  *)
(* key; or it is uploaded, verified, listed by verdicts and events, and    *)
(* delisted; or, once published, it is also searched for; or it is sold,   *)
(* transferred and counted in its publisher's earnings.                    *)
EXTENDS Publishing, Catalog, Sales, TLC
CONSTANTS A, B, k, b1

VARIABLE half

Init ==
  /\ half \in {"publishing", "rows", "catalog", "sales"}
  /\ PublishingInit /\ CatalogInit /\ SalesInit
  /\ half = "rows" \/ \A r \in Resource : upload[r] = "published"

(* All verdicts, and neither searches nor time; or one verdict, and both. *)
CatalogHalf ==
  /\ half \in {"rows", "catalog"}
  /\ CatalogNext
  /\ IF half = "rows"
     THEN UNCHANGED query /\ Len(past') = 1
     ELSE Cardinality({v \in Verification : verdict'[v] # Nothing}) <= 1

Next ==
  \/ half = "publishing" /\ PublishingNext /\ UNCHANGED <<catalogVars, salesVars, half>>
  \/ CatalogHalf /\ UNCHANGED <<publishingVars, salesVars, half>>
  \/ half = "sales" /\ SalesNext /\ UNCHANGED <<publishingVars, catalogVars, half>>

Spec == Init /\ [][Next]_<<publishingVars, catalogVars, salesVars, half>>

MCPubOf == [q \in Request |-> IF q = b1 THEN B ELSE A]
MCKeyOf == [q \in Request |-> k]
MCKindOf == [q \in Request |-> IF q = b1 THEN "link" ELSE "file"]

(* Values that no part tells apart: the parts share them. *)
Interchangeable ==
  Permutations(Request \ {b1}) \cup Permutations(Verification) \cup Permutations(Query)
=============================================================================
