---------------------------- MODULE MCFlatPtrMap ----------------------------
(* Small tables of FlatPtrMap.                                              *)
EXTENDS FlatPtrMap, TLC

CONSTANTS k1, k2, k3, k4

\* Two chains, one of which wraps around the end of the table.
Chains == k1 :> 7 @@ k2 :> 7 @@ k3 :> 15 @@ k4 :> 8

=============================================================================
