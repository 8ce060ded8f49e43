----------------------- MODULE MCStockReconciliation -----------------------
(* Small instances of StockReconciliation for TLC. *)
EXTENDS StockReconciliation, TLC

CONSTANTS desk, lamp

(* One tuple has stock and a row, the other has never been posted to.      *)
MCStocked == {desk}
MCOpening == (desk :> 2) @@ (lamp :> 0)

Symmetry == Permutations(Api) \cup Permutations(Web) \cup Permutations(Run)
=============================================================================
