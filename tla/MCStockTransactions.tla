------------------------ MODULE MCStockTransactions ------------------------
(* Small instances of StockTransactions for TLC. *)
EXTENDS StockTransactions, TLC

CONSTANTS t1, t2, t3, desk, lamp, main, shop, so1, so2, po1, ret1, cnt1

Line1(p, q) == [product |-> p, quantity |-> q]

MCProduct == {desk, lamp}
MCWarehouse == {main, shop}
MCOneWarehouse == {main}

(* Two products in two warehouses. The lines of the two sales name the     *)
(* products in opposite orders, and so do transfers there and back: the    *)
(* code locks the rows in the order of the lines, so they can deadlock.    *)
(* The stocktake has found one more.                                       *)
SiteLines == (so1 :> <<Line1(desk, 2), Line1(lamp, 1)>>)
          @@ (so2 :> <<Line1(lamp, 1), Line1(desk, 1)>>)
          @@ (po1 :> <<Line1(desk, 1)>>)
          @@ (ret1 :> <<Line1(lamp, 1)>>)
          @@ (cnt1 :> <<Line1(desk, 1)>>)
MCCountedAt == cnt1 :> main

(* Documents of one line each. *)
DocumentLines == (so1 :> <<Line1(desk, 1)>>) @@ (po1 :> <<Line1(desk, 1)>>)
              @@ (ret1 :> <<Line1(lamp, 1)>>)

NotCounted == << >>
MCOpening == [k \in MCProduct \X MCOneWarehouse |-> IF k[1] = desk THEN 3 ELSE 2]
TwoSites == [k \in MCProduct \X MCWarehouse |-> IF k[2] = main THEN 2 ELSE 1]

Symmetry == Permutations(Tx)
=============================================================================
