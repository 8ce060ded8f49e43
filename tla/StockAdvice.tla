----------------------------- MODULE StockAdvice -----------------------------
(***************************************************************************)
(* What the pages say of the stock: its rows, the purchases they advise,   *)
(* the dashboard's numbers, and the alerts the worker sends.  How rows are *)
(* sorted and worded is left out.                                          *)
(*                                                                         *)
(* A movement has a product, a warehouse, a change, a type and a day; an   *)
(* order has lines and a status; a purchase order is of one product.       *)
(***************************************************************************)
EXTENDS Integers, Sequences, FiniteSets, SequencesExt

CONSTANTS
  Active,            \* the products that are active
  Warehouses, DefaultWarehouse,
  Minimum            \* the minimum stock of each product

ASSUME AdviceAssumption ==
  IsFiniteSet(Warehouses) /\ DefaultWarehouse \in Warehouses /\ Minimum \in [Active -> Nat]

Added(s) == SumFunction(s)
AtLeastNone(x) == IF x < 0 THEN 0 ELSE x

QuantityIn(lines, p) ==
  Added([n \in DOMAIN lines |-> IF lines[n].product = p THEN lines[n].quantity ELSE 0])

GetStockOnHand(moved, p, w) ==
  Added([n \in DOMAIN moved |->
           IF moved[n].product = p /\ moved[n].warehouse = w THEN moved[n].change ELSE 0])

BuildStockRows(moved) ==
  {[product |-> p, warehouse |-> w, onHand |-> GetStockOnHand(moved, p, w),
    isCritical |-> GetStockOnHand(moved, p, w) <= Minimum[p]] : p \in Active, w \in Warehouses}

\* The same from stored balances, where a row may be missing.
BuildStockRowsFromBalances(balances) ==
  LET Of(p, w) == IF <<p, w>> \in DOMAIN balances THEN balances[<<p, w>>] ELSE 0
  IN  {[product |-> p, warehouse |-> w, onHand |-> Of(p, w),
        isCritical |-> Of(p, w) <= Minimum[p]] : p \in Active, w \in Warehouses}

\* Each line is compared by itself.
AssertEnoughStock(moved, w, lines) ==
  \A n \in DOMAIN lines : GetStockOnHand(moved, lines[n].product, w) >= lines[n].quantity

OpenSales(placed) == {n \in DOMAIN placed : placed[n].status = "DRAFT"}

OpenPurchases(bought) ==
  {n \in DOMAIN bought : bought[n].status \in {"DRAFT", "SENT", "PARTIALLY_RECEIVED"}}

OnHandOf(rows, p) ==
  Added([row \in {r \in rows : r.product = p} |-> row.onHand])

SalesDemand(placed, p) ==
  Added([n \in OpenSales(placed) |-> QuantityIn(placed[n].lines, p)])

PendingUnits(bought, p) ==
  Added([n \in OpenPurchases(bought) |->
           IF bought[n].product = p THEN AtLeastNone(bought[n].quantity - bought[n].received) ELSE 0])

\* Mutant: the open orders are not taken off.
Forgetful(rows, placed, bought, p) == OnHandOf(rows, p) + PendingUnits(bought, p)

Projected(rows, placed, bought, p) ==
  OnHandOf(rows, p) + PendingUnits(bought, p) - SalesDemand(placed, p)

Suggested(rows, placed, bought, p) ==
  LET demand == SalesDemand(placed, p)
      target == IF demand > Minimum[p] THEN Minimum[p] + demand ELSE 2 * Minimum[p]
  IN  AtLeastNone(target - Projected(rows, placed, bought, p))

\* The products that the pages advise to buy.
BuildPurchaseRecommendations(rows, placed, bought) ==
  {p \in Active : /\ Suggested(rows, placed, bought, p) > 0
                  /\ Projected(rows, placed, bought, p) <= Minimum[p]}

\* An order is ready when the default warehouse has what it needs of each product, taken
\* together; a product without a row there is looked for in all the others.
BlockedLines(rows, order) ==
  LET Candidates(p) ==
        IF \E row \in rows : row.product = p /\ row.warehouse = DefaultWarehouse
        THEN {row \in rows : row.product = p /\ row.warehouse = DefaultWarehouse}
        ELSE {row \in rows : row.product = p}
  IN  {p \in {order.lines[n].product : n \in DOMAIN order.lines} :
         OnHandOf(Candidates(p), p) < QuantityIn(order.lines, p)}

\* The numbers of the dashboard; the units are of all products together.
BuildDashboardSummary(rows, placed, bought) ==
  [critical |-> {row.product : row \in {r \in rows : r.isCritical}},
   ready |-> Cardinality({n \in OpenSales(placed) : BlockedLines(rows, placed[n]) = {}}),
   openSalesUnits |->
     Added([n \in OpenSales(placed) |->
              Added([l \in DOMAIN placed[n].lines |-> placed[n].lines[l].quantity])]),
   pendingPurchaseUnits |->
     Added([n \in OpenPurchases(bought) |-> AtLeastNone(bought[n].quantity - bought[n].received)])]

\* One alert for each critical row; without a recipient it is stored as skipped.
CreateLowStockNotificationDrafts(rows, recipient) ==
  {[product |-> row.product, warehouse |-> row.warehouse,
    status |-> IF recipient THEN "PENDING" ELSE "SKIPPED"] : row \in {r \in rows : r.isCritical}}

\* The worker's dispatch stores them as sent.
HandleLowStockNotificationDispatch(moved, recipient) ==
  {[draft EXCEPT !.status = IF @ = "PENDING" THEN "SENT" ELSE @] :
     draft \in CreateLowStockNotificationDrafts(BuildStockRows(moved), recipient)}
=============================================================================
