------------------------------ MODULE Planning ------------------------------
(***************************************************************************)
(* Selling, buying and looking ahead.  Orders arrive from the marketplaces *)
(* by the packages' webhook handlers, or by the importer of the worker;    *)
(* they are shipped from the default warehouse, their refunds come back,   *)
(* what the pages advise is bought and received, and days pass.  In every  *)
(* state the pages, the alerts and the forecasts are computed anew.        *)
(***************************************************************************)
EXTENDS Shopify, WooCommerce, Trendyol, Hepsiburada, Pazarama,
        Costing, Forecasting, StockAdvice

CONSTANTS
  Keys,         \* skus and barcodes as they are written, and None
  Trimmed,      \* what is left of a key, as text, without the blanks around it
  Payloads,     \* what may arrive, a sequence
  UnitCosts,    \* prices of suppliers
  Past,         \* the movements an organization may begin with
  Events,       \* how many things happen after no past, and after one
  MaxOrders,
  SnapshotLimit,    \* the newest movements that the pages read
  ByName, BySku,    \* the active products in two orders
  PageLimit,        \* the products that the page of the forecasts looks at
  LeadTime,         \* the days in which each product's supplier delivers
  SafetyDays        \* the days to have stock for on top of them

ASSUME CatalogueAssumption ==
  /\ Catalogue \in Seq([id : Products, sku : Keys, barcode : Keys]) /\ None \notin Products
  /\ \A i, k \in DOMAIN Catalogue : Catalogue[i].id = Catalogue[k].id => i = k

ASSUME ConversionAssumption ==
  /\ Text \in [Keys -> Keys] /\ Trimmed \in [Keys -> Keys]
  /\ None \in Keys => Text[None] = None /\ Trimmed[None] = None

ASSUME PageAssumption ==
  /\ SnapshotLimit \in Nat /\ PageLimit \in Nat /\ SafetyDays \in Nat
  /\ LeadTime \in [Active -> Nat]
  /\ \A order \in {ByName, BySku} :
       order \in Seq(Active) /\ ToSet(order) = Active /\ IsInjective(order)

Moved == [product : Products \cup Active, warehouse : Warehouses, change : Int,
          type : {"SALE", "INBOUND", "PURCHASE"}, day : Nat]

ASSUME ArrivalAssumption ==
  /\ Past \subseteq Seq(Moved)
  /\ \A k \in DOMAIN Payloads :
       /\ Payloads[k].lines \in Seq([sku : Keys, code : Keys, quantity : Int, legible : BOOLEAN])
       /\ \A n \in DOMAIN Payloads[k].lines :
            ~Payloads[k].lines[n].legible => Payloads[k].lines[n].quantity = 0
       /\ Payloads[k].refunds \in
            Seq([line : Nat, quantity : Int, restock : {"return", "cancel", "no_restock"}])

VARIABLES
  placed,      \* the sales orders
  bought,      \* the purchase orders
  moved,       \* the stock movements
  costs,       \* the layers, average and costs of each product
  today,
  events       \* bound of the model: how many things may still happen

planVars == <<placed, bought, moved, costs, today, events>>

Shops == {"shopify", "woo", "trendyol", "hepsiburada", "pazarama"}

NoCosts == [layers |-> <<>>, average |-> 0, fifo |-> 0, wac |-> 0,
            paid |-> 0, units |-> 0, receipts |-> 0, sales |-> 0]

PlanInit ==
  /\ placed = <<>> /\ bought = <<>> /\ moved \in Past
  /\ costs = [p \in Products |-> NoCosts]
  /\ today = 1 + Max({0} \cup {moved[n].day : n \in DOMAIN moved})
  /\ events = Events[moved # <<>>]

Happens == events > 0 /\ events' = events - 1

-----------------------------------------------------------------------------
(* Orders. *)

Webhook(shop, topic, payload) ==
  CASE shop = "shopify" -> ShopifyWebhook(topic, payload)
    [] shop = "woo" -> WooWebhook(topic, payload)
    [] shop = "trendyol" -> TrendyolWebhook(topic, payload)
    [] shop = "hepsiburada" -> HBWebhook(topic, payload)
    [] shop = "pazarama" -> PazaramaWebhook(topic, payload)

Created(shop) == IF shop = "woo" THEN "order.created" ELSE "orders/create"

\* The importer's reading of an order: the lines of one unit or more, a quantity that is not
\* legible being none.
ExtractExternalOrder(payload) ==
  LET lines == At(payload.lines, {n \in DOMAIN payload.lines : payload.lines[n].quantity > 0})
  IN  IF payload.id THEN lines ELSE <<>>

\* The importer looks for an sku without the blanks around it.
TrimmedSkus(lines) == [n \in DOMAIN lines |-> Trimmed[lines[n].sku]]

\* The order the importer makes: the lines whose sku it finds, as a draft.
ImportedOrder(payload) ==
  LET lines == ExtractExternalOrder(payload)
  IN  [lines |-> Matched(lines, TrimmedSkus(lines), {"sku"}), status |-> "DRAFT"]

Stored(order, by, shop, k) ==
  [lines |-> order.lines, status |-> order.status, by |-> by, shop |-> shop,
   payload |-> k, day |-> today, refunded |-> FALSE]

Topics == OrderTopics \cup {"orders/create", "order.created", "order.updated", "order.deleted",
  "products/create", "products/update", "products/delete", "product.created", "product.updated",
  "product.deleted", "inventory_levels/update", "refunds/create", "inventory_levels/connect"}

\* The webhooks of which a handler makes orders; where it makes none, nothing changes here.
Fruitful == {w \in Shops \X Topics \X DOMAIN Payloads :
               Webhook(w[1], w[2], Payloads[w[3]]).orders # <<>>}

\* What the handler makes of a webhook is stored by its caller, if its quantities are numbers.
Arrives(shop, topic, k) ==
  LET orders == Webhook(shop, topic, Payloads[k]).orders
  IN  /\ Happens /\ Len(placed) < MaxOrders
      /\ \A n \in DOMAIN orders : \A l \in DOMAIN orders[n].lines : orders[n].lines[l].legible
      /\ placed' = placed \o [n \in DOMAIN orders |-> Stored(orders[n], "handler", shop, k)]
      /\ UNCHANGED <<bought, moved, costs, today>>

Imports(shop, k) ==
  LET order == ImportedOrder(Payloads[k])
  IN  /\ Happens /\ Len(placed) < MaxOrders
      /\ order.lines # <<>>
      /\ placed' = Append(placed, Stored(order, "importer", shop, k))
      /\ UNCHANGED <<bought, moved, costs, today>>

Movement(product, w, change, type) ==
  [product |-> product, warehouse |-> w, change |-> change, type |-> type, day |-> today]

\* The cost of one line, by both methods; there is none of units that were never received.
SoldAt(c, quantity) ==
  LET fifo == CalculateFIFOCost(c.layers, quantity)
  IN  IF ~fifo.enough THEN c
      ELSE [c EXCEPT !.layers = fifo.remaining, !.fifo = @ + fifo.cost, !.units = @ - quantity,
                     !.wac = @ + ComputeWACCogs(quantity, c.average), !.sales = @ + 1]

\* An order is shipped when each of its lines passes the test of the stock.
Ship(n) ==
  LET lines == placed[n].lines
  IN  /\ Happens /\ placed[n].status = "DRAFT"
      /\ AssertEnoughStock(moved, DefaultWarehouse, lines)
      /\ placed' = [placed EXCEPT ![n].status = "SHIPPED"]
      /\ moved' = moved \o [i \in DOMAIN lines |->
                              Movement(lines[i].product, DefaultWarehouse, -lines[i].quantity, "SALE")]
      /\ costs' = FoldLeft(LAMBDA c, l : [c EXCEPT ![l.product] = SoldAt(@, l.quantity)], costs, lines)
      /\ UNCHANGED <<bought, today>>

\* The refunds of a shipped order come back to the default warehouse.
Refund(n) ==
  LET payload == Payloads[placed[n].payload]
      back == IF placed[n].shop = "shopify" THEN ShopifyRefund(payload) ELSE WooRefund(payload)
  IN  /\ Happens /\ placed[n].status = "SHIPPED" /\ ~placed[n].refunded
      /\ placed[n].shop \in {"shopify", "woo"} /\ back # <<>>
      /\ placed' = [placed EXCEPT ![n].refunded = TRUE]
      /\ moved' = moved \o [i \in DOMAIN back |->
                              Movement(back[i].product, DefaultWarehouse, back[i].quantity, "INBOUND")]
      /\ UNCHANGED <<bought, costs, today>>

-----------------------------------------------------------------------------
(* Purchases. *)

Newest ==
  SubSeq(moved, IF SnapshotLimit < Len(moved) THEN Len(moved) - SnapshotLimit + 1 ELSE 1, Len(moved))

Balances ==
  [pw \in {<<m.product, m.warehouse>> : m \in ToSet(moved)} |-> GetStockOnHand(moved, pw[1], pw[2])]

\* The rows of the pages: of the balances, where those who post keep them, or else of the
\* newest movements.
ShownRows(kept) ==
  IF kept /\ moved # <<>> THEN BuildStockRowsFromBalances(Balances) ELSE BuildStockRows(Newest)

\* Somebody orders what a page advises.
Buy(p, kept) ==
  LET rows == ShownRows(kept)
  IN  /\ Happens /\ p \in BuildPurchaseRecommendations(rows, placed, bought)
      /\ bought' = Append(bought, [product |-> p, quantity |-> Suggested(rows, placed, bought, p),
                                   received |-> 0, status |-> "SENT"])
      /\ UNCHANGED <<placed, moved, costs, today>>

\* Units are received, a layer is made of them and the average is taken anew.
Receive(n, quantity, unitCost) ==
  LET o == bought[n]
      c == costs[o.product]
  IN  /\ Happens /\ quantity > 0 /\ o.received + quantity <= o.quantity
      /\ bought' = [bought EXCEPT ![n] =
                      [o EXCEPT !.received = o.received + quantity,
                                !.status = IF o.received + quantity = o.quantity THEN "RECEIVED"
                                           ELSE "PARTIALLY_RECEIVED"]]
      /\ moved' = Append(moved, Movement(o.product, DefaultWarehouse, quantity, "PURCHASE"))
      /\ costs' = [costs EXCEPT ![o.product] =
                     [c EXCEPT !.layers = CreateLayerFromReceipt(c.layers, quantity, unitCost),
                               !.average = RecalculateWAC(c.units, c.average, quantity, unitCost),
                               !.paid = c.paid + quantity * unitCost,
                               !.units = c.units + quantity, !.receipts = c.receipts + 1]]
      /\ UNCHANGED <<placed, today>>

\* Days count from the first movement on.
NextDay ==
  /\ Happens /\ moved # <<>> /\ today' = today + 1
  /\ UNCHANGED <<placed, bought, moved, costs>>

\* The page of the forecasts: of the first active products by name, of those that have sold
\* among the newest movements, what to buy for the days of the lead time and of safety.
ForecastingPage(rows) ==
  LET with == {p \in ToSet(FirstOf(ByName, PageLimit)) : AggregateDailyDemand(Newest, p) # <<>>}
      Result(p) == ForecastDemand(AggregateDailyDemand(Newest, p), "AUTO")
  IN  [p \in with |->
         [result |-> Result(p),
          buy |-> SmartPurchase(Result(p), OnHandOf(rows, p), LeadTime[p] + SafetyDays)]]

PlanNext ==
  \/ \E w \in Fruitful : Arrives(w[1], w[2], w[3])
  \/ \E shop \in {"shopify", "woo"}, k \in DOMAIN Payloads : Imports(shop, k)
  \/ \E n \in DOMAIN placed : Ship(n) \/ Refund(n)
  \/ \E p \in Active, kept \in BOOLEAN : Buy(p, kept)
  \/ \E n \in DOMAIN bought, cost \in UnitCosts :
       \E quantity \in {1, bought[n].quantity - bought[n].received} : Receive(n, quantity, cost)
  \/ NextDay

PlanSpec == PlanInit /\ [][PlanNext]_planVars

-----------------------------------------------------------------------------
(* Properties. *)

\* An sku that is text without blanks around it: all read it alike.
Bare(line) == Text[line.sku] = line.sku /\ Trimmed[line.sku] = line.sku

Names(line, product) ==
  ({line.sku, Text[line.sku], Trimmed[line.sku], line.code} \cap {product.sku, product.barcode})
    \ {None} # {}

\* The keys of every line name one and the same product, and there is a bare sku among them.
Plain(payload) ==
  \A n \in DOMAIN payload.lines :
    /\ payload.lines[n].sku # None /\ Bare(payload.lines[n])
    /\ \E i \in DOMAIN Catalogue :
         /\ payload.lines[n].sku = Catalogue[i].sku
         /\ payload.lines[n].code \in {None, Catalogue[i].sku, Catalogue[i].barcode}
         /\ \A k \in DOMAIN Catalogue : Names(payload.lines[n], Catalogue[k]) => k = i

SoldOf(payload, i) ==
  Added([n \in DOMAIN payload.lines |->
           IF Names(payload.lines[n], Catalogue[i])
           THEN AtLeastNone(payload.lines[n].quantity) ELSE 0])

AsSold(o) ==
  LET payload == Payloads[o.payload]
  IN  /\ \A l \in DOMAIN o.lines : o.lines[l].quantity > 0
      /\ \A i \in DOMAIN Catalogue :
           LET quantity == QuantityIn(o.lines, Catalogue[i].id)
           IN  /\ quantity <= SoldOf(payload, i)
               /\ Plain(payload) => quantity = SoldOf(payload, i)
      /\ (/\ o.by = "handler" /\ o.shop \in {"shopify", "woo"}
          /\ \A n \in DOMAIN payload.lines : Bare(payload.lines[n]) /\ payload.lines[n].legible) =>
            ImportedOrder(payload).lines = o.lines

\* An order imported from a marketplace sells, of each product, no more than the payload
\* says, and exactly as much when the payload's keys agree; it has no line of nothing; and
\* where a handler and the importer take the same payload, their orders have the same lines
\* if every sku is text without blanks around it and every quantity can be read. (The
\* importer finds "A1" for " A1 " and for a number; the handlers do not, or not for both.)
\* (webhook-handler.ts and mapper.ts of the packages; webhooks.ts, webhook-processor.ts).
OrderedAsSold == \A n \in DOMAIN placed : AsSold(placed[n])

\* However receipts and sales follow each other, the units and the money paid for them are
\* in the layers or in the cost of what was sold, up to half a hundredth for each sale; the
\* weighted average loses no more than that and half a part of each unit for each receipt,
\* and stays among the prices paid (costing.ts).
CostsAddUp ==
  \A p \in Products :
    LET c == costs[p]
        fifo == Total(Values(c.layers)) + c.fifo
        wac == c.units * c.average + c.wac
        most == Added([n \in DOMAIN bought |-> bought[n].received])
    IN  /\ Total(Quantities(c.layers)) = c.units
        /\ 2 * Abs(c.paid - fifo) <= c.sales * Hundredth
        /\ 2 * Abs(c.paid - wac) <= c.sales * Hundredth + c.receipts * most
        /\ c.receipts > 0 =>
             \E low, high \in UnitCosts : low <= c.average /\ c.average <= high

\* For the rows of the balances, which are those of all movements, and for the rows of the
\* newest movements: when a product is not advised, the stock shown and what is on order
\* cover every open order of it; ordering what is advised ends the advice; a product of
\* which all warehouses together show no more than the minimum, with nothing on order, is
\* advised (one that is critical in each, but not in the sum, need not be); and an order of
\* active products is ready exactly when the default warehouse shows what its lines need
\* together.  Whatever the pages show, a product whose stock is no more than the minimum in
\* the sum is alerted in some warehouse, and no product alone has more units sold or on
\* order than the dashboard says of all (purchase-recommendations.ts, dashboard.ts,
\* notifications.ts, inventory.ts, notification-dispatcher.ts).
AdviceCovers ==
  LET alerts == HandleLowStockNotificationDispatch(moved, TRUE)
  IN  /\ BuildStockRowsFromBalances(Balances) = BuildStockRows(moved)
      /\ \A known \in {moved, Newest} :
           LET rows == BuildStockRows(known)
               advised == BuildPurchaseRecommendations(rows, placed, bought)
               summary == BuildDashboardSummary(rows, placed, bought)
           IN  /\ \A p \in Active :
                    LET demand == SalesDemand(placed, p)
                        pending == PendingUnits(bought, p)
                        more == Append(bought, [product |-> p, received |-> 0, status |-> "SENT",
                                                quantity |-> Suggested(rows, placed, bought, p)])
                    IN  /\ p \notin advised => OnHandOf(rows, p) + pending >= demand
                        /\ p \notin BuildPurchaseRecommendations(rows, placed, more)
                        /\ OnHandOf(rows, p) <= Minimum[p] /\ Minimum[p] > 0 /\ pending = 0 =>
                             p \in advised
                        /\ demand <= summary.openSalesUnits
                        /\ pending <= summary.pendingPurchaseUnits
               /\ \A n \in DOMAIN placed :
                    (\A l \in DOMAIN placed[n].lines : placed[n].lines[l].product \in Active) =>
                    LET once == [p \in Active |-> QuantityIn(placed[n].lines, p)]
                    IN  BlockedLines(rows, placed[n]) = {} <=>
                          \A p \in Active : once[p] > 0 =>
                            GetStockOnHand(known, p, DefaultWarehouse) >= once[p]
      /\ \A p \in Active : OnHandOf(BuildStockRows(moved), p) <= Minimum[p] =>
           \E a \in alerts : a.product = p /\ a.status = "SENT"

\* The histories that the service reads lose no sale of their days and begin and end with
\* one; averages and levels stay within them; a demand that never changes is forecast as it
\* is, by every method and without a band; of the products on it, the list of the
\* organization says what their own pages say; what the forecasting page advises, for a
\* product on it that has sold among the newest movements, covers with the stock shown the
\* forecast of the lead time and the days of safety, as far as the forecast reaches, and one
\* unit less would not; and if all movements are among the newest and recent enough, the page
\* and the service forecast the same (forecast.ts, forecasting.service.ts, page.tsx).
ForecastSound ==
  LET list == [method \in Methods |-> ForecastOrganization(moved, BySku, today, method)]
  IN  \A p \in Active :
    LET history == AggregateDailyDemand(Since(moved, today), p)
        sold == Added([n \in DOMAIN moved |->
                  IF /\ moved[n].product = p /\ moved[n].type = "SALE"
                     /\ moved[n].day >= today - HistoryLimit THEN -moved[n].change ELSE 0])
        ordered == Added([n \in DOMAIN placed |->
                     IF placed[n].status \in {"DRAFT", "CANCELLED"} THEN 0 ELSE QuantityIn(placed[n].lines, p)])
    IN  /\ Sum(history) = sold
        /\ Sum(AggregateDailyDemandFromSales(placed, p)) = ordered
        /\ history # <<>> => history[1] > 0 /\ Last(history) > 0
        /\ \A method \in Methods :
             LET result == ForecastProduct(moved, p, today, method)
             IN  /\ p \in DOMAIN list[method] => list[method][p] = result
                 /\ history # <<>> =>
                      /\ p \in ToSet(FirstOf(BySku, ListLimit)) => p \in DOMAIN list[method]
                      /\ result.method # "HOLT_WINTERS" =>
                           \A n \in DOMAIN result.values :
                             \E a, b \in ToSet(history) :
                               Scale * a <= result.values[n] /\ result.values[n] <= Scale * b
                      /\ Cardinality(ToSet(history)) = 1 =>
                           ~result.band /\ ToSet(result.values) = {Scale * history[1]}
        /\ \A kept \in BOOLEAN :
             LET rows == ShownRows(kept)
                 page == ForecastingPage(rows)
             IN  p \in DOMAIN page =>
                   LET have == OnHandOf(rows, p) + page[p].buy
                       coming == [d \in {x \in DOMAIN page[p].result.values :
                                           x <= LeadTime[p] + SafetyDays} |-> page[p].result.values[d]]
                   IN  /\ Scale * have >= Added(coming)
                       /\ page[p].buy > 0 => Scale * (have - 1) < Added(coming)
                       /\ Newest = Since(moved, today) =>
                            page[p].result = ForecastProduct(moved, p, today, "AUTO")
=============================================================================
