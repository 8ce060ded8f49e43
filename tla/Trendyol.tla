------------------------------ MODULE Trendyol ------------------------------
(***************************************************************************)
(* The Trendyol package: listings are matched by barcode, with a barcode   *)
(* or an sku of the catalogue, and stock is sent in batches.               *)
(***************************************************************************)
EXTENDS Storefront

TrendyolFound == [i \in Listed |-> Lookup({"barcode", "sku"}, Listings[i].code)]

\* Of the answer to a batch only its success is looked at, not what became of the batch.
TrendyolAttempt(call, answer, attempt) == Retried(answer, attempt)

TrendyolEffect(call) == IF call = "set" THEN "level" ELSE "none"

TrendyolPush(seen, stock, size) ==
  InBatches(Differing(TrendyolFound, seen, stock), size)

TrendyolPull(seen, stock) == Adjustments(Differing(TrendyolFound, seen, stock))

-----------------------------------------------------------------------------
(* Webhooks. *)
TrendyolValid(payload) == payload.named /\ Sane(payload)

\* The barcode, or the sku of a line without one.
TrendyolKeys(lines) == [n \in DOMAIN lines |-> Either(lines[n].code, lines[n].sku)]

TrendyolStatus ==
  [Created |-> "DRAFT", Picking |-> "PICKING", Invoiced |-> "CONFIRMED", Repack |-> "PACKED",
   Shipped |-> "SHIPPED", UnDelivered |-> "SHIPPED", Delivered |-> "DELIVERED",
   Cancelled |-> "CANCELLED", Returned |-> "CANCELLED", UnSupplied |-> "CANCELLED"]

TrendyolOrder(payload) ==
  [lines |-> Matched(payload.lines, TrendyolKeys(payload.lines), {"barcode", "sku"}),
   status |-> StatusBy(TrendyolStatus, payload.status)]

TrendyolOrderCreate(payload) == IF TrendyolValid(payload) THEN Imported(TrendyolOrder(payload)) ELSE Failed

TrendyolOrderChange(payload) == NotedIf(TrendyolValid(payload))

TrendyolWebhook(topic, payload) ==
  CASE topic = "orders/create" -> TrendyolOrderCreate(payload)
    [] topic \in OrderTopics -> TrendyolOrderChange(payload)
    [] OTHER -> Ignored
=============================================================================
