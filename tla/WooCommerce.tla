---------------------------- MODULE WooCommerce ----------------------------
(***************************************************************************)
(* The WooCommerce package: as Shopify, for products that WooCommerce      *)
(* keeps stock of; a repair needs no inventory item.                       *)
(***************************************************************************)
EXTENDS Storefront

WooManaged == {i \in Listed : Listings[i].managed}

WooFound == [i \in WooManaged |-> Lookup({"sku"}, Listings[i].sku)]

\* Every call of the client goes through request.
WooAttempt(call, answer, attempt) == Retried(answer, attempt)

WooEffect(call) == IF call = "set" THEN "level" ELSE "none"

WooPush(seen, stock) == Singly(Differing(WooFound, seen, stock))

WooPull(seen, stock) == Adjustments(Differing(WooFound, seen, stock))

WooDiscrepancies(seen, stock) == Differing(WooFound, seen, stock)

WooFixable(discrepancies) ==
  At(discrepancies, {n \in DOMAIN discrepancies :
                       discrepancies[n].there - discrepancies[n].here \in -FixLimit .. FixLimit})

WooProduct(d) == Min({i \in Listed : Listings[i].sku = Listings[d.listing].sku})

WooAutoFix(d, resolution) == IF resolution = "shop_wins" THEN "noted" ELSE "send"

-----------------------------------------------------------------------------
(* Webhooks. *)
WooValid(payload) == payload.id /\ payload.named /\ Sane(payload)

\* The skus as they are written: a number is no sku of the catalogue.
WooSkus(lines) == [n \in DOMAIN lines |-> lines[n].sku]

\* The order of a payload: the lines with a known sku.
WooOrder(payload) ==
  [lines |-> Matched(payload.lines, WooSkus(payload.lines), {"sku"}),
   status |-> IF payload.status \in {"cancelled", "refunded", "failed"} THEN "CANCELLED" ELSE "DRAFT"]

\* What a refund brings back: the lines it names that have a known sku, as many as its size.
WooRefund(payload) ==
  LET Sku(r) == IF r.line \in DOMAIN payload.lines THEN payload.lines[r.line].sku ELSE None
      Returned(r) == Lookup({"sku"}, Sku(r)) # None /\ r.quantity # 0
      back == At(payload.refunds, {n \in DOMAIN payload.refunds : Returned(payload.refunds[n])})
  IN  [n \in DOMAIN back |->
         [product |-> Lookup({"sku"}, Sku(back[n])),
          quantity |-> IF back[n].quantity < 0 THEN -back[n].quantity ELSE back[n].quantity]]

WooOrderCreate(payload) == IF WooValid(payload) THEN Imported(WooOrder(payload)) ELSE Failed

WooOrderChange(topic, payload) ==
  NotedIf(IF topic = "order.updated" THEN WooValid(payload) ELSE payload.id)

\* A product without an sku is passed over.
WooProductCreate(payload) ==
  IF payload.id /\ payload.named
  THEN Importable(IF payload.lines # <<>> /\ payload.lines[1].sku # None
                  THEN <<payload.lines[1].sku>> ELSE <<>>)
  ELSE Failed

WooProductChange(topic, payload) ==
  NotedIf(payload.id /\ (topic = "product.updated" => payload.named))

WooWebhook(topic, payload) ==
  CASE topic = "order.created" -> WooOrderCreate(payload)
    [] topic \in {"order.updated", "order.deleted"} -> WooOrderChange(topic, payload)
    [] topic = "product.created" -> WooProductCreate(payload)
    [] topic \in {"product.updated", "product.deleted"} -> WooProductChange(topic, payload)
    [] OTHER -> Ignored
=============================================================================
