------------------------------ MODULE Shopify ------------------------------
(***************************************************************************)
(* The Shopify package: one call for each variant, a reconciliation, and   *)
(* orders and refunds that arrive as webhooks.                             *)
(***************************************************************************)
EXTENDS Storefront

CONSTANT Text   \* what String() makes of an sku that is a number

ShopifyFound == [i \in Listed |-> Lookup({"sku"}, Listings[i].sku)]

\* Products are read through GraphQL, which has one attempt, and whose breaker hears of an
\* answer of failure but not of a request that throws; the rest goes through request.
ShopifyAttempt(call, answer, attempt) ==
  IF call # "products" THEN Retried(answer, attempt)
  ELSE CASE answer = "ok" -> "done"
         [] answer \in {"unreachable", "lost"} -> "uncounted"
         [] OTHER -> "failed"

\* What the calls that jobs make do at the marketplace.
ShopifyEffect(call) == IF call = "set" THEN "level" ELSE "none"

\* The stock of a variant can be set only when it is an inventory item.
ShopifyPush(seen, stock) ==
  Singly(Differing(Restrict(ShopifyFound, {i \in Listed : Listings[i].item}), seen, stock))

ShopifyPull(seen, stock) == Adjustments(Differing(ShopifyFound, seen, stock))

ShopifyDiscrepancies(seen, stock) == Differing(ShopifyFound, seen, stock)

\* "newest_wins" decides as "stockops_wins" does: there are no times to compare.
ShopifyConflicts(seen, stock, resolution) ==
  LET differing == Differing(ShopifyFound, seen, stock)
  IN  IF resolution = "shop_wins" THEN [push |-> <<>>, pull |-> Adjustments(differing)]
      ELSE [push |-> Singly(differing), pull |-> <<>>]

\* A difference is repaired when it is small; the rest is left to a person.
ShopifyFixable(discrepancies) ==
  At(discrepancies, {n \in DOMAIN discrepancies :
                       /\ discrepancies[n].there - discrepancies[n].here <= FixLimit
                       /\ discrepancies[n].here - discrepancies[n].there <= FixLimit})

\* The variant a repair sets is the first one with the sku.
ShopifyVariant(d) == Min({i \in Listed : Listings[i].sku = Listings[d.listing].sku})

\* How one repair goes: "noted" counts as repaired and sends nothing.
ShopifyAutoFix(d, resolution) ==
  IF resolution = "shop_wins" THEN "noted"
  ELSE IF Listings[ShopifyVariant(d)].item THEN "send" ELSE "failed"

-----------------------------------------------------------------------------
(* Webhooks. *)
ShopifyValid(payload) == payload.id /\ payload.named /\ Sane(payload)

\* The skus as text, neither trimmed nor otherwise changed.
Skus(lines) == [n \in DOMAIN lines |-> Text[lines[n].sku]]

\* The order of a payload: the lines with a known sku.
ShopifyOrder(payload) ==
  [lines |-> Matched(payload.lines, Skus(payload.lines), {"sku"}),
   status |-> IF payload.cancelled THEN "CANCELLED" ELSE "DRAFT"]

\* What a refund brings back: its lines that say "return" and name a line with a known sku.
ShopifyRefund(payload) ==
  LET Sku(r) == Text[payload.lines[r.line].sku]
      Returned(r) == /\ r.restock = "return" /\ r.line \in DOMAIN payload.lines
                     /\ Lookup({"sku"}, Sku(r)) # None
      back == At(payload.refunds, {n \in DOMAIN payload.refunds : Returned(payload.refunds[n])})
  IN  [n \in DOMAIN back |-> [product |-> Lookup({"sku"}, Sku(back[n])), quantity |-> back[n].quantity]]

ShopifyOrderCreate(payload) ==
  IF ShopifyValid(payload) THEN Imported(ShopifyOrder(payload)) ELSE Failed

ShopifyOrderChange(payload) == NotedIf(ShopifyValid(payload))

\* The products of the variants that have an sku.
ShopifyProductCreate(payload) ==
  IF payload.id /\ payload.named
  THEN Importable(SelectSeq([n \in DOMAIN payload.lines |-> payload.lines[n].sku],
                            LAMBDA sku : sku # None))
  ELSE Failed

ShopifyProductChange(topic, payload) ==
  NotedIf(payload.id /\ (topic = "products/update" => payload.named))

ShopifyOther(payload) == NotedIf(payload.id /\ payload.named)

ShopifyWebhook(topic, payload) ==
  CASE topic = "orders/create" -> ShopifyOrderCreate(payload)
    [] topic \in {"orders/updated", "orders/cancelled"} -> ShopifyOrderChange(payload)
    [] topic = "products/create" -> ShopifyProductCreate(payload)
    [] topic \in {"products/update", "products/delete"} -> ShopifyProductChange(topic, payload)
    [] topic \in {"inventory_levels/update", "refunds/create"} -> ShopifyOther(payload)
    [] OTHER -> Ignored
=============================================================================
