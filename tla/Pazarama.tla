------------------------------ MODULE Pazarama ------------------------------
(***************************************************************************)
(* The Pazarama package: batches as for Trendyol, by sku, and a token that *)
(* a request renews before its first attempt when it is about to end.      *)
(***************************************************************************)
EXTENDS Storefront

PazaramaFound == [i \in Listed |-> Lookup({"sku", "barcode"}, Listings[i].sku)]

\* An answer of success is success, whatever the flag in it says.
PazaramaAttempt(call, answer, attempt) == Retried(answer, attempt)

PazaramaEffect(call) == IF call = "set" THEN "level" ELSE "none"

PazaramaPush(seen, stock, size) ==
  InBatches(Differing(PazaramaFound, seen, stock), size)

PazaramaPull(seen, stock) == Adjustments(Differing(PazaramaFound, seen, stock))

\* A token within the margin of its end is renewed under the lock of the store, once;
\* a renewal that fails ends the request before its first attempt.
EnsureValidToken(token, renewed) ==
  IF token = "valid" THEN "try" ELSE IF renewed THEN "try" ELSE "failed"

-----------------------------------------------------------------------------
(* Webhooks. *)
PazaramaValid(payload) == (payload.named \/ payload.id) /\ Sane(payload)

\* The merchant's sku, or the barcode.
PazaramaKeys(lines) == [n \in DOMAIN lines |-> Either(lines[n].sku, lines[n].code)]

PazaramaStatus ==
  [New |-> "DRAFT", Approved |-> "CONFIRMED", Picking |-> "PICKING", Shipped |-> "SHIPPED",
   Delivered |-> "DELIVERED", Cancelled |-> "CANCELLED", Returned |-> "CANCELLED"]

PazaramaOrder(payload) ==
  [lines |-> Matched(payload.lines, PazaramaKeys(payload.lines), {"barcode", "sku"}),
   status |-> StatusBy(PazaramaStatus, payload.status)]

PazaramaOrderCreate(payload) == IF PazaramaValid(payload) THEN Imported(PazaramaOrder(payload)) ELSE Failed

PazaramaOrderChange(payload) == NotedIf(PazaramaValid(payload))

PazaramaWebhook(topic, payload) ==
  CASE topic = "orders/create" -> PazaramaOrderCreate(payload)
    [] topic \in OrderTopics -> PazaramaOrderChange(payload)
    [] OTHER -> Ignored
=============================================================================
