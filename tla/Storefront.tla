----------------------------- MODULE Storefront -----------------------------
(***************************************************************************)
(* What the five marketplace packages have in common: the catalogue and    *)
(* the marketplace's listings, the lookup of a product by a key, the       *)
(* circuit breaker of a client and the retries of a request.  Each package *)
(* has a module with what is its own (Shopify, WooCommerce, Trendyol,      *)
(* Hepsiburada, Pazarama); MarketplaceSync runs them.                      *)
(*                                                                         *)
(* A product has a name, an sku and perhaps a barcode.  A listing has an   *)
(* sku, perhaps a barcode ("code"), and says whether the marketplace keeps *)
(* stock of it ("managed") and whether it is an inventory item ("item").   *)
(* Quantities are functions: stock of the products, seen of the listings.  *)
(***************************************************************************)
EXTENDS Integers, Sequences, FiniteSets, SequencesExt

CONSTANTS Catalogue, Listings, None,
          Threshold,   \* failures in a row that open the breaker
          MaxRetries,  \* further attempts at one request
          FixLimit     \* the largest difference a reconciliation repairs

ASSUME LimitAssumption == Threshold \in Nat \ {0} /\ MaxRetries \in Nat /\ FixLimit \in Nat

Listed == DOMAIN Listings
Products == {Catalogue[n].id : n \in DOMAIN Catalogue}

\* A map built in the order of the catalogue: the last product that has the key is found.
Lookup(fields, key) ==
  LET holders == {n \in DOMAIN Catalogue : \E f \in fields : Catalogue[n][f] = key}
  IN  IF key = None \/ holders = {} THEN None ELSE Catalogue[Max(holders)].id

\* Some places of a list in ascending order, and what the list has there.
InOrder(places) ==
  [n \in 1 .. Cardinality(places) |->
     CHOOSE x \in places : Cardinality({y \in places : y < x}) = n - 1]
At(list, places) == [n \in 1 .. Cardinality(places) |-> list[InOrder(places)[n]]]

\* The listings, in order, whose product has another quantity; "found" has the product, or
\* None, of each listing that is looked at.
Differing(found, seen, stock) ==
  LET differs == InOrder({i \in DOMAIN found : found[i] # None /\ seen[i] # stock[found[i]]})
  IN  [n \in DOMAIN differs |->
         [listing |-> differs[n], product |-> found[differs[n]],
          there |-> seen[differs[n]], here |-> stock[found[differs[n]]]]]

\* An adjustment brings the product's stock to the quantity of the listing.
Adjustments(differing) ==
  [n \in DOMAIN differing |-> [listing |-> differing[n].listing, product |-> differing[n].product,
                               change |-> differing[n].there - differing[n].here]]

\* What is sent in one call: single entries, or batches of a size.
Singly(entries) == [n \in DOMAIN entries |-> <<entries[n]>>]
InBatches(entries, size) ==
  [n \in 1 .. (Len(entries) + size - 1) \div size |->
     SubSeq(entries, (n - 1) * size + 1, IF n * size < Len(entries) THEN n * size ELSE Len(entries))]

-----------------------------------------------------------------------------
(* The breaker.  Whether the reset time has passed since the last failure  *)
(* is "cooled": only an OPEN breaker asks.                                 *)
Closed == [state |-> "CLOSED", failures |-> 0, cooled |-> FALSE]

\* Mutant: an open breaker lets requests through at once.
Eager(b) == IF b.state = "OPEN" THEN [b EXCEPT !.state = "HALF_OPEN"] ELSE b

GetCircuitState(b) == IF b.state = "OPEN" /\ b.cooled THEN [b EXCEPT !.state = "HALF_OPEN"] ELSE b

OnSuccess(b) == [b EXCEPT !.failures = 0, !.state = "CLOSED"]

OnFailure(b) ==
  [state |-> IF b.failures + 1 >= Threshold THEN "OPEN" ELSE b.state,
   failures |-> b.failures + 1, cooled |-> FALSE]

\* The answers to one attempt: "broken" failed at the marketplace, "unreachable" never got
\* there, "lost" was done and its answer did not arrive (or could not be read), and
\* "declined" is an answer of success to what was not done: whose flag says so, or that
\* only took the batch in hand.
Answers == {"ok", "declined", "throttled", "refused", "broken", "unreachable", "lost"}

\* What a request comes to after an attempt that was answered so.
Retried(answer, attempt) ==
  CASE answer \in {"ok", "declined"} -> "done"
    [] answer = "refused" -> "failed"
    [] OTHER -> IF attempt < MaxRetries THEN "again" ELSE "failed"

-----------------------------------------------------------------------------
(* Webhooks.  A payload has an id and a name or number (or their absence), *)
(* lines, a status of the marketplace, whether it is cancelled, and        *)
(* refunds.  A line has an sku and a code (the barcode, or the             *)
(* marketplace's own sku) as they are written, and the number that its     *)
(* quantity reads as, "legible" if it is or reads as one; else it is 0     *)
(* here, and compares with nothing.  A product's payload has a line for    *)
(* each variant; a stock level and a refund have their second identifier   *)
(* as the name.                                                            *)
Failed == [status |-> "failed", orders |-> <<>>, products |-> <<>>]
Ignored == [status |-> "ignored", orders |-> <<>>, products |-> <<>>]
Noted == [status |-> "processed", orders |-> <<>>, products |-> <<>>]
Imported(order) == IF order.lines = <<>> THEN Ignored ELSE [Noted EXCEPT !.orders = <<order>>]
Importable(skus) == IF skus = <<>> THEN Ignored ELSE [Noted EXCEPT !.products = skus]
NotedIf(valid) == IF valid THEN Noted ELSE Failed

\* Mutant: one line of a unit or more is enough.
SomeSane(payload) == \E n \in DOMAIN payload.lines : payload.lines[n].quantity > 0

\* There are lines, and none is of less than one unit: what is not legible passes.
Sane(payload) ==
  /\ payload.lines # <<>>
  /\ \A n \in DOMAIN payload.lines : payload.lines[n].legible => payload.lines[n].quantity > 0

\* The lines whose key, keys[n] of the n-th, some product of the catalogue has in a field.
Matched(lines, keys, fields) ==
  LET known == InOrder({n \in DOMAIN lines : Lookup(fields, keys[n]) # None})
  IN  [k \in DOMAIN known |-> [product |-> Lookup(fields, keys[known[k]]),
                               quantity |-> lines[known[k]].quantity,
                               legible |-> lines[known[k]].legible]]

\* The first of two keys that there is.
Either(first, second) == IF first # None THEN first ELSE second

\* A status the map does not have is a draft.
StatusBy(map, status) == IF status \in DOMAIN map THEN map[status] ELSE "DRAFT"

\* Topics about an order that only report it.
OrderTopics == {"orders/updated", "orders/cancelled", "orders/shipped", "orders/delivered"}
=============================================================================
