---------------------------- MODULE Hepsiburada ----------------------------
(***************************************************************************)
(* The Hepsiburada package: all the stock goes in one upload, which the    *)
(* marketplace answers with a ticket and carries out later; the ticket is  *)
(* asked for until it is done or failed.                                   *)
(***************************************************************************)
EXTENDS Storefront

HBFound == [i \in Listed |-> Lookup({"sku", "barcode"}, Listings[i].sku)]

HBAttempt(call, answer, attempt) == Retried(answer, attempt)

\* An upload only makes a ticket; its status can be asked for.
HBEffect(call) ==
  CASE call = "upload" -> "ticket" [] call = "ticket" -> "status" [] OTHER -> "none"

HBPush(seen, stock) ==
  LET items == Differing(HBFound, seen, stock)
  IN  IF items = <<>> THEN <<>> ELSE <<items>>

HBPull(seen, stock) == Adjustments(Differing(HBFound, seen, stock))

\* Mutant: an upload that is in hand counts as done.
InHand(status) == IF status = "FAILED" THEN "FAILED" ELSE "SUCCESS"

\* What a ticket is told to be when the marketplace has it in a status.
PollTicketStatus(status) ==
  CASE status = "DONE" -> "SUCCESS" [] status = "FAILED" -> "FAILED" [] OTHER -> "PENDING"

-----------------------------------------------------------------------------
(* Webhooks. *)
HBValid(payload) == (payload.named \/ payload.id) /\ Sane(payload)

\* The merchant's sku, or the marketplace's own.
HBKeys(lines) == [n \in DOMAIN lines |-> Either(lines[n].sku, lines[n].code)]

HBStatus ==
  [New |-> "DRAFT", Open |-> "DRAFT", Approved |-> "CONFIRMED", Unpacked |-> "CONFIRMED",
   Picking |-> "PICKING", Packed |-> "PACKED", Shipped |-> "SHIPPED", UnDelivered |-> "SHIPPED",
   Delivered |-> "DELIVERED", Cancelled |-> "CANCELLED"]

HBOrder(payload) ==
  [lines |-> Matched(payload.lines, HBKeys(payload.lines), {"barcode", "sku"}),
   status |-> StatusBy(HBStatus, payload.status)]

HBOrderCreate(payload) == IF HBValid(payload) THEN Imported(HBOrder(payload)) ELSE Failed

HBOrderChange(payload) == NotedIf(HBValid(payload))

HBWebhook(topic, payload) ==
  CASE topic = "orders/create" -> HBOrderCreate(payload)
    [] topic \in OrderTopics -> HBOrderChange(payload)
    [] OTHER -> Ignored
=============================================================================
