------------------------- MODULE MCWebhookPipeline -------------------------
(* Small instances of WebhookPipeline for TLC. *)
EXTENDS WebhookPipeline, TLC

CONSTANTS created, updated, product, ord, r1, r2, w1, w2

(* Two events tell of one order, a third is about no order.                *)
MCOrderOf == (created :> ord) @@ (updated :> ord) @@ (product :> NoOrder)
MCTwoOrderOf == (created :> ord) @@ (updated :> ord)
MCOneOrderOf == created :> ord

Symmetry == Permutations(Request) \cup Permutations(Worker)
=============================================================================
