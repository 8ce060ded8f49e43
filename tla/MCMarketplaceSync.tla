------------------------- MODULE MCMarketplaceSync -------------------------
(***************************************************************************)
(* Three products and three listings: an ordinary one, one whose barcode   *)
(* is the sku of its product, and one that Shopify cannot set, WooCommerce *)
(* keeps no stock of and Trendyol cannot match.  The barcode of the last   *)
(* product is the sku of the second: the packages that look for both find  *)
(* the last one for two of the listings.                                   *)
(***************************************************************************)
EXTENDS MarketplaceSync

MCCatalogue ==
  <<[id |-> "p", sku |-> "s1", barcode |-> "b1"], [id |-> "q", sku |-> "s2", barcode |-> "none"],
    [id |-> "r", sku |-> "s3", barcode |-> "s2"]>>

MCListings ==
  <<[sku |-> "s1", code |-> "b1", item |-> TRUE, managed |-> TRUE],
    [sku |-> "s2", code |-> "s2", item |-> TRUE, managed |-> TRUE],
    [sku |-> "s3", code |-> "none", item |-> FALSE, managed |-> FALSE]>>

MCText == [sku \in {"s1", "s2", "s3", "none"} |-> sku]

MCLedger0 == [p \in Products |-> 1]
MCListed0 == <<2, 0, 0>>
=============================================================================
