----------------------------- MODULE MCBackOffice -----------------------------
EXTENDS BackOffice, TLC

CONSTANTS screw, frame, bike, main, annex, ann, bob, x1, x2, k1, k2, short,
          so1, so2, so3, po, pox, mo, ret, cn, inv, ra, rb

Line(p, q) == [product |-> p, quantity |-> q]
Part(p, q, by) == [product |-> p, quantity |-> q, by |-> by]

MCLines ==
  (so1 :> <<Line(screw, 1), Line(frame, 1)>>) @@ (so2 :> <<Line(frame, 1), Line(frame, 1)>>)
  @@ (so3 :> <<Line(screw, 1)>>) @@ (cn :> <<Line(screw, 1)>>)
  @@ (pox :> <<Line(frame, 1)>>) @@ (po :> <<Line(screw, 2), Line(frame, 1)>>) @@ (ret :> <<Line(screw, 1), Line(frame, 1)>>)
MCReturnOf == ret :> so1
MCInvoiceTotal == inv :> 3
MCBuild == mo :> [product |-> bike, warehouse |-> main, quantity |-> 1]
MCOpening == [p \in {screw, frame, bike} |-> [w \in {main, annex} |->
                IF w = annex THEN 0 ELSE IF p = bike THEN 0 ELSE IF p = frame THEN 1 ELSE 2]]

Bill == {Part(screw, 1, "first"), Part(frame, 1, "first")}
OtherBill == {Part(screw, 2, "second")}

-----------------------------------------------------------------------------
(* Who works together, and on what. *)

StockDesk ==
  [op : {"movement"}, product : {screw}, warehouse : {main}, type : {"INBOUND", "OUTBOUND"},
   quantity : {0, 2}]
  \cup [op : {"transfer"}, product : {screw}, warehouse : {main}, to : {main, annex}, quantity : {1}]
  \cup [op : {"count"}, product : {screw}, warehouse : {main, annex}, counted : {1}]
  \cup [op : {"setActive"}, product : {screw}, on : {FALSE}]
  \cup [op : {"confirm"}, doc : {so1}]
  \cup [op : {"receive"}, doc : {po}]

SalesDesk ==
  [op : {"createOrder", "confirm"}, doc : {so1, so2, so3}]
  \cup [op : {"startPicking", "pack", "ship", "deliver"}, doc : {so1}]
  \cup [op : {"pick"}, doc : {so1}, list : {1}, line : {1, 2}, quantity : {1, 2}]
  \cup [op : {"createReturn", "approve"}, doc : {ret}]

InvoiceDesk ==
  [op : {"createInvoice"}, target : {inv}]
  \cup [op : {"pay"}, target : {inv}, amount : {0, 1, 2}]
  \cup [op : {"transition"}, target : {inv}, to : {"SENT", "CANCELLED"}]
  \cup [op : {"createCredit"}, doc : {cn}]

WorkshopDesk ==
  [op : {"createBuild", "start", "complete"}, doc : {mo}, recipe : {bike}]
  \cup [op : {"updateBom"}, recipe : {bike}, components : {{}, OtherBill}]
  \cup [op : {"createPurchase", "suggest", "receive"}, doc : {po}]
  \cup [op : {"confirm"}, doc : {so1}]

AdminDesk ==
  [op : {"createWarehouse"}, target : {annex}, default : BOOLEAN]
  \cup [op : {"updateWarehouse"}, target : {main, annex}, default : {TRUE}]
  \cup [op : {"confirm"}, doc : {so1}]

MembersDesk ==
  [op : {"createUser"}, actor : {ann, bob}, user : {ann, bob}, role : {"Viewer"}, area : {"members"}]
  \cup [op : {"updateRole"}, actor : {ann, bob}, user : {ann, bob}, role : {"Admin", "Viewer"},
        area : {"members"}]
  \cup [op : {"deleteUser"}, actor : {ann, bob}, user : {ann, bob}, area : {"members"}]

CatalogueDesk ==
  [op : {"createProduct", "updateProduct", "createVariant", "updateVariant"},
   target : {x1, x2}, key : {k1, short}]
  \cup [op : {"updateProduct"}, target : {x1}, key : {k2}]
  \cup [op : {"deleteVariant"}, target : {x1}]
  \cup [op : {"updateSettings"}, target : {x1}, key : {k1, k2}]

PartnerDesk ==
  [op : {"createSupplier", "updateSupplier", "createCustomer", "createBom", "upsertField",
         "createSubscription", "updateSubscription"}, target : {x1}, key : {k1, k2}]
  \cup [op : {"createSupplier"}, target : {x2}, key : {k1}]
  \cup [op : {"refreshRates"}, target : {x1}, key : {k1}]
  \cup [op : {"upsertTier"}, target : {x1, x2}, key : {k1}]
  \cup [op : {"deleteTier"}, target : {x1}]

\* The API beside the web application.
ApiDesk ==
  [op : {"apiCreateOrder", "portalOrder", "createOrder", "confirm"}, doc : {so1, so3}]
  \cup [op : {"apiCreatePurchase", "createPurchase", "receive"}, doc : {pox}]
  \cup [op : {"apiCreateReturn", "createReturn", "approve"}, doc : {ret}]
  \cup [op : {"apiCreateCredit", "createCredit"}, doc : {cn}]
  \cup [op : {"apiDeactivate"}, product : {screw}]
  \cup [op : {"apiUpdateWarehouse"}, target : {main, annex}, default : {TRUE}]

OpeningDesk ==
  [op : {"apiCreateWarehouse", "createWarehouse"}, target : {annex}, default : BOOLEAN]
  \cup [op : {"apiUpdateWarehouse", "updateWarehouse"}, target : {main, annex}, default : {TRUE}]

ApiCatalogueDesk ==
  [op : {"apiCreateProduct", "apiUpdateProduct", "createProduct",
         "apiCreateVariant", "apiUpdateVariant"}, target : {x1, x2}, key : {k1}]
  \cup [op : {"apiUpdateProduct"}, target : {x1}, key : {k2, short}]
  \cup [op : {"apiDeleteVariant", "deleteVariant"}, target : {x1}]

ApiPartnerDesk ==
  [op : {"apiCreateSupplier", "apiUpdateSupplier", "apiCreateCustomer", "apiUpdateCustomer"},
   target : {x1}, key : {k1, k2}]
  \cup [op : {"createSupplier", "createCustomer"}, target : {x2}, key : {k1}]
  \cup [op : {"apiCreateTier", "upsertTier"}, target : {x1, x2}, key : {k1}]

MCMenu == [api |-> ApiDesk, opening |-> OpeningDesk,
           apiCatalogue |-> ApiCatalogueDesk, apiPartners |-> ApiPartnerDesk,
           stock |-> StockDesk, sales |-> SalesDesk, workshop |-> WorkshopDesk,
           invoices |-> InvoiceDesk,
           admin |-> AdminDesk, members |-> MembersDesk,
           catalogue |-> CatalogueDesk, partners |-> PartnerDesk]

-----------------------------------------------------------------------------
Docs(s1, s2, p, m) ==
  (so1 :> s1) @@ (so2 :> s2) @@ (so3 :> "ABSENT") @@ (po :> p) @@ (pox :> "ABSENT") @@ (mo :> m) @@ (ret :> "ABSENT") @@ (cn :> "ABSENT")

StartWith(docs, depots, desks) ==
  [status |-> docs, desks |-> desks,
   depot |-> (main :> "default") @@ (annex :> depots),
   role |-> (ann :> "Owner") @@ (bob :> "Admin"),
   bill |-> inv :> [status |-> "ABSENT", paid |-> 0],
   rows |-> {}, recipe |-> (bike :> Bill) @@ (screw :> {}) @@ (frame :> {})]

MCStarts ==
  {StartWith(Docs("DRAFT", "ABSENT", "SENT", "DRAFT"), "plain",
             {"stock", "workshop", "members", "catalogue", "partners", "invoices", "apiCatalogue", "apiPartners"}),
   StartWith(Docs("DRAFT", "DRAFT", "ABSENT", "ABSENT"), "absent", {"workshop", "admin", "opening"}),
   StartWith(Docs("DRAFT", "DRAFT", "PARTIALLY_RECEIVED", "DRAFT"), "plain", {"sales", "stock"}),
   StartWith(Docs("CONFIRMED", "DRAFT", "SENT", "DRAFT"), "plain", {"sales", "api"}),
   StartWith(Docs("PICKING", "DRAFT", "SENT", "DRAFT"), "plain", {"sales"}),
   StartWith(Docs("PACKED", "DRAFT", "SENT", "DRAFT"), "plain", {"sales"}),
   StartWith(Docs("SHIPPED", "DRAFT", "SENT", "DRAFT"), "plain", {"sales"})}

Symmetry == Permutations(Request)
=============================================================================
