------------------------------ MODULE ApiService ------------------------------
(***************************************************************************)
(* The API process over the database that it shares with the web           *)
(* application: the operations of its service that create numbered         *)
(* documents and that keep the catalogue.  No transaction of theirs locks  *)
(* a row; the audit row is written by a statement of its own after the     *)
(* change, and is not modelled.                                            *)
(***************************************************************************)
EXTENDS WebOrders, WebAdmin

-----------------------------------------------------------------------------
(* The endpoints that create documents and keep the catalogue, with what   *)
(* the service accepts of a request's body before it does anything.  The   *)
(* schemas are those of the forms (ServerActions); what no schema parses   *)
(* is taken as it comes.  The endpoints that move stock have the modules   *)
(* StockTransactions and Fulfilment.                                       *)

ProductsController(job) ==
  \/ job.op = "apiCreateProduct" /\ Named(job)
  \/ job.op = "apiUpdateProduct" /\ Named(job)
  \/ job.op = "apiDeactivate"

VariantsController(job) ==
  \/ job.op \in {"apiCreateVariant", "apiUpdateVariant"} /\ Named(job)
  \/ job.op = "apiDeleteVariant"

SuppliersController(job) ==
  job.op \in {"apiCreateSupplier", "apiUpdateSupplier"} /\ Named(job)

\* The body of a price tier is not parsed.
CustomersController(job) ==
  \/ job.op \in {"apiCreateCustomer", "apiUpdateCustomer"} /\ Named(job)
  \/ job.op = "apiCreateTier"

StockController(job) == job.op \in {"apiCreateWarehouse", "apiUpdateWarehouse"}

SalesOrdersController(job) == job.op = "apiCreateOrder" /\ LinesInput(Lines[job.doc])

\* A purchase order of the API has one line.
PurchaseOrdersController(job) ==
  job.op = "apiCreatePurchase" /\ Len(Lines[job.doc]) = 1 /\ LinesInput(Lines[job.doc])

SalesReturnsController(job) == job.op = "apiCreateReturn" /\ LinesInput(Lines[job.doc])

\* Neither the lines of a credit note nor those of an order of the portal are parsed.
CreditNotesController(job) == job.op = "apiCreateCredit"
PortalController(job) == job.op = "portalOrder"

Routed(job) ==
  \/ ProductsController(job) \/ VariantsController(job) \/ SuppliersController(job)
  \/ CustomersController(job) \/ StockController(job) \/ SalesOrdersController(job)
  \/ PurchaseOrdersController(job) \/ SalesReturnsController(job)
  \/ CreditNotesController(job) \/ PortalController(job)

-----------------------------------------------------------------------------
(* The operations of the service. *)

\* ensureProductExists, for every line: a deactivated product is none.
ProductsExist(d) == \A i \in DOMAIN Lines[d] : Lines[d][i].product \in active

\* What a document refers to is read, then the documents of its kind are
\* counted, then it is inserted; the unique index refuses a code that was
\* given to another one since.
Numbered(r, op, docs, first, refersTo) ==
  LET d == Job(r).doc IN
  \/ /\ At(r, op, "begun")
     /\ Check(r, status[d] = "ABSENT" /\ refersTo, "read", <<>>)
  \/ /\ At(r, op, "read")
     /\ Check(r, TRUE, "counted", <<Count(docs)>>)
  \/ /\ At(r, op, "counted")
     /\ status' = IF Count(docs) = req[r].saw[1] THEN [status EXCEPT ![d] = first] ELSE status
     /\ Commits(r)
     /\ UNCHANGED <<stockVars, received, lists, shipments, recipe, used, adminVars>>

ApiCreateSalesOrder(r) ==
  /\ Job(r).op = "apiCreateOrder"
  /\ Numbered(r, "apiCreateOrder", SalesOrder, "DRAFT", ProductsExist(Job(r).doc))

\* A customer orders what the catalogue showed; nothing is read again.
PortalPlaceOrder(r) ==
  /\ Job(r).op = "portalOrder"
  /\ Numbered(r, "portalOrder", SalesOrder, "DRAFT", TRUE)

ApiCreatePurchaseOrder(r) ==
  /\ Job(r).op = "apiCreatePurchase"
  /\ Numbered(r, "apiCreatePurchase", PurchaseOrder, "SENT", ProductsExist(Job(r).doc))

ApiCreateSalesReturn(r) ==
  /\ Job(r).op = "apiCreateReturn"
  /\ LET o == ReturnOf[Job(r).doc] IN
     Numbered(r, "apiCreateReturn", SalesReturn, "DRAFT",
              status[o] = "CONFIRMED" /\ WithinOrder(Lines[Job(r).doc], o))

ApiCreateCreditNote(r) ==
  /\ Job(r).op = "apiCreateCredit"
  /\ Numbered(r, "apiCreateCredit", CreditNote, "DRAFT", TRUE)

-----------------------------------------------------------------------------
(* Catalogue. *)

ApiCreateProduct(r) == Inserts(r, "apiCreateProduct", "product")
ApiUpdateProduct(r) == Rewrites(r, "apiUpdateProduct", "product")

DeactivateProduct(r) ==
  \/ /\ At(r, "apiDeactivate", "begun")
     /\ Check(r, TRUE, "read", <<>>)
  \/ /\ At(r, "apiDeactivate", "read")
     /\ active' = active \ {Job(r).product}
     /\ Commits(r)
     /\ UNCHANGED <<stockVars, docVars, depot, role, rows, bill>>

\* The variant's product is read first; products are never deleted.
CreateProductVariant(r) ==
  \/ /\ At(r, "apiCreateVariant", "begun")
     /\ Check(r, TRUE, "read", <<>>)
  \/ InsertsAt(r, "apiCreateVariant", "read", "variant")
UpdateProductVariant(r) == Rewrites(r, "apiUpdateVariant", "variant")
DeleteProductVariant(r) == Deletes(r, "apiDeleteVariant", "variant")

ApiCreateSupplier(r) == Inserts(r, "apiCreateSupplier", "supplier")
ApiUpdateSupplier(r) == Rewrites(r, "apiUpdateSupplier", "supplier")

ApiCreateCustomer(r) == Inserts(r, "apiCreateCustomer", "customer")
UpdateCustomer(r) == Rewrites(r, "apiUpdateCustomer", "customer")

\* The customer is read, the tier inserted: a second tier of a product is
\* refused only for the minimum quantity of the first, which is abstracted.
CreateCustomerPriceTier(r) ==
  \/ /\ At(r, "apiCreateTier", "begun")
     /\ Check(r, \E x \in rows : x.table = "customer", "read", <<>>)
  \/ InsertsAt(r, "apiCreateTier", "read", "tier")

ApiCreateWarehouse(r) == OpensWarehouse(r, "apiCreateWarehouse")
ApiUpdateWarehouse(r) == ChangesWarehouse(r, "apiUpdateWarehouse")

-----------------------------------------------------------------------------
Route(r) ==
  /\ req[r].at = "idle"
  /\ left > 0
  /\ left' = left - 1
  /\ \E job \in Menu[desk] :
       /\ Routed(job)
       /\ Enters(r, job)
  /\ UNCHANGED <<desk, stockVars, docVars, adminVars>>

Serve(r) ==
  \/ ApiCreateSalesOrder(r) \/ PortalPlaceOrder(r) \/ ApiCreatePurchaseOrder(r)
  \/ ApiCreateSalesReturn(r) \/ ApiCreateCreditNote(r)
  \/ ApiCreateProduct(r) \/ ApiUpdateProduct(r) \/ DeactivateProduct(r)
  \/ CreateProductVariant(r) \/ UpdateProductVariant(r) \/ DeleteProductVariant(r)
  \/ ApiCreateSupplier(r) \/ ApiUpdateSupplier(r)
  \/ ApiCreateCustomer(r) \/ UpdateCustomer(r) \/ CreateCustomerPriceTier(r)
  \/ ApiCreateWarehouse(r) \/ ApiUpdateWarehouse(r)
=============================================================================
