------------------------------ MODULE BackOffice ------------------------------
(***************************************************************************)
(* The web application and the API over one database: the repository of    *)
(* the one and the service of the other; or, without a database, the demo  *)
(* store of the web application in memory.  The mode is the deployment's   *)
(* and never changes.                                                      *)
(***************************************************************************)
EXTENDS WebStock, WebOrders, WebAdmin, ApiService

CONSTANTS
  Starts          \* tables to begin with, and the desks that work on them

InvoiceRow == [status : {"ABSENT"} \cup InvoiceStatus, paid : Nat]
CatalogueRow == [table : Table, row : Row, key : Key]
DocStatus == {"ABSENT", "DRAFT", "SENT", "PARTIALLY_RECEIVED", "CONFIRMED", "PICKING", "PACKED",
              "SHIPPED", "DELIVERED", "IN_PROGRESS", "COMPLETED"}

PurchaseStatus == {"DRAFT", "SENT", "PARTIALLY_RECEIVED", "COMPLETED"}

\* Of a warehouse that is not there, nothing speaks: no movement, no order.
ASSUME StartsAssumption ==
  \A start \in Starts :
    /\ start.status \in [Doc -> DocStatus] /\ start.desks \subseteq DOMAIN Menu
    /\ \A o \in PurchaseOrder : start.status[o] \in {"ABSENT"} \cup PurchaseStatus
    /\ \A w \in Warehouse : start.depot[w] = "absent" =>
         /\ \A p \in Product : Opening[p][w] = 0
         /\ \A m \in ManufacturingOrder : Build[m].warehouse = w => start.status[m] = "ABSENT"
    /\ start.depot \in [Warehouse -> {"absent", "plain", "default"}]
    /\ start.role \in [User -> {"none"} \cup Role]
    /\ \E u \in User : start.role[u] \in {"Owner", "Admin"}
    /\ start.rows \subseteq CatalogueRow /\ start.bill \in [Invoice -> InvoiceRow]
    /\ start.recipe \in [Product -> ComponentRows]

VARIABLE mode     \* "database" or "demo"

allVars == <<vars, mode>>

Submitted == UNION {Menu[d] : d \in DOMAIN Menu}

Demo == INSTANCE DemoStore

-----------------------------------------------------------------------------
(* Accounts: the movements of a product, which sum up to its stock, beside  *)
(* what the pages say of its documents.                                     *)

Shown == IF mode = "demo" THEN Demo!GetDemoSnapshot ELSE GetAppSnapshot

Sold(page, p) ==
  SumFunction([o \in page.salesOrders \ page.openSalesOrders |-> QuantityOf(o.lines, p)])

Bought(page, p) ==
  SumFunction([o \in page.purchaseOrders |->
    QuantityOf(o.lines, p) - QuantityOf(Outstanding(o.id, o.received), p)])

Returned(page, p) ==
  SumFunction([d \in page.salesReturns |->
    IF d.status = "COMPLETED" THEN QuantityOf(d.lines, p) ELSE 0])

Built(page, p) ==
  SumFunction([m \in page.manufacturingOrders |->
    (IF m.status = "COMPLETED" /\ Build[m.id].product = p THEN Build[m.id].quantity ELSE 0)
    - (IF m.status \in {"IN_PROGRESS", "COMPLETED"}
       THEN Needed(used[m.id], p, Build[m.id].quantity) ELSE 0)])

OnDocuments(page, p) ==
  Bought(page, p) + Returned(page, p) + Built(page, p) - Sold(page, p)

\* The ledger of a product, over all warehouses.
InStock(p) == SumFunction([w \in Warehouse |-> stock[p][w]])

-----------------------------------------------------------------------------
TypeOK ==
  /\ stock \in [Product -> [Warehouse -> Int]]
  /\ plain \in [Product -> Int]
  /\ status \in [Doc -> DocStatus]
  /\ \A o \in PurchaseOrder : \A i \in DOMAIN Lines[o] :
       received[o][i] \in 0..Lines[o][i].quantity
  /\ \A o \in SalesOrder : \A l \in DOMAIN lists[o] :
       /\ lists[o][l].status \in {"PENDING", "IN_PROGRESS", "COMPLETED"}
       /\ \A i \in DOMAIN Lines[o] : lists[o][l].picked[i] \in {0} \cup 0..Lines[o][i].quantity
  /\ \A o \in SalesOrder : \A n \in DOMAIN shipments[o] :
       shipments[o][n] \in {"IN_TRANSIT", "DELIVERED"}
  /\ depot \in [Warehouse -> {"absent", "plain", "default"}]
  /\ active \subseteq Product
  /\ role \in [User -> {"none"} \cup Role]
  /\ bill \in [Invoice -> InvoiceRow]
  /\ rows \subseteq CatalogueRow
  /\ \A r \in Request : req[r].at \in {"idle", "begun", "read", "checked", "counted",
                                       "summed", "consumed", "deleted", "cleared", "looked", "fetched"}
  /\ left \in 0..MaxRequests /\ desk \in DOMAIN Menu
  /\ mode \in {"database", "demo"}

\* What was picked of a packed order: of a line of less than one, nothing.
InFull(o) ==
  [i \in DOMAIN Lines[o] |-> IF Positive(Lines[o][i].quantity) THEN Lines[o][i].quantity ELSE 0]

InitialLists(o) ==
  CASE status[o] = "PICKING" -> <<[status |-> "PENDING", picked |-> NothingPicked(o)]>>
    [] status[o] \in {"PACKED", "SHIPPED"} ->
         <<[status |-> "COMPLETED", picked |-> InFull(o)]>>
    [] OTHER -> <<>>

Init ==
  /\ mode \in {"database", "demo"}
  /\ \E start \in Starts :
       /\ status = start.status
       /\ depot = start.depot
       /\ role = start.role
       /\ rows = start.rows
       /\ recipe = start.recipe
       /\ bill = start.bill
       /\ desk \in start.desks
  /\ stock = Opening
  /\ received = [o \in PurchaseOrder |-> [i \in DOMAIN Lines[o] |->
                   IF status[o] = "COMPLETED" THEN Lines[o][i].quantity
                   ELSE IF status[o] = "PARTIALLY_RECEIVED" /\ i = 1 THEN 1 ELSE 0]]
  /\ lists = [o \in SalesOrder |-> InitialLists(o)]
  /\ shipments = [o \in SalesOrder |-> IF status[o] = "SHIPPED" THEN <<"IN_TRANSIT">> ELSE <<>>]
  /\ used = [m \in ManufacturingOrder |-> {}]
  /\ active = Product
  /\ req = [r \in Request |-> Idle]
  /\ left = MaxRequests
  /\ plain = [p \in Product |-> InStock(p) - OnDocuments(Shown, p)]
  /\ clashed = {}

-----------------------------------------------------------------------------
Handle(r) ==
  \/ CreateStockMovement(r) \/ CreateStockTransfer(r) \/ RecordStocktakeCount(r)
  \/ CreatePurchaseOrder(r) \/ GenerateSmartPurchaseOrders(r) \/ ReceivePurchaseOrder(r)
  \/ UpdateBom(r) \/ CreateManufacturingOrder(r)
  \/ StartManufacturingOrder(r) \/ CompleteManufacturingOrder(r)
  \/ CreateSalesOrder(r) \/ ConfirmSalesOrder(r)
  \/ StartPicking(r) \/ UpdatePickListItem(r) \/ PackOrder(r)
  \/ ShipOrder(r) \/ DeliverOrder(r)
  \/ CreateSalesReturn(r) \/ ApproveSalesReturn(r)
  \/ CreateInvoice(r) \/ RecordPayment(r) \/ TransitionInvoiceStatus(r) \/ CreateCreditNote(r)
  \/ CreateWarehouse(r) \/ UpdateWarehouse(r)
  \/ CreateUser(r) \/ UpdateUserRole(r) \/ DeleteUser(r)
  \/ CreateProduct(r) \/ UpdateProduct(r) \/ SetProductActive(r)
  \/ CreateSupplier(r) \/ UpdateSupplier(r) \/ CreateCustomer(r)
  \/ CreateVariant(r) \/ UpdateVariant(r) \/ DeleteVariant(r) \/ CreateBom(r)
  \/ UpsertCustomerPriceTier(r) \/ DeleteCustomerPriceTier(r) \/ UpsertCustomField(r)
  \/ UpdateOrganizationSettings(r) \/ RefreshExchangeRates(r)
  \/ CreateWebhookSubscription(r) \/ UpdateWebhookSubscription(r)

\* Without a database every repository function hands the call to the store.
\* A start that ran short has taken components for an order that is not
\* started: no document says where they are.
InDemoMode(job) ==
  /\ Offered(job) /\ Accepted(job)
  /\ Demo!Does(job)
  /\ left > 0 /\ left' = left - 1
  /\ plain' = [p \in Product |->
                 IF job.op \in {"movement", "count"} \/ (job.op = "start" /\ status' = status)
                 THEN plain[p] + SumFunction([w \in Warehouse |-> stock'[p][w] - stock[p][w]])
                 ELSE plain[p]]
  /\ used' = IF job.op = "start" /\ status' # status
             THEN [used EXCEPT ![job.doc] = recipe[Build[job.doc].product]] ELSE used
  /\ UNCHANGED <<lists, shipments, req, desk, clashed>>

Next ==
  /\ \/ mode = "database" /\ \E r \in Request : Begin(r) \/ Handle(r) \/ Route(r) \/ Serve(r) \/ Fail(r)
     \/ mode = "demo" /\ \E job \in Menu[desk] : InDemoMode(job)
  /\ UNCHANGED mode

Spec == Init /\ [][Next]_allVars

-----------------------------------------------------------------------------
(* Properties. *)

Touches(d) ==
  IF d \in DOMAIN Lines THEN {Lines[d][i].product : i \in DOMAIN Lines[d]}
  ELSE IF d \in ManufacturingOrder
  THEN {Build[d].product} \cup {c.product : c \in used[d] \cup recipe[Build[d].product]}
  ELSE {}

\* The movements of a product, over all warehouses, come to what the documents
\* that the pages list say was sold, received, returned, consumed and produced,
\* and what was posted without one (movements, counts, and in the store, never
\* in the repository, the components that a start took before it ran short),
\* whatever requests on other documents were under way and wherever any of them
\* failed.  Two requests on one document at a time are excepted: both post it.
\* And nothing is outstanding on a purchase that is not listed as open, however
\* many receive it at a time.
BooksBalance ==
  LET page == Shown IN
  /\ \A p \in Product :
       (\A d \in Doc : d \in clashed => p \notin Touches(d))
         => InStock(p) = plain[p] + OnDocuments(page, p)
  /\ \A o \in page.purchaseOrders \ page.openPurchaseOrders :
       \A i \in DOMAIN o.lines : o.received[i] = o.lines[i].quantity

OnceInEachOrder(p) ==
  \A o \in SalesOrder : \A i, j \in DOMAIN Lines[o] :
     Lines[o][i].product = p /\ Lines[o][j].product = p => i = j

\* No warehouse is taken below zero by movements, transfers, sales and
\* manufacturing of a product that only one request at a time was about; the
\* sum that is read before is not enough for two, and not enough for an order
\* that names the product on two lines.
NeverOverdrawn ==
  \A p \in Product : p \notin clashed /\ OnceInEachOrder(p) =>
    \A w \in Warehouse : stock[p][w] >= 0

\* Somebody can always manage the organization's users, unless two requests
\* about members are under way at a time: two managers can demote each other.
SomebodyManages == "members" \notin clashed => Managers # {}

\* The tables as the demo store has them: it knows no pick lists and leaves an
\* order CONFIRMED.
Seen ==
  [stock |-> stock,
   status |-> [d \in Doc |-> IF status[d] \in {"PICKING", "PACKED", "SHIPPED", "DELIVERED"}
                             THEN "CONFIRMED" ELSE status[d]],
   received |-> received, recipe |-> recipe, depot |-> depot, active |-> active,
   role |-> role, rows |-> rows, bill |-> bill]

\* Of an endpoint of the API, the form that stands for it.
WebForm ==
  [apiCreateOrder |-> "createOrder", portalOrder |-> "createOrder",
   apiCreatePurchase |-> "createPurchase", apiCreateCredit |-> "createCredit",
   apiCreateProduct |-> "createProduct", apiUpdateProduct |-> "updateProduct",
   apiCreateSupplier |-> "createSupplier", apiUpdateSupplier |-> "updateSupplier",
   apiCreateCustomer |-> "createCustomer",
   apiCreateWarehouse |-> "createWarehouse", apiUpdateWarehouse |-> "updateWarehouse"]

AsForm(job) ==
  IF job.op = "apiDeactivate" THEN [op |-> "setActive", product |-> job.product, on |-> FALSE]
  ELSE IF job.op \in DOMAIN WebForm THEN [job EXCEPT !.op = WebForm[job.op]]
  ELSE job

Twin == INSTANCE DemoStore WITH status <- Seen.status,
                                Submitted <- {AsForm(job) : job \in Submitted}

\* What the store has no counterpart of: returns, suggested purchases, variants,
\* price tiers, exchange rates, and changes of a customer, which only the API makes.
OnlyInDatabase ==
  \/ \E d \in SalesReturn : status'[d] # status[d]
  \/ \E o \in PurchaseOrder : status[o] = "ABSENT" /\ status'[o] = "DRAFT"
  \/ \E x \in (rows \cup rows') \ (rows \cap rows') : x.table \in {"variant", "tier", "rate"}
  \/ \E x \in rows \ rows', y \in rows' : {x.table, y.table} = {"customer"} /\ x.row = y.row

\* As long as no two requests overlap, every commit of the repository or of the
\* API is a step that the demo store takes for the same form, or for the one that
\* stands for the endpoint, or it changes nothing that the store has.
LikeDemoStore ==
  [][mode = "database" /\ "application" \notin clashed'
       => Twin!Next \/ OnlyInDatabase]_Twin!demoVars
=============================================================================
