------------------------- MODULE BackOfficeProofs --------------------------
(***************************************************************************)
(* Of the web application, the API beside it and the demo store: types,    *)
(* stock that is not overdrawn, somebody who manages the members, pages    *)
(* whose stock is what their documents say, and a repository that does     *)
(* what the store does, for any number of requests, products, documents    *)
(* and users.                                                              *)
(***************************************************************************)
EXTENDS BackOffice, FiniteSums

(***************************************************************************)
(* What a request is about: the fields of the forms, and what the schemas  *)
(* leave of them.                                                          *)
(***************************************************************************)
Parsed(job) == job \in Form /\ (Accepted(job) \/ Routed(job))

CatalogueOps ==
  {"createProduct", "updateProduct", "createVariant", "updateVariant", "createSupplier",
   "updateSupplier", "createCustomer", "createBom", "createSubscription", "upsertField",
   "updateSettings", "refreshRates", "apiCreateProduct", "apiUpdateProduct",
   "apiCreateVariant", "apiUpdateVariant", "apiCreateSupplier", "apiUpdateSupplier",
   "apiCreateCustomer", "apiUpdateCustomer", "updateSubscription", "upsertTier", "apiCreateTier"}

(* What the schemas accept. *)
LEMMA Schemas ==
  ASSUME NEW job, Accepted(job) \/ Routed(job)
  PROVE  /\ job.op \in {"movement", "transfer"} => job.quantity > 0
         /\ job.op = "count" => job.counted >= 0
         /\ job.op = "pay" => job.amount > 0
         /\ job.op = "transition" => job.to \in InvoiceStatus
         /\ job.op \in {"createUser", "updateRole"} => job.role \in Role
         /\ job.op \in CatalogueOps \ {"updateSubscription", "upsertTier", "apiCreateTier"}
              => job.key # Blank
         /\ job.op = "transfer" => job.warehouse # job.to
         /\ job.op # "none"
BY DEF Accepted, Routed, CatalogueOps, Positive, Named, StockMovementInput, StockTransferInput,
     StocktakeCountInput, CreateStockMovementAction, RecordStocktakeAction,
     CreateStockTransferAction, CreateWarehouseAction, UpdateWarehouseAction,
     CreateSalesOrderAction, ConfirmSalesOrderAction, CreatePurchaseOrderAction,
     ReceivePurchaseOrderAction, GenerateSmartPurchaseOrdersAction, CreateSalesReturnAction,
     ApproveSalesReturnAction, StartPickingAction, UpdatePickListItemAction, MarkPackedAction,
     ShipOrderAction, DeliverOrderAction, CreateInvoiceAction, RecordPaymentAction,
     TransitionInvoiceStatusAction, CreateCreditNoteAction, CreateBomAction, UpdateBomAction,
     CreateManufacturingOrderAction, StartManufacturingOrderAction,
     CompleteManufacturingOrderAction, CreateUserAction, UpdateUserRoleAction, DeleteUserAction,
     CreateProductAction, UpdateProductAction, SetProductActiveAction, CreateVariantAction,
     UpdateVariantAction, DeleteVariantAction, CreateSupplierAction, UpdateSupplierAction,
     CreateCustomerAction, CreateWebhookSubscriptionAction, UpdateWebhookSubscriptionAction,
     UpsertCustomFieldAction, UpsertCustomerPriceTierAction, DeleteCustomerPriceTierAction,
     UpdateOrganizationSettingsAction, RefreshExchangeRatesAction,
     ProductsController, VariantsController, SuppliersController, CustomersController,
     StockController, SalesOrdersController, PurchaseOrdersController, SalesReturnsController,
     CreditNotesController, PortalController

LEMMA StockForms ==
  ASSUME NEW job \in Form
  PROVE  /\ job.op = "movement" =>
              /\ job.product \in Product /\ job.warehouse \in Warehouse /\ job.quantity \in Int
              /\ "product" \in DOMAIN job
         /\ job.op = "transfer" =>
              /\ job.product \in Product /\ job.warehouse \in Warehouse /\ job.to \in Warehouse
              /\ job.quantity \in Int /\ "product" \in DOMAIN job
         /\ job.op = "count" =>
              /\ job.product \in Product /\ job.warehouse \in Warehouse /\ job.counted \in Int
              /\ "product" \in DOMAIN job
         /\ job.op \in {"setActive", "apiDeactivate"} => job.product \in Product
<1>1. job.op \in {"movement", "transfer", "count", "setActive", "apiDeactivate"}
        => job \in OnStock
  BY DEF Form, OnOrders, OnInvoices, OnMembers, OnWarehouses, OnCatalogue
<1> QED BY <1>1 DEF OnStock

LEMMA OrderForms ==
  ASSUME NEW job \in Form
  PROVE  /\ job.op \in {"createOrder", "apiCreateOrder", "portalOrder", "confirm", "startPicking",
                        "pack", "ship", "deliver"} => job.doc \in SalesOrder /\ "doc" \in DOMAIN job
         /\ job.op = "pick" => /\ job.doc \in SalesOrder /\ job.list \in Nat
                               /\ job.line \in DOMAIN Lines[job.doc] /\ job.quantity \in Int
         /\ job.op \in {"createPurchase", "apiCreatePurchase", "suggest", "receive"} =>
              job.doc \in PurchaseOrder /\ "doc" \in DOMAIN job
         /\ job.op \in {"createReturn", "apiCreateReturn", "approve"} =>
              job.doc \in SalesReturn /\ "doc" \in DOMAIN job
         /\ job.op \in {"createCredit", "apiCreateCredit"} => job.doc \in CreditNote
         /\ job.op \in {"createBuild", "start", "complete"} =>
              job.doc \in ManufacturingOrder /\ "recipe" \in DOMAIN job
         /\ job.op = "updateBom" => job.recipe \in Product /\ job.components \in ComponentRows
<1>1. job.op \in {"createOrder", "apiCreateOrder", "portalOrder", "confirm", "startPicking",
                  "pack", "ship", "deliver", "pick", "createPurchase", "apiCreatePurchase",
                  "suggest", "receive", "createReturn", "apiCreateReturn", "approve",
                  "createCredit", "apiCreateCredit", "createBuild", "start", "complete",
                  "updateBom"} => job \in OnOrders
  BY DEF Form, OnStock, OnInvoices, OnMembers, OnWarehouses, OnCatalogue
<1> QED BY <1>1 DEF OnOrders

LEMMA OtherForms ==
  ASSUME NEW job, Parsed(job)
  PROVE  /\ job.op \in {"createInvoice", "pay", "transition"} => job.target \in Invoice
         /\ job.op = "pay" => job.amount \in Int
         /\ job.op \in {"createUser", "updateRole", "deleteUser"} =>
              /\ job.actor \in User /\ job.user \in User
              /\ job.area = "members" /\ "area" \in DOMAIN job
         /\ job.op \in {"createWarehouse", "updateWarehouse", "apiCreateWarehouse",
                        "apiUpdateWarehouse"} => job.target \in Warehouse
         /\ job.op \in CatalogueOps => job.target \in Row /\ job.key \in Key
<1>1. job.op \in {"createInvoice", "pay", "transition"} => job \in OnInvoices
  BY DEF Parsed, Form, OnStock, OnOrders, OnMembers, OnWarehouses, OnCatalogue
<1>2. job.op \in {"createUser", "updateRole", "deleteUser"} => job \in OnMembers
  BY DEF Parsed, Form, OnStock, OnOrders, OnInvoices, OnWarehouses, OnCatalogue
<1>3. job.op \in {"createWarehouse", "updateWarehouse", "apiCreateWarehouse",
                  "apiUpdateWarehouse"} => job \in OnWarehouses
  BY DEF Parsed, Form, OnStock, OnOrders, OnInvoices, OnMembers, OnCatalogue
<1>4. job.op \in CatalogueOps => job \in OnCatalogue
  BY DEF Parsed, Form, OnStock, OnOrders, OnInvoices, OnMembers, OnWarehouses, CatalogueOps
<1>5. job.op \in CatalogueOps => job.target \in Row /\ job.key \in Key
  <2>1. job.op \in CatalogueOps => job.target \in Row /\ job.key \in Key \cup {Blank}
    BY <1>4 DEF OnCatalogue, CatalogueOps
  <2>2. job.op \in {"updateSubscription", "upsertTier", "apiCreateTier"} => job.key \in Key
    BY <1>4 DEF OnCatalogue, CatalogueOps
  <2> QED BY <2>1, <2>2, Schemas DEF Parsed
<1> QED BY <1>1, <1>2, <1>3, <1>5 DEF OnInvoices, OnMembers, OnWarehouses

(* The subjects of a form that is about stock, or about members. *)
LEMMA AboutStock ==
  ASSUME NEW job \in Form
  PROVE  /\ job.op \in {"movement", "transfer", "count"} => job.product \in Subjects(job)
         /\ job.op \in {"confirm", "receive", "approve"} =>
              \A i \in DOMAIN Lines[job.doc] : Lines[job.doc][i].product \in Subjects(job)
         /\ job.op \in {"start", "complete"} => Product \subseteq Subjects(job)
<1>1. job.op \in {"movement", "transfer", "count"} => "product" \in DOMAIN job
  BY StockForms
<1>2. job.op \in {"confirm", "receive", "approve"} =>
        "doc" \in DOMAIN job /\ job.doc \in DOMAIN Lines
  BY OrderForms, LinesAssumption
<1>3. job.op \in {"start", "complete"} => "recipe" \in DOMAIN job BY OrderForms
<1> QED BY <1>1, <1>2, <1>3 DEF Subjects

LEMMA AboutMembers ==
  ASSUME NEW job, Parsed(job), job.op \in {"createUser", "updateRole", "deleteUser"}
  PROVE  "members" \in Subjects(job)
<1>1. "area" \in DOMAIN job /\ job["area"] = "members" BY OtherForms
<1> QED BY <1>1 DEF Subjects

------------------------

(* Quantities of a product on lines and in bills. *)
LEMMA QuantityInt ==
  ASSUME NEW lines, IsFiniteSet(DOMAIN lines), \A i \in DOMAIN lines : lines[i].quantity \in Int,
         NEW p
  PROVE  /\ QuantityOf(lines, p) \in Int
         /\ (\A i \in DOMAIN lines : lines[i].product # p) => QuantityOf(lines, p) = 0
         /\ (\A i \in DOMAIN lines : lines[i].quantity >= 0) => QuantityOf(lines, p) >= 0
         /\ \A i \in DOMAIN lines :
              lines[i].product = p /\ (\A j \in DOMAIN lines : lines[j].product = p => i = j)
                => QuantityOf(lines, p) = lines[i].quantity
<1> DEFINE S == {j \in DOMAIN lines : lines[j].product = p}
           f == [i \in S |-> lines[i].quantity]
<1>1. IsFiniteSet(S) /\ DOMAIN f = S /\ \A i \in S : f[i] = lines[i].quantity
  BY FS_Subset
<1>2. QuantityOf(lines, p) = SumFunctionOnSet(f, S) BY <1>1 DEF QuantityOf, SumFunction
<1>3. \A i \in S : f[i] \in Int BY <1>1
<1>4. SumFunctionOnSet(f, S) \in Int
  <2> HIDE DEF S, f
  <2> QED BY <1>1, <1>3, SumInt
<1>5. ASSUME \A i \in DOMAIN lines : lines[i].product # p PROVE QuantityOf(lines, p) = 0
  <2>1. S = {} BY <1>5
  <2> QED BY <1>2, <2>1, SumEmpty
<1>6. ASSUME \A i \in DOMAIN lines : lines[i].quantity >= 0 PROVE QuantityOf(lines, p) >= 0
  <2>1. \A i \in S : f[i] \in Nat BY <1>1, <1>3, <1>6
  <2> HIDE DEF S, f
  <2> QED BY <1>1, <1>2, <2>1, SumNat
<1>7. ASSUME NEW i \in DOMAIN lines, lines[i].product = p,
             \A j \in DOMAIN lines : lines[j].product = p => i = j
      PROVE  QuantityOf(lines, p) = lines[i].quantity
  <2>1. S = {i} /\ i \in S /\ S \ {i} = {} BY <1>7
  <2>2. SumFunctionOnSet(f, S) = f[i] + SumFunctionOnSet(f, S \ {i})
    <3> HIDE DEF S, f
    <3> QED BY <1>1, <1>3, <2>1, SumRemove
  <2>3. f[i] = lines[i].quantity /\ f[i] \in Int BY <1>1, <1>3, <2>1
  <2> HIDE DEF S, f
  <2> QED BY <1>2, <2>1, <2>2, <2>3, SumEmpty
<1> QED BY <1>2, <1>4, <1>5, <1>6, <1>7

LEMMA LinesTyped ==
  ASSUME NEW d \in SalesOrder \cup PurchaseOrder \cup SalesReturn \cup CreditNote
  PROVE  /\ Lines[d] \in Seq([product : Product, quantity : Int])
         /\ IsFiniteSet(DOMAIN Lines[d])
         /\ \A i \in DOMAIN Lines[d] : Lines[d][i].product \in Product /\ Lines[d][i].quantity \in Int
         /\ d \in PurchaseOrder \cup SalesReturn => \A i \in DOMAIN Lines[d] : Lines[d][i].quantity > 0
<1>1. Lines[d] \in Seq([product : Product, quantity : Int]) BY LinesAssumption
<1>2. DOMAIN Lines[d] = 1..Len(Lines[d]) /\ Len(Lines[d]) \in Nat BY <1>1
<1>3. IsFiniteSet(1..Len(Lines[d])) BY <1>2, FS_Interval
<1>4. \A i \in 1..Len(Lines[d]) : Lines[d][i] \in [product : Product, quantity : Int]
  <2> DEFINE Line == [product : Product, quantity : Int]
             l == Lines[d]
  <2>1. l \in Seq(Line) BY <1>1
  <2> HIDE DEF Line, l
  <2>2. \A i \in 1..Len(l) : l[i] \in Line BY <2>1
  <2> QED BY <2>2 DEF Line, l
<1> QED BY <1>1, <1>2, <1>3, <1>4, LinesAssumption DEF Positive

LEMMA NeededInt ==
  ASSUME NEW rowset \in ComponentRows, NEW p, NEW quantity \in Int
  PROVE  Needed(rowset, p, quantity) \in Int
<1> DEFINE S == {c \in rowset : c.product = p}
           f == [c \in S |-> c.quantity]
<1>1. IsFiniteSet(S) /\ DOMAIN f = S /\ \A c \in S : f[c] \in Int
  BY FS_Subset DEF ComponentRows, ComponentRow
<1>2. SumFunctionOnSet(f, S) \in Int
  <2> HIDE DEF S, f
  <2> QED BY <1>1, SumInt
<1>3. Needed(rowset, p, quantity) = SumFunctionOnSet(f, S) * quantity
  BY <1>1 DEF Needed, SumFunction
<1> QED BY <1>2, <1>3

(* The demo store sums as the repository does. *)
LEMMA DemoSums ==
  /\ \A lines, p : Demo!ProductSum(lines, p) = QuantityOf(lines, p)
  /\ \A rowset, p, o : Demo!Takes(rowset, p, o) = Needed(rowset, p, Build[o].quantity)
<1>1. ASSUME NEW f PROVE Demo!SumFunction(f) = SumFunction(f)
  BY Zenon DEF Demo!SumFunction, SumFunction, Demo!SumFunctionOnSet, SumFunctionOnSet,
               Demo!FoldFunctionOnSet, FoldFunctionOnSet, Demo!MapThenFoldSet, MapThenFoldSet
<1>2. ASSUME NEW lines, NEW p PROVE Demo!ProductSum(lines, p) = QuantityOf(lines, p)
  BY <1>1, Zenon DEF Demo!ProductSum, QuantityOf
<1>3. ASSUME NEW rowset, NEW p, NEW o
      PROVE  Demo!Takes(rowset, p, o) = Needed(rowset, p, Build[o].quantity)
  BY <1>1, Zenon DEF Demo!Takes, Needed
<1> QED BY <1>2, <1>3

(***************************************************************************)
(* Types.  Beyond TypeOK: the shape of the rows that a request reads, and  *)
(* what a request has to remember of them for its writes to be typed.      *)
(***************************************************************************)
Steps == {"begun", "read", "checked", "counted", "summed", "consumed", "deleted", "cleared",
          "looked", "fetched"}

Received(o) ==
  {f \in [DOMAIN Lines[o] -> Int] : \A i \in DOMAIN Lines[o] : f[i] \in 0..Lines[o][i].quantity}

PickList(o) ==
  [status : {"PENDING", "IN_PROGRESS", "COMPLETED"},
   picked : {f \in [DOMAIN Lines[o] -> Int] :
               \A i \in DOMAIN Lines[o] : f[i] \in {0} \cup 0..Lines[o][i].quantity}]

StockTyped == stock \in [Product -> [Warehouse -> Int]] /\ plain \in [Product -> Int]

DocsTyped ==
  /\ status \in [Doc -> DocStatus]
  /\ DOMAIN received = PurchaseOrder
  /\ \A o \in PurchaseOrder : received[o] \in Received(o)
  /\ DOMAIN lists = SalesOrder
  /\ \A o \in SalesOrder : lists[o] \in Seq(PickList(o))
  /\ shipments \in [SalesOrder -> Seq({"IN_TRANSIT", "DELIVERED"})]
  /\ recipe \in [Product -> ComponentRows]
  /\ used \in [ManufacturingOrder -> ComponentRows]

AdminTyped ==
  /\ depot \in [Warehouse -> {"absent", "plain", "default"}]
  /\ active \in SUBSET Product
  /\ role \in [User -> {"none"} \cup Role]
  /\ bill \in [Invoice -> InvoiceRow]
  /\ rows \in SUBSET CatalogueRow

TablesTyped == StockTyped /\ DocsTyped /\ AdminTyped

\* What request r has read.
Knows(r) ==
  LET job == Job(r)
      saw == req[r].saw
  IN
  /\ At(r, "count", "checked") => saw[1] \in Int
  /\ At(r, "receive", "read") => saw[1] \subseteq Warehouse /\ saw[2] \in Received(job.doc)
  /\ At(r, "start", "consumed") => saw[1] \in ComponentRows
  /\ At(r, "confirm", "read") => saw[1] \subseteq Warehouse
  /\ At(r, "confirm", "summed") => saw[1] \in Warehouse
  /\ At(r, "approve", "read") => saw[1] \subseteq Warehouse
  /\ At(r, "pick", "read") => /\ saw[1] \in {"PENDING", "IN_PROGRESS", "COMPLETED"}
                              /\ job.list \in DOMAIN lists[job.doc]
                              /\ Pickable(job.doc, job.line, job.quantity)
  /\ At(r, "pay", "read") => saw[1] \in InvoiceRow

Working(r) == Parsed(Job(r)) /\ req[r].at \in Steps /\ Knows(r)

RequestsTyped ==
  /\ DOMAIN req = Request
  /\ \A r \in Request : req[r] = Idle \/ Working(r)

BoundsTyped ==
  /\ left \in 0..MaxRequests /\ desk \in DOMAIN Menu
  /\ mode \in {"database", "demo"}
  /\ mode = "demo" => \A r \in Request : req[r] = Idle

TypeInv == TablesTyped /\ RequestsTyped /\ BoundsTyped

\* What a step of request r does to the requests.
Moves(r) ==
  /\ req[r] # Idle
  /\ DOMAIN req' = Request
  /\ \A q \in Request \ {r} : req'[q] = req[q]
  /\ \/ req'[r] = Idle
     \/ /\ req'[r].job = req[r].job /\ req'[r].at \in Steps
        /\ UNCHANGED <<stockVars, docVars, adminVars>>
  /\ UNCHANGED boundVars

LEMMA Checked ==
  ASSUME RequestsTyped, NEW r \in Request, req[r].at \in Steps, NEW step \in Steps, NEW saw,
         UNCHANGED <<stockVars, docVars, adminVars, boundVars>>
  PROVE  /\ Advance(r, step, saw) =>
              Moves(r) /\ req'[r].job = req[r].job /\ req'[r].at = step /\ req'[r].saw = saw
         /\ Finish(r) => Moves(r) /\ req'[r] = Idle
BY DEF RequestsTyped, Moves, Advance, Finish, Idle, Job, Steps

LEMMA Committed ==
  ASSUME RequestsTyped, NEW r \in Request, req[r].at \in Steps, Commits(r)
  PROVE  Moves(r) /\ req'[r] = Idle
BY DEF RequestsTyped, Moves, Commits, Finish, Idle, Steps

(* A step that keeps the tables' types and the lists there are keeps the    *)
(* requests'.                                                               *)
LEMMA MovesTyped ==
  ASSUME TypeInv, NEW r \in Request, mode = "database", mode' = mode, Moves(r), TablesTyped',
         \A o \in SalesOrder : DOMAIN lists[o] \subseteq DOMAIN (lists'[o]),
         req'[r] = Idle \/ Knows(r)'
  PROVE  TypeInv'
<1>1. \A q \in Request : req'[q] = Idle \/ Working(q)'
  <2> SUFFICES ASSUME NEW q \in Request PROVE req'[q] = Idle \/ Working(q)' OBVIOUS
  <2>1. CASE q = r
    <3>1. Parsed(Job(r)) BY DEF TypeInv, RequestsTyped, Moves, Working
    <3>2. req'[r] = Idle \/ (Parsed(Job(r)') /\ req'[r].at \in Steps)
      BY <3>1 DEF Moves, Job
    <3> QED BY <2>1, <3>2 DEF Working, Job, Parsed, Routed
  <2>2. CASE q # r /\ req[q] = Idle BY <2>2 DEF Moves
  <2>3. CASE q # r /\ Working(q)
    <3>1. req'[q] = req[q] BY <2>3 DEF Moves
    <3>2. At(q, "pick", "read") => Job(q).doc \in SalesOrder
      BY <2>3, OrderForms DEF Working, Parsed, At, Job
    <3>3. Knows(q)' BY <2>3, <3>1, <3>2 DEF Working, Knows, At, Job
    <3> QED BY <2>3, <3>1, <3>3 DEF Working, Job
  <2> QED BY <2>1, <2>2, <2>3 DEF TypeInv, RequestsTyped
<1> QED BY <1>1 DEF TypeInv, RequestsTyped, BoundsTyped, Moves, boundVars

------------------------
(* What every step of a request comes to. *)
Outcome(r) ==
  /\ Moves(r)
  /\ TablesTyped'
  /\ \A o \in SalesOrder : DOMAIN lists[o] \subseteq DOMAIN (lists'[o])
  /\ req'[r] = Idle \/ Knows(r)'

MemberOps == {"createUser", "updateRole", "deleteUser"}
TakingOps == {"movement", "transfer", "count", "confirm", "start"}

\* It changes no stock and no member, and has not read how much there is.
Aside(r) == Job(r).op \notin MemberOps \cup TakingOps /\ UNCHANGED <<stock, role>>

LEMMA AtWorks ==
  ASSUME TypeInv, NEW r \in Request, NEW op, NEW step \in Steps, At(r, op, step)
  PROVE  Working(r) /\ Parsed(Job(r)) /\ Job(r).op = op /\ req[r].at = step
BY DEF TypeInv, RequestsTyped, Working, At, Idle, Steps, Job

LEMMA Looking ==
  ASSUME TypeInv, NEW r \in Request, req[r].at \in Steps, NEW step \in Steps, NEW saw,
         Advance(r, step, saw) \/ Finish(r),
         UNCHANGED <<stockVars, docVars, adminVars, boundVars>>
  PROVE  /\ Moves(r) /\ TablesTyped' /\ UNCHANGED <<lists, stock, role>>
         /\ \/ req'[r] = Idle
            \/ req'[r].job = Job(r) /\ req'[r].at = step /\ req'[r].saw = saw
         /\ Job(r).op \notin {"count", "receive", "start", "confirm", "approve", "pick", "pay"}
              => Outcome(r)
<1>1. TablesTyped' /\ UNCHANGED <<lists, stock, role>>
  BY DEF TypeInv, TablesTyped, StockTyped, DocsTyped, AdminTyped, stockVars, docVars, adminVars
<1>2. /\ Moves(r)
      /\ req'[r] = Idle \/ (req'[r].job = Job(r) /\ req'[r].at = step /\ req'[r].saw = saw)
  BY Checked DEF TypeInv, Job
<1>3. Job(r).op \notin {"count", "receive", "start", "confirm", "approve", "pick", "pay"}
        => req'[r] = Idle \/ Knows(r)'
  BY <1>2 DEF Knows, At, Job
<1> QED BY <1>1, <1>2, <1>3 DEF Outcome

LEMMA Writing ==
  ASSUME TypeInv, NEW r \in Request, req[r].at \in Steps, Commits(r), TablesTyped',
         \A o \in SalesOrder : DOMAIN lists[o] \subseteq DOMAIN (lists'[o])
  PROVE  Outcome(r) /\ req'[r] = Idle
BY Committed DEF TypeInv, Outcome

------------------------
(* The catalogue. *)
Keeping == CatalogueOps \cup {"deleteVariant", "apiDeleteVariant", "deleteTier"}

LEMMA RowsWritten ==
  ASSUME TypeInv, NEW r \in Request, NEW op \in Keeping, NEW step \in Steps, At(r, op, step),
         Commits(r), UNCHANGED <<stockVars, docVars, depot, active, role, bill>>,
         \/ rows' \in SUBSET rows
         \/ op \in CatalogueOps /\ \E table \in Table, kept \in SUBSET rows :
              rows' = kept \cup {[table |-> table, row |-> Job(r).target, key |-> Job(r).key]}
  PROVE  Outcome(r) /\ Aside(r)
<1>1. Job(r).op = op /\ req[r].at \in Steps BY AtWorks
<1>2. rows \in SUBSET CatalogueRow BY DEF TypeInv, TablesTyped, AdminTyped
<1>3. op \in CatalogueOps => Job(r).target \in Row /\ Job(r).key \in Key
  BY AtWorks, OtherForms
<1>4. rows' \in SUBSET CatalogueRow BY <1>2, <1>3 DEF CatalogueRow
<1>5. TablesTyped' /\ UNCHANGED <<lists, stock, role>>
  BY <1>4 DEF TypeInv, TablesTyped, StockTyped, DocsTyped, AdminTyped, stockVars, docVars
<1>6. op \notin MemberOps \cup TakingOps
  BY DEF Keeping, CatalogueOps, MemberOps, TakingOps
<1> QED BY <1>1, <1>5, <1>6, Writing DEF Aside

LEMMA Inserting ==
  ASSUME TypeInv, NEW r \in Request, NEW op \in CatalogueOps, NEW step \in Steps,
         NEW table \in Table, InsertsAt(r, op, step, table)
  PROVE  Outcome(r) /\ Aside(r)
<1>1. /\ At(r, op, step) /\ Commits(r) /\ op \in Keeping
      /\ UNCHANGED <<stockVars, docVars, depot, active, role, bill>>
  BY DEF InsertsAt, Keeping
<1>2. \/ rows' \in SUBSET rows
      \/ rows' = rows \cup {[table |-> table, row |-> Job(r).target, key |-> Job(r).key]}
  BY DEF InsertsAt
<1> QED BY <1>1, <1>2, RowsWritten

LEMMA LooksAside ==
  ASSUME TypeInv, NEW r \in Request, NEW op, op \in Keeping \cup
           {"setActive", "apiDeactivate", "createWarehouse", "updateWarehouse", "apiCreateWarehouse",
            "apiUpdateWarehouse", "createInvoice", "transition", "createOrder", "createPurchase",
            "suggest", "createReturn", "createCredit", "createBuild", "apiCreateOrder",
            "portalOrder", "apiCreatePurchase", "apiCreateReturn", "apiCreateCredit", "updateBom",
            "startPicking", "pack", "ship", "deliver", "complete"},
         NEW before \in Steps, At(r, op, before), NEW step \in Steps, NEW saw,
         Advance(r, step, saw) \/ Finish(r),
         UNCHANGED <<stockVars, docVars, adminVars, boundVars>>
  PROVE  Outcome(r) /\ Aside(r)
<1>1. Job(r).op = op /\ req[r].at \in Steps BY AtWorks
<1>2. op \notin MemberOps \cup TakingOps \cup {"receive", "approve", "pick", "pay"}
  BY DEF Keeping, CatalogueOps, MemberOps, TakingOps
<1> QED BY <1>1, <1>2, Looking DEF Aside, TakingOps

LEMMA Rewriting ==
  ASSUME TypeInv, NEW r \in Request, NEW op \in CatalogueOps, NEW table \in Table,
         Rewrites(r, op, table)
  PROVE  Outcome(r) /\ Aside(r)
<1>1. CASE At(r, op, "begun")
  BY <1>1, LooksAside DEF Rewrites, At, Check, Steps, Keeping
<1>2. CASE At(r, op, "read")
  <2>1. Commits(r) /\ UNCHANGED <<stockVars, docVars, depot, active, role, bill>>
    BY <1>2 DEF Rewrites, At
  <2>2. \/ rows' \in SUBSET rows
        \/ \E kept \in SUBSET rows :
             rows' = kept \cup {[table |-> table, row |-> Job(r).target, key |-> Job(r).key]}
    <3> DEFINE kept == {other \in rows : other.table # table \/ other.row # Job(r).target}
    <3>1. \/ rows' = rows
          \/ rows' = kept \cup {[table |-> table, row |-> Job(r).target, key |-> Job(r).key]}
      BY <1>2 DEF Rewrites, At
    <3> QED BY <3>1
  <2> QED BY <1>2, <2>1, <2>2, RowsWritten DEF Steps, Keeping
<1> QED BY <1>1, <1>2 DEF Rewrites

LEMMA Deleting ==
  ASSUME TypeInv, NEW r \in Request, NEW op \in Keeping, NEW table \in Table,
         Deletes(r, op, table)
  PROVE  Outcome(r) /\ Aside(r)
<1>1. CASE At(r, op, "begun") BY <1>1, LooksAside DEF Deletes, At, Check, Steps
<1>2. CASE At(r, op, "read")
  <2>1. /\ Commits(r) /\ UNCHANGED <<stockVars, docVars, depot, active, role, bill>>
        /\ rows' \in SUBSET rows
    BY <1>2 DEF Deletes, At
  <2> QED BY <1>2, <2>1, RowsWritten DEF Steps
<1> QED BY <1>1, <1>2 DEF Deletes

\* The operations that write one row of the catalogue, or a numbered document.
Catalogues(r) ==
  \/ CreateProduct(r) \/ UpdateProduct(r) \/ CreateSupplier(r) \/ UpdateSupplier(r)
  \/ CreateCustomer(r) \/ CreateVariant(r) \/ UpdateVariant(r) \/ DeleteVariant(r)
  \/ CreateBom(r) \/ CreateWebhookSubscription(r) \/ UpdateWebhookSubscription(r)
  \/ DeleteCustomerPriceTier(r) \/ UpsertCustomerPriceTier(r) \/ UpsertCustomField(r)
  \/ RefreshExchangeRates(r) \/ UpdateOrganizationSettings(r)
  \/ ApiCreateProduct(r) \/ ApiUpdateProduct(r)
  \/ CreateProductVariant(r) \/ UpdateProductVariant(r) \/ DeleteProductVariant(r)
  \/ ApiCreateSupplier(r) \/ ApiUpdateSupplier(r)
  \/ ApiCreateCustomer(r) \/ UpdateCustomer(r) \/ CreateCustomerPriceTier(r)
Numbers(r) ==
  \/ CreateSalesOrder(r) \/ CreatePurchaseOrder(r) \/ GenerateSmartPurchaseOrders(r)
  \/ CreateManufacturingOrder(r) \/ CreateSalesReturn(r) \/ CreateCreditNote(r)
  \/ ApiCreateSalesOrder(r) \/ PortalPlaceOrder(r) \/ ApiCreatePurchaseOrder(r)
  \/ ApiCreateSalesReturn(r) \/ ApiCreateCreditNote(r)

LEMMA CatalogueKept ==
  ASSUME TypeInv, NEW r \in Request, Catalogues(r)
  PROVE  Outcome(r) /\ Aside(r)
<1>1. \A op \in CatalogueOps, step \in Steps, table \in Table :
        InsertsAt(r, op, step, table) => Outcome(r) /\ Aside(r)
  BY Inserting
<1>2. \A op \in CatalogueOps, table \in Table :
        Inserts(r, op, table) \/ Rewrites(r, op, table) => Outcome(r) /\ Aside(r)
  BY <1>1, Rewriting DEF Inserts, Steps
<1>3. \A op \in Keeping, table \in Table : Deletes(r, op, table) => Outcome(r) /\ Aside(r)
  BY Deleting
<1>4. CASE \/ CreateProduct(r) \/ UpdateProduct(r) \/ CreateSupplier(r) \/ UpdateSupplier(r)
           \/ CreateCustomer(r) \/ CreateVariant(r) \/ UpdateVariant(r)
           \/ CreateBom(r) \/ CreateWebhookSubscription(r) \/ UpdateWebhookSubscription(r)
           \/ UpsertCustomField(r)
  BY <1>2, <1>4 DEF CreateProduct, UpdateProduct, CreateSupplier, UpdateSupplier, CreateCustomer,
       CreateVariant, UpdateVariant, CreateBom, CreateWebhookSubscription,
       UpdateWebhookSubscription, UpsertCustomField, CatalogueOps, Table
<1>5. CASE \/ ApiCreateProduct(r) \/ ApiUpdateProduct(r) \/ UpdateProductVariant(r)
           \/ ApiCreateSupplier(r) \/ ApiUpdateSupplier(r) \/ ApiCreateCustomer(r)
           \/ UpdateCustomer(r)
  BY <1>2, <1>5 DEF ApiCreateProduct, ApiUpdateProduct, UpdateProductVariant, ApiCreateSupplier,
       ApiUpdateSupplier, ApiCreateCustomer, UpdateCustomer, CatalogueOps, Table
<1>6. CASE DeleteVariant(r) \/ DeleteCustomerPriceTier(r) \/ DeleteProductVariant(r)
  BY <1>3, <1>6 DEF DeleteVariant, DeleteCustomerPriceTier, DeleteProductVariant, Keeping, Table
<1>7. CASE UpsertCustomerPriceTier(r)
  <2>1. CASE At(r, "upsertTier", "begun")
    BY <1>7, <2>1, LooksAside DEF UpsertCustomerPriceTier, At, Check, Steps, Keeping, CatalogueOps
  <2>2. CASE At(r, "upsertTier", "looked")
    <3>1. Commits(r) /\ UNCHANGED <<stockVars, docVars, depot, active, role, bill>>
      BY <1>7, <2>2 DEF UpsertCustomerPriceTier, At
    <3>2. \/ rows' \in SUBSET rows
          \/ rows' = rows \cup {[table |-> "tier", row |-> Job(r).target, key |-> Job(r).key]}
      BY <1>7, <2>2 DEF UpsertCustomerPriceTier, At
    <3>3. "upsertTier" \in CatalogueOps /\ "tier" \in Table /\ "looked" \in Steps
      BY DEF CatalogueOps, Table, Steps
    <3> QED BY <2>2, <3>1, <3>2, <3>3, RowsWritten DEF Keeping
  <2> QED BY <1>7, <2>1, <2>2 DEF UpsertCustomerPriceTier
<1>8. CASE RefreshExchangeRates(r)
  <2>1. CASE At(r, "refreshRates", "begun")
    BY <1>8, <2>1, LooksAside
       DEF RefreshExchangeRates, InsertsAt, At, Check, Steps, Keeping, CatalogueOps
  <2>2. CASE InsertsAt(r, "refreshRates", "fetched", "rate")
    BY <1>1, <2>2 DEF Steps, CatalogueOps, Table
  <2> QED BY <1>8, <2>1, <2>2 DEF RefreshExchangeRates
<1>9. CASE CreateProductVariant(r)
  <2>1. CASE At(r, "apiCreateVariant", "begun")
    BY <1>9, <2>1, LooksAside
       DEF CreateProductVariant, InsertsAt, At, Check, Steps, Keeping, CatalogueOps
  <2>2. CASE InsertsAt(r, "apiCreateVariant", "read", "variant")
    BY <1>1, <2>2 DEF Steps, CatalogueOps, Table
  <2> QED BY <1>9, <2>1, <2>2 DEF CreateProductVariant
<1>10. CASE CreateCustomerPriceTier(r)
  <2>1. CASE At(r, "apiCreateTier", "begun")
    BY <1>10, <2>1, LooksAside
       DEF CreateCustomerPriceTier, InsertsAt, At, Check, Steps, Keeping, CatalogueOps
  <2>2. CASE InsertsAt(r, "apiCreateTier", "read", "tier")
    BY <1>1, <2>2 DEF Steps, CatalogueOps, Table
  <2> QED BY <1>10, <2>1, <2>2 DEF CreateCustomerPriceTier
<1>11. CASE UpdateOrganizationSettings(r)
  <2>1. /\ At(r, "updateSettings", "begun") /\ Commits(r)
        /\ UNCHANGED <<stockVars, docVars, depot, active, role, bill>>
    BY <1>11 DEF UpdateOrganizationSettings
  <2> DEFINE kept == {other \in rows : other.table # "settings"}
  <2>2. kept \in SUBSET rows /\
        rows' = kept \cup {[table |-> "settings", row |-> Job(r).target, key |-> Job(r).key]}
    BY <1>11 DEF UpdateOrganizationSettings
  <2>3. "updateSettings" \in CatalogueOps /\ "settings" \in Table /\ "begun" \in Steps
    BY DEF CatalogueOps, Table, Steps
  <2> HIDE DEF kept
  <2> QED BY <2>1, <2>2, <2>3, RowsWritten DEF Keeping
<1> QED BY <1>4, <1>5, <1>6, <1>7, <1>8, <1>9, <1>10, <1>11 DEF Catalogues

------------------------

(* Warehouses, the switch of a product, invoices. *)
LEMMA DepotKept ==
  ASSUME TypeInv, NEW r \in Request,
         NEW op \in {"createWarehouse", "updateWarehouse", "apiCreateWarehouse",
                     "apiUpdateWarehouse"},
         OpensWarehouse(r, op) \/ ChangesWarehouse(r, op)
  PROVE  Outcome(r) /\ Aside(r)
<1>1. CASE At(r, op, "begun")
  BY <1>1, LooksAside DEF OpensWarehouse, ChangesWarehouse, At, Check, Steps
<1>2. CASE At(r, op, "cleared")
  <2>1. Commits(r) /\ UNCHANGED <<stockVars, docVars, active, role, rows, bill>>
    BY <1>2 DEF OpensWarehouse, ChangesWarehouse, At
  <2>2. Job(r).op = op /\ req[r].at \in Steps BY <1>2, AtWorks DEF Steps
  <2>3. depot \in [Warehouse -> {"absent", "plain", "default"}]
    BY DEF TypeInv, TablesTyped, AdminTyped
  <2>4. depot' \in [Warehouse -> {"absent", "plain", "default"}]
    BY <1>2, <2>3 DEF OpensWarehouse, ChangesWarehouse, At
  <2>5. TablesTyped' /\ UNCHANGED <<lists, stock, role>>
    BY <2>1, <2>4 DEF TypeInv, TablesTyped, StockTyped, DocsTyped, AdminTyped, stockVars, docVars
  <2> QED BY <2>1, <2>2, <2>5, Writing DEF Aside, MemberOps, TakingOps
<1> QED BY <1>1, <1>2 DEF OpensWarehouse, ChangesWarehouse

LEMMA SwitchKept ==
  ASSUME TypeInv, NEW r \in Request, SetProductActive(r) \/ DeactivateProduct(r)
  PROVE  Outcome(r) /\ Aside(r)
<1>1. \E op \in {"setActive", "apiDeactivate"} : At(r, op, "begun") \/ At(r, op, "read")
  BY DEF SetProductActive, DeactivateProduct
<1>2. PICK op \in {"setActive", "apiDeactivate"} : At(r, op, "begun") \/ At(r, op, "read")
  BY <1>1
<1>3. CASE At(r, op, "begun")
  BY <1>3, LooksAside DEF SetProductActive, DeactivateProduct, At, Check, Steps
<1>4. CASE At(r, op, "read")
  <2>1. Commits(r) /\ UNCHANGED <<stockVars, docVars, depot, role, rows, bill>>
    BY <1>4 DEF SetProductActive, DeactivateProduct, At
  <2>2. Job(r).op = op /\ req[r].at \in Steps /\ Job(r).product \in Product
    BY <1>4, AtWorks, StockForms DEF Steps, Parsed
  <2>3. active' \in SUBSET Product
    BY <1>4, <2>2 DEF SetProductActive, DeactivateProduct, At, TypeInv, TablesTyped, AdminTyped
  <2>4. TablesTyped' /\ UNCHANGED <<lists, stock, role>>
    BY <2>1, <2>3 DEF TypeInv, TablesTyped, StockTyped, DocsTyped, AdminTyped, stockVars, docVars
  <2> QED BY <2>1, <2>2, <2>4, Writing DEF Aside, MemberOps, TakingOps
<1> QED BY <1>2, <1>3, <1>4

LEMMA InvoicesKept ==
  ASSUME TypeInv, NEW r \in Request,
         CreateInvoice(r) \/ RecordPayment(r) \/ TransitionInvoiceStatus(r)
  PROVE  Outcome(r) /\ Aside(r)
<1> DEFINE i == Job(r).target
<1>1. CASE CreateInvoice(r) /\ At(r, "createInvoice", "begun")
  BY <1>1, LooksAside DEF CreateInvoice, At, Check, Steps
<1>2. CASE TransitionInvoiceStatus(r) /\ At(r, "transition", "begun")
  BY <1>2, LooksAside DEF TransitionInvoiceStatus, At, Check, Steps
<1>3. CASE RecordPayment(r) /\ At(r, "pay", "begun")
  <2>1. /\ Job(r).op = "pay" /\ req[r].at \in Steps
        /\ Advance(r, "read", <<bill[i]>>) \/ Finish(r)
        /\ UNCHANGED <<stockVars, docVars, adminVars, boundVars>>
    BY <1>3, AtWorks DEF RecordPayment, At, Check, Steps
  <2>2. bill[i] \in InvoiceRow
    BY <1>3, AtWorks, OtherForms DEF Steps, TypeInv, TablesTyped, AdminTyped
  <2>3. /\ Moves(r) /\ TablesTyped' /\ UNCHANGED <<lists, stock, role>>
        /\ \/ req'[r] = Idle
           \/ req'[r].job = Job(r) /\ req'[r].at = "read" /\ req'[r].saw = <<bill[i]>>
    BY <2>1, Looking DEF Steps
  <2>4. req'[r] = Idle \/ Knows(r)' BY <2>1, <2>2, <2>3 DEF Knows, At, Job
  <2> QED BY <2>1, <2>3, <2>4 DEF Outcome, Aside, MemberOps, TakingOps
<1>4. CASE \/ CreateInvoice(r) /\ At(r, "createInvoice", "counted")
           \/ TransitionInvoiceStatus(r) /\ At(r, "transition", "read")
           \/ RecordPayment(r) /\ At(r, "pay", "read")
  <2>1. Commits(r) /\ UNCHANGED <<stockVars, docVars, depot, active, role, rows>>
    BY <1>4 DEF CreateInvoice, TransitionInvoiceStatus, RecordPayment, At
  <2>2. /\ Job(r).op \in {"createInvoice", "pay", "transition"}
        /\ Working(r) /\ Parsed(Job(r)) /\ i \in Invoice /\ req[r].at \in Steps
    BY <1>4, AtWorks, OtherForms DEF Steps
  <2>3. bill' \in [Invoice -> InvoiceRow]
    <3>1. bill \in [Invoice -> InvoiceRow] BY DEF TypeInv, TablesTyped, AdminTyped
    <3>2. CASE CreateInvoice(r) /\ At(r, "createInvoice", "counted")
      BY <2>2, <3>1, <3>2 DEF CreateInvoice, At, InvoiceRow, InvoiceStatus
    <3>3. CASE TransitionInvoiceStatus(r) /\ At(r, "transition", "read")
      <4>1. Job(r).to \in InvoiceStatus BY <2>2, <3>3, Schemas DEF At, Job, Parsed
      <4> QED BY <2>2, <3>1, <3>3, <4>1 DEF TransitionInvoiceStatus, At, InvoiceRow
    <3>4. CASE RecordPayment(r) /\ At(r, "pay", "read")
      <4>1. Job(r).amount \in Int /\ Job(r).amount > 0
        BY <2>2, <3>4, Schemas, OtherForms DEF At, Job, Parsed
      <4>2. req[r].saw[1] \in InvoiceRow BY <2>2, <3>4 DEF Working, Knows
      <4>3. \A j, paid, before : before \in {"ABSENT"} \cup InvoiceStatus
              => PaidStatus(j, paid, before) \in {"ABSENT"} \cup InvoiceStatus
        BY DEF PaidStatus, InvoiceStatus
      <4>4. PICK after \in {"ABSENT"} \cup InvoiceStatus :
              bill' = [bill EXCEPT ![i] =
                [status |-> after, paid |-> @.paid + Job(r).amount]]
        <5> DEFINE a == PaidStatus(i, req[r].saw[1].paid + Job(r).amount, req[r].saw[1].status)
                   s == IF a # req[r].saw[1].status THEN a ELSE bill[i].status
        <5>1. a \in {"ABSENT"} \cup InvoiceStatus BY <4>2, <4>3 DEF InvoiceRow
        <5>2. s \in {"ABSENT"} \cup InvoiceStatus BY <2>2, <3>1, <5>1 DEF InvoiceRow
        <5>3. bill' = [bill EXCEPT ![i] = [status |-> s, paid |-> @.paid + Job(r).amount]]
          BY <2>2, <3>1, <3>4 DEF RecordPayment, At
        <5> HIDE DEF s
        <5> QED BY <5>2, <5>3
      <4> QED BY <2>2, <3>1, <4>1, <4>4 DEF InvoiceRow
    <3> QED BY <1>4, <3>2, <3>3, <3>4
  <2>4. TablesTyped' /\ UNCHANGED <<lists, stock, role>>
    BY <2>1, <2>3 DEF TypeInv, TablesTyped, StockTyped, DocsTyped, AdminTyped, stockVars, docVars
  <2> QED BY <2>1, <2>2, <2>4, Writing DEF Aside, MemberOps, TakingOps
<1> QED BY <1>1, <1>2, <1>3, <1>4 DEF CreateInvoice, TransitionInvoiceStatus, RecordPayment

------------------------

(* Documents that are numbered, and what only changes their status. *)
LEMMA StatusWritten ==
  ASSUME TypeInv, NEW r \in Request,
         NEW op, op \notin MemberOps \cup TakingOps, NEW step \in Steps, At(r, op, step),
         Commits(r), UNCHANGED <<stockVars, received, recipe, used, adminVars>>,
         \/ status' = status
         \/ \E d \in Doc, to \in DocStatus : status' = [status EXCEPT ![d] = to],
         \/ lists' = lists
         \/ \E o \in SalesOrder : \E l \in Seq(PickList(o)) :
              /\ lists' = [lists EXCEPT ![o] = l]
              /\ DOMAIN lists[o] \subseteq DOMAIN l,
         \/ shipments' = shipments
         \/ \E o \in SalesOrder, l \in Seq({"IN_TRANSIT", "DELIVERED"}) :
              shipments' = [shipments EXCEPT ![o] = l]
  PROVE  Outcome(r) /\ Aside(r)
<1>1. Job(r).op = op /\ req[r].at \in Steps BY AtWorks
<1>2. status' \in [Doc -> DocStatus] BY DEF TypeInv, TablesTyped, DocsTyped
<1>3. /\ DOMAIN lists' = SalesOrder
      /\ \A o \in SalesOrder : lists'[o] \in Seq(PickList(o))
      /\ \A o \in SalesOrder : DOMAIN lists[o] \subseteq DOMAIN (lists'[o])
  <2>1. CASE lists' = lists BY <2>1 DEF TypeInv, TablesTyped, DocsTyped
  <2>2. CASE \E o \in SalesOrder : \E l \in Seq(PickList(o)) :
              /\ lists' = [lists EXCEPT ![o] = l]
              /\ DOMAIN lists[o] \subseteq DOMAIN l
    <3>1. PICK o \in SalesOrder : \E l \in Seq(PickList(o)) :
              /\ lists' = [lists EXCEPT ![o] = l]
              /\ DOMAIN lists[o] \subseteq DOMAIN l
      BY <2>2
    <3>2. PICK l \in Seq(PickList(o)) :
              /\ lists' = [lists EXCEPT ![o] = l]
              /\ DOMAIN lists[o] \subseteq DOMAIN l
      BY <3>1
    <3>3. DOMAIN lists = SalesOrder /\ \A q \in SalesOrder : lists[q] \in Seq(PickList(q))
      BY DEF TypeInv, TablesTyped, DocsTyped
    <3>4. \A q \in SalesOrder : lists'[q] = IF q = o THEN l ELSE lists[q] BY <3>2, <3>3
    <3> QED BY <3>2, <3>3, <3>4
  <2> QED BY <2>1, <2>2
<1>4. shipments' \in [SalesOrder -> Seq({"IN_TRANSIT", "DELIVERED"})]
  BY DEF TypeInv, TablesTyped, DocsTyped
<1>5. UNCHANGED <<stock, plain, received, recipe, used, depot, active, role, rows, bill>>
  BY DEF stockVars, adminVars
<1>6. TablesTyped'
  BY <1>2, <1>3, <1>4, <1>5 DEF TypeInv, TablesTyped, StockTyped, DocsTyped, AdminTyped, Received, PickList
<1> QED BY <1>1, <1>3, <1>5, <1>6, Writing DEF Aside

LEMMA NumberedKept ==
  ASSUME TypeInv, NEW r \in Request, Numbers(r)
  PROVE  Outcome(r) /\ Aside(r)
<1> DEFINE Ops == {"createOrder", "createPurchase", "suggest", "createBuild", "createReturn",
                   "createCredit", "apiCreateOrder", "portalOrder", "apiCreatePurchase",
                   "apiCreateReturn", "apiCreateCredit"}
<1>1. PICK op \in Ops :
        \/ /\ At(r, op, "begun") \/ At(r, op, "read")
           /\ \E step \in Steps : \E saw : Advance(r, step, saw) \/ Finish(r)
           /\ UNCHANGED <<stockVars, docVars, adminVars, boundVars>>
        \/ /\ At(r, op, "counted")
           /\ \/ status' = status
              \/ \E to \in {"DRAFT", "SENT"} : status' = [status EXCEPT ![Job(r).doc] = to]
           /\ Commits(r)
           /\ UNCHANGED <<stockVars, received, lists, shipments, recipe, used, adminVars>>
  BY DEF CreateSalesOrder, CreatePurchaseOrder, GenerateSmartPurchaseOrders,
       CreateManufacturingOrder, CreateSalesReturn, CreateCreditNote, ApiCreateSalesOrder,
       PortalPlaceOrder, ApiCreatePurchaseOrder, ApiCreateSalesReturn, ApiCreateCreditNote,
       Numbers, Numbered, Check, Steps
<1>2. CASE /\ At(r, op, "begun") \/ At(r, op, "read")
           /\ \E step \in Steps : \E saw : Advance(r, step, saw) \/ Finish(r)
           /\ UNCHANGED <<stockVars, docVars, adminVars, boundVars>>
  BY <1>2, LooksAside DEF Steps
<1>3. CASE /\ At(r, op, "counted")
           /\ \/ status' = status
              \/ \E to \in {"DRAFT", "SENT"} : status' = [status EXCEPT ![Job(r).doc] = to]
           /\ Commits(r)
           /\ UNCHANGED <<stockVars, received, lists, shipments, recipe, used, adminVars>>
  <2>1. Job(r).op = op /\ Parsed(Job(r)) BY <1>3, AtWorks DEF Steps
  <2>2. Job(r).doc \in Doc BY <2>1, OrderForms DEF Parsed, Doc
  <2>3. op \notin MemberOps \cup TakingOps BY DEF MemberOps, TakingOps
  <2>4. status' = status \/ \E d \in Doc, to \in DocStatus : status' = [status EXCEPT ![d] = to]
    BY <1>3, <2>2 DEF DocStatus
  <2> HIDE DEF Ops
  <2> QED BY <1>3, <2>3, <2>4, StatusWritten DEF Steps
<1> QED BY <1>1, <1>2, <1>3

LEMMA PickingKept ==
  ASSUME TypeInv, NEW r \in Request, StartPicking(r) \/ PackOrder(r)
  PROVE  Outcome(r) /\ Aside(r)
<1> DEFINE o == Job(r).doc
<1>0. \A q \in SalesOrder : DOMAIN lists = SalesOrder /\ lists[q] \in Seq(PickList(q))
  BY DEF TypeInv, TablesTyped, DocsTyped
<1>1. CASE StartPicking(r) /\ At(r, "startPicking", "begun")
  BY <1>1, LooksAside DEF StartPicking, At, Check, Steps
<1>2. CASE PackOrder(r) /\ At(r, "pack", "begun")
  BY <1>2, LooksAside DEF PackOrder, At, Check, Steps
<1>3. CASE StartPicking(r) /\ At(r, "startPicking", "read")
  <2>1. o \in SalesOrder BY <1>3, AtWorks, OrderForms DEF Steps, Parsed
  <2> DEFINE new == [status |-> "PENDING", picked |-> NothingPicked(o)]
  <2>2. new \in PickList(o) BY DEF PickList, NothingPicked
  <2>3. /\ status' = [status EXCEPT ![o] = "PICKING"] /\ Commits(r)
        /\ lists' = [lists EXCEPT ![o] = Append(lists[o], new)]
        /\ UNCHANGED <<stockVars, received, shipments, recipe, used, adminVars>>
    BY <1>0, <1>3, <2>1 DEF StartPicking, At
  <2>4. /\ Append(lists[o], new) \in Seq(PickList(o))
        /\ DOMAIN lists[o] \subseteq DOMAIN Append(lists[o], new)
    <3> HIDE DEF new
    <3> QED BY <1>0, <2>1, <2>2
  <2>5. o \in Doc /\ "PICKING" \in DocStatus BY <2>1 DEF Doc, DocStatus
  <2> HIDE DEF new, o
  <2> QED BY <1>3, <2>1, <2>3, <2>4, <2>5, StatusWritten DEF Steps, MemberOps, TakingOps
<1>4. CASE PackOrder(r) /\ At(r, "pack", "read")
  <2>1. o \in SalesOrder BY <1>4, AtWorks, OrderForms DEF Steps, Parsed
  <2> DEFINE new == [l \in DOMAIN lists[o] |->
                       IF l <= req[r].saw[1]
                       THEN [status |-> "COMPLETED", picked |-> lists[o][l].picked] ELSE lists[o][l]]
  <2>2. \A l \in DOMAIN lists[o] : new[l] \in PickList(o)
    <3>1. \A l \in DOMAIN lists[o] : lists[o][l] \in PickList(o) BY <1>0, <2>1
    <3> QED BY <3>1 DEF PickList
  <2>3. /\ status' = [status EXCEPT ![o] = "PACKED"] /\ Commits(r)
        /\ lists' = [lists EXCEPT ![o] = new]
        /\ UNCHANGED <<stockVars, received, shipments, recipe, used, adminVars>>
    BY <1>0, <1>4, <2>1 DEF PackOrder, At
  <2>4. new \in Seq(PickList(o)) /\ DOMAIN new = DOMAIN lists[o]
    <3>1. DOMAIN new = DOMAIN lists[o] /\ new = [l \in DOMAIN lists[o] |-> new[l]]
      OBVIOUS
    <3> HIDE DEF new
    <3> QED BY <1>0, <2>1, <2>2, <3>1, SequenceMapped
  <2>5. o \in Doc /\ "PACKED" \in DocStatus BY <2>1 DEF Doc, DocStatus
  <2> HIDE DEF new, o
  <2> QED BY <1>4, <2>1, <2>3, <2>4, <2>5, StatusWritten DEF Steps, MemberOps, TakingOps
<1> QED BY <1>1, <1>2, <1>3, <1>4 DEF StartPicking, PackOrder

LEMMA PickKept ==
  ASSUME TypeInv, NEW r \in Request, UpdatePickListItem(r)
  PROVE  Outcome(r) /\ Aside(r)
<1> DEFINE job == Job(r)
           o == Job(r).doc
<1>0. /\ Working(r) /\ Parsed(job) /\ job.op = "pick" /\ req[r].at \in Steps
      /\ o \in SalesOrder /\ job.line \in DOMAIN Lines[o] /\ job.quantity \in Int
      /\ DOMAIN lists = SalesOrder /\ lists[o] \in Seq(PickList(o))
  <2>1. At(r, "pick", "begun") \/ At(r, "pick", "read") BY DEF UpdatePickListItem
  <2>2. Working(r) /\ Parsed(job) /\ job.op = "pick" /\ req[r].at \in Steps
    BY <2>1, AtWorks DEF Steps
  <2> QED BY <2>2, OrderForms DEF Parsed, TypeInv, TablesTyped, DocsTyped
<1>a. "pick" \notin MemberOps \cup TakingOps BY DEF MemberOps, TakingOps
<1>1. CASE At(r, "pick", "begun")
  <2> DEFINE ok == job.list \in DOMAIN lists[o] /\ Pickable(o, job.line, job.quantity)
             saw == IF job.list \in DOMAIN lists[o] THEN <<lists[o][job.list].status>> ELSE <<>>
  <2>1. /\ IF ok THEN Advance(r, "read", saw) ELSE Finish(r)
        /\ UNCHANGED <<stockVars, docVars, adminVars, boundVars>>
    BY <1>1 DEF UpdatePickListItem, At, Check
  <2>2. ok => saw[1] \in {"PENDING", "IN_PROGRESS", "COMPLETED"}
    <3>1. ok => lists[o][job.list] \in PickList(o) BY <1>0
    <3> QED BY <3>1 DEF PickList
  <2>3. /\ Moves(r) /\ TablesTyped' /\ UNCHANGED <<lists, stock, role>>
        /\ \/ req'[r] = Idle
           \/ req'[r].job = Job(r) /\ req'[r].at = "read" /\ req'[r].saw = saw
    <3> HIDE DEF ok, saw
    <3> QED BY <1>0, <2>1, Looking DEF Steps
  <2>4. ok \/ req'[r] = Idle BY <1>0, <2>1, Checked DEF TypeInv
  <2>5. req'[r] = Idle \/ Knows(r)' BY <1>0, <2>2, <2>3, <2>4 DEF Knows, At, Job
  <2> QED BY <1>0, <1>a, <2>3, <2>5 DEF Outcome, Aside
<1>2. CASE At(r, "pick", "read")
  <2>1. /\ req[r].saw[1] \in {"PENDING", "IN_PROGRESS", "COMPLETED"}
        /\ job.list \in DOMAIN lists[o]
        /\ job.quantity \in 0..Lines[o][job.line].quantity
    BY <1>0, <1>2 DEF Working, Knows, Pickable
  <2> DEFINE old == lists[o][job.list]
             item == [status |-> IF req[r].saw[1] = "PENDING" THEN "IN_PROGRESS" ELSE old.status,
                      picked |-> [old.picked EXCEPT ![job.line] = job.quantity]]
             new == [lists[o] EXCEPT ![job.list] = item]
  <2>2. /\ lists' = [lists EXCEPT ![o] = new]
        /\ Commits(r)
        /\ UNCHANGED <<stockVars, status, received, shipments, recipe, used, adminVars>>
    BY <1>0, <1>2, <2>1 DEF UpdatePickListItem, At
  <2>3. old \in PickList(o) BY <1>0, <2>1
  <2>4. item \in PickList(o)
    <3> HIDE DEF old
    <3> QED BY <1>0, <2>1, <2>3 DEF PickList
  <2>5. new \in Seq(PickList(o)) /\ DOMAIN new = DOMAIN lists[o]
    <3> HIDE DEF item
    <3> QED BY <1>0, <2>1, <2>4
  <2> HIDE DEF new, o
  <2> QED BY <1>0, <1>a, <1>2, <2>2, <2>5, StatusWritten DEF Steps
<1> QED BY <1>1, <1>2 DEF UpdatePickListItem

LEMMA ShippingKept ==
  ASSUME TypeInv, NEW r \in Request, ShipOrder(r) \/ DeliverOrder(r)
  PROVE  Outcome(r) /\ Aside(r)
<1> DEFINE o == Job(r).doc
           Sent == {"IN_TRANSIT", "DELIVERED"}
<1>0. shipments \in [SalesOrder -> Seq(Sent)] BY DEF TypeInv, TablesTyped, DocsTyped
<1>1. CASE ShipOrder(r) /\ At(r, "ship", "begun")
  BY <1>1, LooksAside DEF ShipOrder, At, Check, Steps
<1>2. CASE DeliverOrder(r) /\ At(r, "deliver", "begun")
  BY <1>2, LooksAside DEF DeliverOrder, At, Check, Steps
<1>3. CASE ShipOrder(r) /\ At(r, "ship", "counted")
  <2>1. o \in SalesOrder BY <1>3, AtWorks, OrderForms DEF Steps, Parsed
  <2>2. /\ \/ UNCHANGED <<status, shipments>>
           \/ /\ status' = [status EXCEPT ![o] = "SHIPPED"]
              /\ shipments' = [shipments EXCEPT ![o] = Append(shipments[o], "IN_TRANSIT")]
        /\ Commits(r)
        /\ UNCHANGED <<stockVars, received, lists, recipe, used, adminVars>>
    BY <1>0, <1>3, <2>1 DEF ShipOrder, At
  <2>3. Append(shipments[o], "IN_TRANSIT") \in Seq(Sent) BY <1>0, <2>1
  <2>4. o \in Doc /\ "SHIPPED" \in DocStatus BY <2>1 DEF Doc, DocStatus
  <2> HIDE DEF o
  <2> QED BY <1>3, <2>1, <2>2, <2>3, <2>4, StatusWritten DEF Steps, MemberOps, TakingOps
<1>4. CASE DeliverOrder(r) /\ At(r, "deliver", "read")
  <2>1. o \in SalesOrder BY <1>4, AtWorks, OrderForms DEF Steps, Parsed
  <2> DEFINE new == [n \in DOMAIN shipments[o] |->
                        IF req[r].saw[1] # {} /\ n = Min(req[r].saw[1])
                        THEN "DELIVERED" ELSE shipments[o][n]]
  <2>2. /\ status' = [status EXCEPT ![o] = "DELIVERED"] /\ Commits(r)
        /\ shipments' = [shipments EXCEPT ![o] = new]
        /\ UNCHANGED <<stockVars, received, lists, recipe, used, adminVars>>
    BY <1>0, <1>4, <2>1 DEF DeliverOrder, At
  <2>3. new \in Seq(Sent)
    <3>1. shipments[o] \in Seq(Sent) /\ \A n \in DOMAIN shipments[o] : shipments[o][n] \in Sent
      BY <1>0, <2>1
    <3>2. /\ DOMAIN new = DOMAIN shipments[o] /\ new = [n \in DOMAIN shipments[o] |-> new[n]]
          /\ \A n \in DOMAIN shipments[o] : new[n] \in Sent
      BY <3>1
    <3> HIDE DEF new, Sent
    <3> QED BY <3>1, <3>2, SequenceMapped
  <2>4. o \in Doc /\ "DELIVERED" \in DocStatus BY <2>1 DEF Doc, DocStatus
  <2> HIDE DEF new, o
  <2> QED BY <1>4, <2>1, <2>2, <2>3, <2>4, StatusWritten DEF Steps, MemberOps, TakingOps
<1> QED BY <1>1, <1>2, <1>3, <1>4 DEF ShipOrder, DeliverOrder

LEMMA BillOfMaterialKept ==
  ASSUME TypeInv, NEW r \in Request, UpdateBom(r)
  PROVE  Outcome(r) /\ Aside(r)
<1>1. CASE At(r, "updateBom", "begun")
  BY <1>1, LooksAside DEF UpdateBom, At, Check, Steps
<1>2. CASE At(r, "updateBom", "deleted")
  <2>1. /\ Job(r).op = "updateBom" /\ req[r].at \in Steps
        /\ Job(r).recipe \in Product /\ Job(r).components \in ComponentRows
    BY <1>2, AtWorks, OrderForms DEF Steps, Parsed
  <2>2. Commits(r) /\ UNCHANGED <<stockVars, status, received, lists, shipments, used, adminVars>>
    BY <1>2 DEF UpdateBom, At
  <2>3. recipe \in [Product -> ComponentRows] BY DEF TypeInv, TablesTyped, DocsTyped
  <2> DEFINE rest == recipe[Job(r).recipe] \ req[r].saw[1]
  <2>5. rest \in ComponentRows /\ rest \cup Job(r).components \in ComponentRows
    <3>1. recipe[Job(r).recipe] \in ComponentRows BY <2>1, <2>3
    <3>2. rest \subseteq recipe[Job(r).recipe] OBVIOUS
    <3>3. rest \in ComponentRows BY <3>1, <3>2, FS_Subset DEF ComponentRows
    <3> QED BY <2>1, <3>3, FS_Union DEF ComponentRows
  <2>6. recipe' \in [Product -> ComponentRows]
    BY <1>2, <2>1, <2>3, <2>5 DEF UpdateBom, At
  <2>7. TablesTyped' /\ UNCHANGED <<lists, stock, role>>
    BY <2>2, <2>6 DEF TypeInv, TablesTyped, StockTyped, DocsTyped, AdminTyped, Received, PickList,
         stockVars, adminVars
  <2> QED BY <2>1, <2>2, <2>7, Writing DEF Aside, MemberOps, TakingOps
<1> QED BY <1>1, <1>2 DEF UpdateBom

------------------------
(* What a request that is about to take stock of product p, or to write a   *)
(* count of it, has found: that there is enough.                            *)
Holds(r, p) ==
  LET job == Job(r)
      saw == req[r].saw
      take == Needed(saw[1], p, Build[job.doc].quantity)
  IN
  /\ At(r, "movement", "checked") /\ job.product = p /\ ChangeOf(job) < 0
       => stock[p][job.warehouse] >= job.quantity
  /\ At(r, "transfer", "checked") /\ job.product = p => stock[p][job.warehouse] >= job.quantity
  /\ At(r, "count", "checked") /\ job.product = p => stock[p][job.warehouse] + saw[1] >= 0
  /\ At(r, "confirm", "summed") =>
       \A i \in DOMAIN Lines[job.doc] :
          Lines[job.doc][i].product = p => stock[p][saw[1]] >= Lines[job.doc][i].quantity
  /\ At(r, "start", "consumed") => take <= stock[p][Build[job.doc].warehouse] \/ take = 0

\* A step of request r leaves the stock of what it is not about, and of what it
\* is about as much as it has found.
Careful(r) ==
  \A p \in Product :
    /\ p \notin Subjects(Job(r)) => stock'[p] = stock[p]
    /\ OnceInEachOrder(p) /\ (\A w \in Warehouse : stock[p][w] >= 0) /\ Holds(r, p)
         => /\ \A w \in Warehouse : stock'[p][w] >= 0
            /\ req'[r] = Idle \/ Holds(r, p)'

\* A step that concerns no member.
Apolitical(r) == Job(r).op \notin MemberOps /\ UNCHANGED role

LEMMA AsideCareful ==
  ASSUME NEW r \in Request, Outcome(r), Aside(r)
  PROVE  Careful(r) /\ Apolitical(r)
<1>1. req'[r] = Idle \/ req'[r].job.op \notin TakingOps
  BY DEF Outcome, Moves, Aside, Job
<1>2. \A p : req'[r] = Idle \/ Holds(r, p)' BY <1>1 DEF Holds, At, TakingOps
<1> QED BY <1>2 DEF Careful, Aside, Apolitical

LEMMA MovedStock ==
  ASSUME stock \in [Product -> [Warehouse -> Int]], NEW w, NEW lines, IsFiniteSet(DOMAIN lines),
         \A i \in DOMAIN lines : lines[i].quantity \in Int, NEW sign \in {1, -1}
  PROVE  /\ Moved(w, lines, sign) \in [Product -> [Warehouse -> Int]]
         /\ \A p \in Product : (\A i \in DOMAIN lines : lines[i].product # p)
              => Moved(w, lines, sign)[p] = stock[p]
         /\ \A p \in Product, v \in Warehouse :
              /\ v # w => Moved(w, lines, sign)[p][v] = stock[p][v]
              /\ v = w /\ sign = 1 => Moved(w, lines, sign)[p][v] = stock[p][v] + QuantityOf(lines, p)
              /\ v = w /\ sign = -1 => Moved(w, lines, sign)[p][v] = stock[p][v] - QuantityOf(lines, p)
<1> DEFINE m == Moved(w, lines, sign)
           change(p) == IF sign = 1 THEN QuantityOf(lines, p) ELSE -QuantityOf(lines, p)
<1>1. \A p : QuantityOf(lines, p) \in Int BY QuantityInt
<1>2. \A p : sign * QuantityOf(lines, p) = change(p) /\ change(p) \in Int
  <2>1. \A n \in Int : 1 * n = n /\ (-1) * n = -n OBVIOUS
  <2> QED BY <1>1, <2>1
<1>3. m = [p \in Product |-> [v \in Warehouse |-> stock[p][v] + (IF v = w THEN sign * QuantityOf(lines, p) ELSE 0)]]
  BY DEF Moved
<1>4. m = [p \in Product |-> [v \in Warehouse |-> stock[p][v] + (IF v = w THEN change(p) ELSE 0)]]
  <2> HIDE DEF m, change
  <2> QED BY <1>2, <1>3
<1>5. m \in [Product -> [Warehouse -> Int]]
  <2> HIDE DEF m, change
  <2> QED BY <1>2, <1>4
<1>6. \A p \in Product, v \in Warehouse :
        m[p][v] = stock[p][v] + (IF v = w THEN change(p) ELSE 0)
  <2> HIDE DEF m, change
  <2> QED BY <1>4
<1>7. ASSUME NEW p \in Product, \A i \in DOMAIN lines : lines[i].product # p
      PROVE  m[p] = stock[p]
  <2>1. QuantityOf(lines, p) = 0 BY <1>7, QuantityInt
  <2>2. \A v \in Warehouse : m[p][v] = stock[p][v]
    <3> HIDE DEF m
    <3> QED BY <1>6, <2>1
  <2>3. m[p] \in [Warehouse -> Int] /\ stock[p] \in [Warehouse -> Int]
    <3> HIDE DEF m
    <3> QED BY <1>5
  <2> HIDE DEF m
  <2> QED BY <2>2, <2>3
<1>8. ASSUME NEW p \in Product, NEW v \in Warehouse
      PROVE  /\ v # w => m[p][v] = stock[p][v]
             /\ v = w /\ sign = 1 => m[p][v] = stock[p][v] + QuantityOf(lines, p)
             /\ v = w /\ sign = -1 => m[p][v] = stock[p][v] - QuantityOf(lines, p)
  <2>1. stock[p][v] \in Int /\ QuantityOf(lines, p) \in Int BY <1>1
  <2>2. m[p][v] = stock[p][v] + (IF v = w THEN change(p) ELSE 0)
    <3> HIDE DEF m, change
    <3> QED BY <1>6
  <2> HIDE DEF m
  <2> QED BY <2>1, <2>2
<1> QED BY <1>5, <1>7, <1>8

LEMMA OneLineQuantity ==
  ASSUME NEW job, job.quantity \in Int
  PROVE  /\ IsFiniteSet(DOMAIN OneLine(job))
         /\ \A i \in DOMAIN OneLine(job) :
              OneLine(job)[i].quantity \in Int /\ OneLine(job)[i].product = job.product
         /\ QuantityOf(OneLine(job), job.product) = job.quantity
         /\ \A w : EnoughStock(w, OneLine(job)) <=> stock[job.product][w] >= job.quantity
<1> DEFINE lines == OneLine(job)
<1>1. lines = <<[product |-> job.product, quantity |-> job.quantity]>> BY DEF OneLine
<1>2. DOMAIN lines = {1} /\ lines[1].product = job.product /\ lines[1].quantity = job.quantity
  BY <1>1
<1>3. IsFiniteSet({1}) BY FS_Singleton
<1> HIDE DEF lines
<1>4. QuantityOf(lines, job.product) = job.quantity BY <1>2, <1>3, QuantityInt
<1> QED BY <1>2, <1>3, <1>4 DEF EnoughStock, lines

LEMMA MovementKept ==
  ASSUME TypeInv, NEW r \in Request, CreateStockMovement(r)
  PROVE  Outcome(r) /\ Careful(r) /\ Apolitical(r)
<1> DEFINE job == Job(r)
           w == Job(r).warehouse
<1>0. /\ req[r].at \in Steps /\ job.op = "movement" /\ Parsed(job)
      /\ job.product \in Product /\ w \in Warehouse
      /\ job.quantity \in Int /\ job.quantity > 0 /\ job.product \in Subjects(job)
  <2>1. At(r, "movement", "begun") \/ At(r, "movement", "checked")
    BY DEF CreateStockMovement
  <2>2. req[r].at \in Steps /\ job.op = "movement" /\ Parsed(job)
    BY <2>1, AtWorks DEF Steps
  <2> QED BY <2>2, StockForms, Schemas, AboutStock DEF Parsed
<1>1. stock \in [Product -> [Warehouse -> Int]] /\ plain \in [Product -> Int]
  BY DEF TypeInv, TablesTyped, StockTyped
<1>2. CASE At(r, "movement", "begun")
  <2> DEFINE ok == ChangeOf(job) < 0 => EnoughStock(w, OneLine(job))
  <2>1. /\ IF ok THEN Advance(r, "checked", <<>>) ELSE Finish(r)
        /\ UNCHANGED <<stockVars, docVars, adminVars, boundVars>>
    BY <1>2 DEF CreateStockMovement, At, Check
  <2>2. /\ Outcome(r) /\ UNCHANGED <<lists, stock, role>>
        /\ \/ req'[r] = Idle
           \/ req'[r].job = Job(r) /\ req'[r].at = "checked" /\ req'[r].saw = <<>>
    <3> HIDE DEF ok
    <3> QED BY <1>0, <2>1, Looking DEF Steps
  <2>3. ok \/ req'[r] = Idle BY <1>0, <2>1, Checked DEF TypeInv
  <2>4. ok => (ChangeOf(job) < 0 => stock[job.product][w] >= job.quantity)
    BY <1>0, OneLineQuantity
  <2>5. \A p \in Product : req'[r] = Idle \/ Holds(r, p)'
    BY <1>0, <2>2, <2>3, <2>4 DEF Holds, At, Job, ChangeOf
  <2> QED BY <1>0, <2>2, <2>5 DEF Careful, Apolitical, MemberOps
<1>3. CASE At(r, "movement", "checked")
  <2> DEFINE sign == IF job.type = "OUTBOUND" THEN -1 ELSE 1
  <2>1. /\ stock' = Moved(w, OneLine(job), sign)
        /\ plain' = [plain EXCEPT ![job.product] = @ + ChangeOf(job)]
        /\ Commits(r) /\ UNCHANGED <<docVars, adminVars>>
    BY <1>3 DEF CreateStockMovement, At
  <2>2. ChangeOf(job) = (IF sign = 1 THEN job.quantity ELSE -job.quantity) /\ ChangeOf(job) \in Int
    BY <1>0 DEF ChangeOf
  <2>3. /\ stock' \in [Product -> [Warehouse -> Int]]
        /\ \A p \in Product : p # job.product => stock'[p] = stock[p]
        /\ \A v \in Warehouse :
             /\ v # w => stock'[job.product][v] = stock[job.product][v]
             /\ v = w => stock'[job.product][v] = stock[job.product][v] + ChangeOf(job)
    <3>1. /\ IsFiniteSet(DOMAIN OneLine(job))
          /\ \A i \in DOMAIN OneLine(job) : OneLine(job)[i].quantity \in Int /\ OneLine(job)[i].product = job.product
          /\ QuantityOf(OneLine(job), job.product) = job.quantity
      BY <1>0, OneLineQuantity
    <3>2. sign \in {1, -1} OBVIOUS
    <3> HIDE DEF sign, job, w
    <3>3. /\ stock' \in [Product -> [Warehouse -> Int]]
          /\ \A p \in Product : (\A i \in DOMAIN OneLine(job) : OneLine(job)[i].product # p)
               => stock'[p] = stock[p]
          /\ \A p \in Product, v \in Warehouse :
               /\ v # w => stock'[p][v] = stock[p][v]
               /\ v = w /\ sign = 1 => stock'[p][v] = stock[p][v] + QuantityOf(OneLine(job), p)
               /\ v = w /\ sign = -1 => stock'[p][v] = stock[p][v] - QuantityOf(OneLine(job), p)
      BY <1>1, <2>1, <3>1, <3>2, MovedStock
    <3>4. \A v \in Warehouse : stock[job.product][v] \in Int BY <1>0, <1>1
    <3>5. \A p \in Product : p # job.product => stock'[p] = stock[p] BY <3>1, <3>3
    <3>6. ASSUME NEW v \in Warehouse
          PROVE  /\ v # w => stock'[job.product][v] = stock[job.product][v]
                 /\ v = w => stock'[job.product][v] = stock[job.product][v] + ChangeOf(job)
      <4>0. job.product \in Product BY <1>0 DEF job
      <4>1. /\ v # w => stock'[job.product][v] = stock[job.product][v]
            /\ v = w /\ sign = 1 => stock'[job.product][v] = stock[job.product][v] + job.quantity
            /\ v = w /\ sign = -1 => stock'[job.product][v] = stock[job.product][v] - job.quantity
        BY <4>0, <3>1, <3>3
      <4>2. job.quantity \in Int BY <1>0 DEF job
      <4> QED BY <2>2, <3>2, <3>4, <4>1, <4>2
    <3> QED BY <3>3, <3>5, <3>6
  <2>4. TablesTyped' /\ UNCHANGED <<lists, role>>
    <3>1. plain' \in [Product -> Int] BY <1>0, <1>1, <2>1, <2>2
    <3> QED BY <2>1, <2>3, <3>1
        DEF TypeInv, TablesTyped, StockTyped, DocsTyped, AdminTyped, docVars, adminVars
  <2>5. Outcome(r) /\ req'[r] = Idle BY <1>0, <2>1, <2>4, Writing
  <2>6. Careful(r)
    <3> SUFFICES ASSUME NEW p \in Product, OnceInEachOrder(p), Holds(r, p),
                        \A v \in Warehouse : stock[p][v] >= 0, NEW v \in Warehouse
                 PROVE  stock'[p][v] >= 0
      BY <1>0, <2>3, <2>5 DEF Careful
    <3>1. p = job.product /\ ChangeOf(job) < 0 => stock[p][w] >= job.quantity
      BY <1>3 DEF Holds
    <3>2. stock[p][v] \in Int BY <1>1
    <3> QED BY <1>0, <2>2, <2>3, <3>1, <3>2
  <2> QED BY <1>0, <2>4, <2>5, <2>6 DEF Apolitical, MemberOps
<1> QED BY <1>2, <1>3 DEF CreateStockMovement

LEMMA TransferKept ==
  ASSUME TypeInv, NEW r \in Request, CreateStockTransfer(r)
  PROVE  Outcome(r) /\ Careful(r) /\ Apolitical(r)
<1> DEFINE job == Job(r)
           w == Job(r).warehouse
           to == Job(r).to
           p1 == Job(r).product
<1>0. /\ req[r].at \in Steps /\ job.op = "transfer" /\ Parsed(job)
      /\ p1 \in Product /\ w \in Warehouse /\ to \in Warehouse
      /\ job.quantity \in Int /\ job.quantity > 0 /\ p1 \in Subjects(job)
  <2>1. At(r, "transfer", "begun") \/ At(r, "transfer", "checked")
    BY DEF CreateStockTransfer
  <2>2. req[r].at \in Steps /\ job.op = "transfer" /\ Parsed(job)
    BY <2>1, AtWorks DEF Steps
  <2> QED BY <2>2, StockForms, Schemas, AboutStock DEF Parsed
<1>1. stock \in [Product -> [Warehouse -> Int]] /\ plain \in [Product -> Int]
  BY DEF TypeInv, TablesTyped, StockTyped
<1>2. CASE At(r, "transfer", "begun")
  <2> DEFINE ok == /\ p1 \in active
                   /\ depot[w] # "absent"
                   /\ depot[to] # "absent"
                   /\ EnoughStock(w, OneLine(job))
  <2>1. /\ IF ok THEN Advance(r, "checked", <<>>) ELSE Finish(r)
        /\ UNCHANGED <<stockVars, docVars, adminVars, boundVars>>
    BY <1>2 DEF CreateStockTransfer, At, Check
  <2>2. /\ Outcome(r) /\ UNCHANGED <<lists, stock, role>>
        /\ \/ req'[r] = Idle
           \/ req'[r].job = Job(r) /\ req'[r].at = "checked" /\ req'[r].saw = <<>>
    <3> HIDE DEF ok
    <3> QED BY <1>0, <2>1, Looking DEF Steps
  <2>3. ok \/ req'[r] = Idle BY <1>0, <2>1, Checked DEF TypeInv
  <2>4. ok => stock[p1][w] >= job.quantity BY <1>0, OneLineQuantity
  <2>5. \A p \in Product : req'[r] = Idle \/ Holds(r, p)'
    BY <1>0, <2>2, <2>3, <2>4 DEF Holds, At, Job
  <2> QED BY <1>0, <2>2, <2>5 DEF Careful, Apolitical, MemberOps
<1>3. CASE At(r, "transfer", "checked")
  <2>1. /\ stock' = [stock EXCEPT ![p1] = [v \in Warehouse |->
                       stock[p1][v] + (IF v = to THEN job.quantity ELSE 0) - (IF v = w THEN job.quantity ELSE 0)]]
        /\ Commits(r) /\ UNCHANGED <<plain, docVars, adminVars>>
    BY <1>3 DEF CreateStockTransfer, At
  <2>2. /\ stock' \in [Product -> [Warehouse -> Int]]
        /\ \A p \in Product : p # p1 => stock'[p] = stock[p]
        /\ \A v \in Warehouse :
             /\ v # w /\ v # to => stock'[p1][v] = stock[p1][v]
             /\ v = w /\ v # to => stock'[p1][v] = stock[p1][v] - job.quantity
             /\ v # w /\ v = to => stock'[p1][v] = stock[p1][v] + job.quantity
             /\ v = w /\ v = to => stock'[p1][v] = stock[p1][v]
    <3> HIDE DEF job, w, to, p1
    <3> QED BY <1>0, <1>1, <2>1
  <2>3. TablesTyped' /\ UNCHANGED <<lists, role>>
    BY <1>1, <2>1, <2>2 DEF TypeInv, TablesTyped, StockTyped, DocsTyped, AdminTyped, docVars, adminVars
  <2>4. Outcome(r) /\ req'[r] = Idle BY <1>0, <2>1, <2>3, Writing
  <2>5. Careful(r)
    <3> SUFFICES ASSUME NEW p \in Product, OnceInEachOrder(p), Holds(r, p),
                        \A v \in Warehouse : stock[p][v] >= 0, NEW v \in Warehouse
                 PROVE  stock'[p][v] >= 0
      BY <1>0, <2>2, <2>4 DEF Careful
    <3>1. p = p1 => stock[p][w] >= job.quantity BY <1>3 DEF Holds
    <3>2. stock[p][v] \in Int BY <1>1
    <3> HIDE DEF job, w, to, p1
    <3> QED BY <1>0, <2>2, <3>1, <3>2
  <2> QED BY <1>0, <2>3, <2>4, <2>5 DEF Apolitical, MemberOps
<1> QED BY <1>2, <1>3 DEF CreateStockTransfer

LEMMA CountKept ==
  ASSUME TypeInv, NEW r \in Request, RecordStocktakeCount(r)
  PROVE  Outcome(r) /\ Careful(r) /\ Apolitical(r)
<1> DEFINE job == Job(r)
           w == Job(r).warehouse
           p1 == Job(r).product
<1>0. /\ req[r].at \in Steps /\ job.op = "count" /\ Parsed(job) /\ Working(r)
      /\ p1 \in Product /\ w \in Warehouse
      /\ job.counted \in Int /\ job.counted >= 0 /\ p1 \in Subjects(job)
  <2>1. At(r, "count", "begun") \/ At(r, "count", "checked") BY DEF RecordStocktakeCount
  <2>2. req[r].at \in Steps /\ job.op = "count" /\ Parsed(job) /\ Working(r)
    BY <2>1, AtWorks DEF Steps
  <2> QED BY <2>2, StockForms, Schemas, AboutStock DEF Parsed
<1>1. stock \in [Product -> [Warehouse -> Int]] /\ plain \in [Product -> Int]
  BY DEF TypeInv, TablesTyped, StockTyped
<1>2. CASE At(r, "count", "begun")
  <2> DEFINE ok == p1 \in active /\ depot[w] # "absent"
             saw == <<job.counted - stock[p1][w]>>
  <2>1. /\ IF ok THEN Advance(r, "checked", saw) ELSE Finish(r)
        /\ UNCHANGED <<stockVars, docVars, adminVars, boundVars>>
    BY <1>2 DEF RecordStocktakeCount, At, Check
  <2>2. /\ Moves(r) /\ TablesTyped' /\ UNCHANGED <<lists, stock, role>>
        /\ \/ req'[r] = Idle
           \/ req'[r].job = Job(r) /\ req'[r].at = "checked" /\ req'[r].saw = saw
    <3> HIDE DEF ok, saw
    <3> QED BY <1>0, <2>1, Looking DEF Steps
  <2>3. stock[p1][w] \in Int /\ saw[1] \in Int /\ stock[p1][w] + saw[1] >= 0
    BY <1>0, <1>1
  <2> HIDE DEF saw
  <2>4. req'[r] = Idle \/ Knows(r)' BY <1>0, <2>2, <2>3 DEF Knows, At, Job
  <2>5. \A p \in Product : req'[r] = Idle \/ Holds(r, p)'
    BY <1>0, <2>2, <2>3 DEF Holds, At, Job
  <2> QED BY <1>0, <2>2, <2>4, <2>5 DEF Outcome, Careful, Apolitical, MemberOps
<1>3. CASE At(r, "count", "checked")
  <2> DEFINE change == req[r].saw[1]
  <2>1. /\ stock' = [stock EXCEPT ![p1][w] = @ + change]
        /\ plain' = [plain EXCEPT ![p1] = @ + change]
        /\ Commits(r) /\ UNCHANGED <<docVars, adminVars>>
    BY <1>3 DEF RecordStocktakeCount, At
  <2>2. change \in Int BY <1>0, <1>3 DEF Working, Knows
  <2>3. /\ stock' \in [Product -> [Warehouse -> Int]] /\ plain' \in [Product -> Int]
        /\ \A p \in Product : p # p1 => stock'[p] = stock[p]
        /\ \A v \in Warehouse :
             stock'[p1][v] = IF v = w THEN stock[p1][v] + change ELSE stock[p1][v]
    <3> HIDE DEF job, w, p1, change
    <3> QED BY <1>0, <1>1, <2>1, <2>2
  <2>4. TablesTyped' /\ UNCHANGED <<lists, role>>
    BY <2>1, <2>3 DEF TypeInv, TablesTyped, StockTyped, DocsTyped, AdminTyped, docVars, adminVars
  <2>5. Outcome(r) /\ req'[r] = Idle BY <1>0, <2>1, <2>4, Writing
  <2>6. Careful(r)
    <3> SUFFICES ASSUME NEW p \in Product, OnceInEachOrder(p), Holds(r, p),
                        \A v \in Warehouse : stock[p][v] >= 0, NEW v \in Warehouse
                 PROVE  stock'[p][v] >= 0
      BY <1>0, <2>3, <2>5 DEF Careful
    <3>1. p = p1 => stock[p][w] + change >= 0 BY <1>3 DEF Holds
    <3> HIDE DEF job, w, p1, change
    <3> QED BY <1>0, <2>3, <3>1
  <2> QED BY <1>0, <2>4, <2>5, <2>6 DEF Apolitical, MemberOps
<1> QED BY <1>2, <1>3 DEF RecordStocktakeCount

(* Lines of a document that are added to a warehouse. *)
LEMMA ReceiptKept ==
  ASSUME TypeInv, NEW r \in Request, req[r].at \in Steps, Commits(r), req[r] # Idle,
         NEW w, NEW lines, IsFiniteSet(DOMAIN lines),
         \A i \in DOMAIN lines : /\ lines[i].quantity \in Int /\ lines[i].quantity >= 0
                                 /\ lines[i].product \in Subjects(Job(r)),
         stock' = Moved(w, lines, 1), UNCHANGED <<plain, adminVars>>, DocsTyped',
         \A o \in SalesOrder : DOMAIN lists[o] \subseteq DOMAIN (lists'[o]),
         Job(r).op \notin MemberOps
  PROVE  Outcome(r) /\ Careful(r) /\ Apolitical(r)
<1>1. stock \in [Product -> [Warehouse -> Int]] BY DEF TypeInv, TablesTyped, StockTyped
<1>2. /\ stock' \in [Product -> [Warehouse -> Int]]
      /\ \A p \in Product : (\A i \in DOMAIN lines : lines[i].product # p) => stock'[p] = stock[p]
      /\ \A p \in Product, v \in Warehouse :
           /\ v # w => stock'[p][v] = stock[p][v]
           /\ v = w => stock'[p][v] = stock[p][v] + QuantityOf(lines, p)
  BY <1>1, MovedStock
<1>3. \A p : QuantityOf(lines, p) \in Int /\ QuantityOf(lines, p) >= 0 BY QuantityInt
<1>4. TablesTyped' /\ UNCHANGED role
  BY <1>2 DEF TypeInv, TablesTyped, StockTyped, AdminTyped, adminVars
<1>5. Outcome(r) /\ req'[r] = Idle BY <1>4, Writing
<1>6. ASSUME NEW p \in Product, \A v \in Warehouse : stock[p][v] >= 0, NEW v \in Warehouse
      PROVE  stock'[p][v] >= 0
  <2>1. stock[p][v] \in Int BY <1>1
  <2> QED BY <1>2, <1>3, <1>6, <2>1
<1>7. \A p \in Product : p \notin Subjects(Job(r)) => stock'[p] = stock[p] BY <1>2
<1> QED BY <1>4, <1>5, <1>6, <1>7 DEF Careful, Apolitical

LEMMA PurchaseKept ==
  ASSUME TypeInv, NEW r \in Request, ReceivePurchaseOrder(r)
  PROVE  Outcome(r) /\ Careful(r) /\ Apolitical(r)
<1> DEFINE job == Job(r)
           o == Job(r).doc
<1>0. /\ req[r].at \in Steps /\ job.op = "receive" /\ Parsed(job) /\ Working(r)
      /\ o \in PurchaseOrder
      /\ \A i \in DOMAIN Lines[o] : Lines[o][i].product \in Subjects(job)
  <2>1. At(r, "receive", "begun") \/ At(r, "receive", "read")
    BY DEF ReceivePurchaseOrder
  <2>2. req[r].at \in Steps /\ job.op = "receive" /\ Parsed(job) /\ Working(r)
    BY <2>1, AtWorks DEF Steps
  <2> QED BY <2>2, OrderForms, AboutStock DEF Parsed
<1>1. /\ DOMAIN received = PurchaseOrder
      /\ \A q \in PurchaseOrder : received[q] \in Received(q)
  BY DEF TypeInv, TablesTyped, DocsTyped
<1>2. CASE At(r, "receive", "begun")
  <2> DEFINE ok == /\ Default # {}
                   /\ status[o] \in {"DRAFT", "SENT", "PARTIALLY_RECEIVED"}
                   /\ received[o] # AllOf(o)
             saw == <<Default, received[o]>>
  <2>1. /\ IF ok THEN Advance(r, "read", saw) ELSE Finish(r)
        /\ UNCHANGED <<stockVars, docVars, adminVars, boundVars>>
    BY <1>2 DEF ReceivePurchaseOrder, At, Check
  <2>2. /\ Moves(r) /\ TablesTyped' /\ UNCHANGED <<lists, stock, role>>
        /\ \/ req'[r] = Idle
           \/ req'[r].job = Job(r) /\ req'[r].at = "read" /\ req'[r].saw = saw
    <3> HIDE DEF ok, saw
    <3> QED BY <1>0, <2>1, Looking DEF Steps
  <2>3. saw[1] \subseteq Warehouse /\ saw[2] \in Received(o) BY <1>0, <1>1 DEF Default
  <2> HIDE DEF saw
  <2>4. req'[r] = Idle \/ Knows(r)' BY <1>0, <2>2, <2>3 DEF Knows, At, Job
  <2>5. \A p \in Product : req'[r] = Idle \/ Holds(r, p)'
    BY <1>0, <2>2 DEF Holds, At, Job
  <2> QED BY <1>0, <2>2, <2>4, <2>5 DEF Outcome, Careful, Apolitical, MemberOps
<1>3. CASE At(r, "receive", "read")
  <2> DEFINE got == req[r].saw[2]
             rest == Outstanding(o, got)
  <2>1. /\ \E w \in req[r].saw[1] : stock' = Moved(w, rest, 1)
        /\ received' = [received EXCEPT ![o] = AllOf(o)]
        /\ status' = [status EXCEPT ![o] = "COMPLETED"]
        /\ Commits(r) /\ UNCHANGED <<plain, lists, shipments, recipe, used, adminVars>>
    BY <1>3 DEF ReceivePurchaseOrder, NowReceived, At
  <2>2. got \in Received(o) BY <1>0, <1>3 DEF Working, Knows
  <2>3. /\ IsFiniteSet(DOMAIN Lines[o])
        /\ \A i \in DOMAIN Lines[o] : Lines[o][i].quantity \in Int /\ Lines[o][i].quantity > 0
    BY <1>0, LinesTyped
  <2>4. \A i \in DOMAIN Lines[o] : got[i] \in Int /\ got[i] \in 0..Lines[o][i].quantity
    BY <2>2 DEF Received
  <2>5. /\ DOMAIN rest = DOMAIN Lines[o]
        /\ \A i \in DOMAIN rest : /\ rest[i].quantity \in Int /\ rest[i].quantity >= 0
                                  /\ rest[i].product \in Subjects(Job(r))
    <3>1. /\ DOMAIN rest = DOMAIN Lines[o]
          /\ \A i \in DOMAIN rest : /\ rest[i].quantity = Lines[o][i].quantity - got[i]
                                    /\ rest[i].product = Lines[o][i].product
      BY DEF Outstanding
    <3> HIDE DEF rest, got, o
    <3> QED BY <1>0, <2>3, <2>4, <3>1
  <2>6. AllOf(o) \in Received(o) BY <2>3 DEF AllOf, Received
  <2>7. /\ DOMAIN received' = PurchaseOrder
        /\ \A q \in PurchaseOrder : received'[q] \in Received(q)
    BY <1>0, <1>1, <2>1, <2>6
  <2>8. status' \in [Doc -> DocStatus]
    BY <1>0, <2>1 DEF TypeInv, TablesTyped, DocsTyped, DocStatus
  <2>9. DocsTyped'
    BY <2>1, <2>7, <2>8 DEF TypeInv, TablesTyped, DocsTyped, Received, PickList
  <2>10. PICK w \in req[r].saw[1] : stock' = Moved(w, rest, 1) BY <2>1
  <2>11. req[r] # Idle /\ Job(r).op \notin MemberOps BY <1>0 DEF Idle, Steps, MemberOps
  <2> HIDE DEF rest, o
  <2> QED BY <1>0, <2>1, <2>3, <2>5, <2>9, <2>10, <2>11, ReceiptKept
<1> QED BY <1>2, <1>3 DEF ReceivePurchaseOrder

LEMMA ReturnKept ==
  ASSUME TypeInv, NEW r \in Request, ApproveSalesReturn(r)
  PROVE  Outcome(r) /\ Careful(r) /\ Apolitical(r)
<1> DEFINE job == Job(r)
           d == Job(r).doc
<1>0. /\ req[r].at \in Steps /\ job.op = "approve" /\ Parsed(job) /\ Working(r)
      /\ d \in SalesReturn
      /\ \A i \in DOMAIN Lines[d] : Lines[d][i].product \in Subjects(job)
  <2>1. At(r, "approve", "begun") \/ At(r, "approve", "read") BY DEF ApproveSalesReturn
  <2>2. req[r].at \in Steps /\ job.op = "approve" /\ Parsed(job) /\ Working(r)
    BY <2>1, AtWorks DEF Steps
  <2> QED BY <2>2, OrderForms, AboutStock DEF Parsed
<1>1. CASE At(r, "approve", "begun")
  <2> DEFINE ok == Default # {} /\ status[d] = "DRAFT"
             saw == <<Default>>
  <2>1. /\ IF ok THEN Advance(r, "read", saw) ELSE Finish(r)
        /\ UNCHANGED <<stockVars, docVars, adminVars, boundVars>>
    BY <1>1 DEF ApproveSalesReturn, At, Check
  <2>2. /\ Moves(r) /\ TablesTyped' /\ UNCHANGED <<lists, stock, role>>
        /\ \/ req'[r] = Idle
           \/ req'[r].job = Job(r) /\ req'[r].at = "read" /\ req'[r].saw = saw
    <3> HIDE DEF ok, saw
    <3> QED BY <1>0, <2>1, Looking DEF Steps
  <2>3. saw[1] \subseteq Warehouse BY DEF Default
  <2> HIDE DEF saw
  <2>4. req'[r] = Idle \/ Knows(r)' BY <1>0, <2>2, <2>3 DEF Knows, At, Job
  <2>5. \A p \in Product : req'[r] = Idle \/ Holds(r, p)'
    BY <1>0, <2>2 DEF Holds, At, Job
  <2> QED BY <1>0, <2>2, <2>4, <2>5 DEF Outcome, Careful, Apolitical, MemberOps
<1>2. CASE At(r, "approve", "read")
  <2>1. /\ \E w \in req[r].saw[1] : stock' = Moved(w, Lines[d], 1)
        /\ status' = [status EXCEPT ![d] = "COMPLETED"]
        /\ Commits(r) /\ UNCHANGED <<plain, received, lists, shipments, recipe, used, adminVars>>
    BY <1>2 DEF ApproveSalesReturn, At
  <2>2. /\ IsFiniteSet(DOMAIN Lines[d])
        /\ \A i \in DOMAIN Lines[d] : Lines[d][i].quantity \in Int /\ Lines[d][i].quantity >= 0
    BY <1>0, LinesTyped
  <2>3. status' \in [Doc -> DocStatus]
    BY <1>0, <2>1 DEF TypeInv, TablesTyped, DocsTyped, DocStatus
  <2>4. DocsTyped' BY <2>1, <2>3 DEF TypeInv, TablesTyped, DocsTyped, Received, PickList
  <2>5. PICK w \in req[r].saw[1] : stock' = Moved(w, Lines[d], 1) BY <2>1
  <2>6. req[r] # Idle /\ Job(r).op \notin MemberOps BY <1>0 DEF Idle, Steps, MemberOps
  <2> HIDE DEF d
  <2> QED BY <1>0, <2>1, <2>2, <2>4, <2>5, <2>6, ReceiptKept
<1> QED BY <1>1, <1>2 DEF ApproveSalesReturn

LEMMA CompletionKept ==
  ASSUME TypeInv, NEW r \in Request, CompleteManufacturingOrder(r)
  PROVE  Outcome(r) /\ Careful(r) /\ Apolitical(r)
<1> DEFINE o == Job(r).doc
           made == <<[product |-> Build[o].product, quantity |-> Build[o].quantity]>>
<1>0. /\ req[r].at \in Steps /\ Job(r).op = "complete" /\ Parsed(Job(r))
      /\ o \in ManufacturingOrder /\ Product \subseteq Subjects(Job(r))
  <2>1. At(r, "complete", "begun") \/ At(r, "complete", "read")
    BY DEF CompleteManufacturingOrder
  <2>2. req[r].at \in Steps /\ Job(r).op = "complete" /\ Parsed(Job(r))
    BY <2>1, AtWorks DEF Steps
  <2> QED BY <2>2, OrderForms, AboutStock DEF Parsed
<1>1. CASE At(r, "complete", "begun")
  <2>1. Outcome(r) /\ Aside(r)
    BY <1>1, LooksAside DEF CompleteManufacturingOrder, At, Check, Steps
  <2> QED BY <2>1, AsideCareful
<1>2. CASE At(r, "complete", "read")
  <2>1. /\ stock' = Moved(Build[o].warehouse, made, 1)
        /\ status' = [status EXCEPT ![o] = "COMPLETED"]
        /\ Commits(r) /\ UNCHANGED <<plain, received, lists, shipments, recipe, used, adminVars>>
    BY <1>2 DEF CompleteManufacturingOrder, At
  <2>2. Build[o].product \in Product /\ Build[o].quantity \in Nat
    BY <1>0, BuildAssumption
  <2>3. DOMAIN made = {1} /\ made[1].product = Build[o].product /\ made[1].quantity = Build[o].quantity
    OBVIOUS
  <2>4. /\ IsFiniteSet(DOMAIN made)
        /\ \A i \in DOMAIN made : /\ made[i].quantity \in Int /\ made[i].quantity >= 0
                                  /\ made[i].product \in Subjects(Job(r))
    <3>1. IsFiniteSet({1}) BY FS_Singleton
    <3> HIDE DEF made
    <3> QED BY <1>0, <2>2, <2>3, <3>1
  <2>5. status' \in [Doc -> DocStatus]
    BY <1>0, <2>1 DEF TypeInv, TablesTyped, DocsTyped, DocStatus
  <2>6. DocsTyped' BY <2>1, <2>5 DEF TypeInv, TablesTyped, DocsTyped, Received, PickList
  <2>7. req[r] # Idle /\ Job(r).op \notin MemberOps BY <1>0 DEF Idle, Steps, MemberOps
  <2> HIDE DEF made
  <2> QED BY <1>0, <2>1, <2>4, <2>6, <2>7, ReceiptKept
<1> QED BY <1>1, <1>2 DEF CompleteManufacturingOrder

LEMMA ConfirmKept ==
  ASSUME TypeInv, NEW r \in Request, ConfirmSalesOrder(r)
  PROVE  Outcome(r) /\ Careful(r) /\ Apolitical(r)
<1> DEFINE job == Job(r)
           o == Job(r).doc
<1>0. /\ req[r].at \in Steps /\ job.op = "confirm" /\ Parsed(job) /\ Working(r)
      /\ o \in SalesOrder
      /\ \A i \in DOMAIN Lines[o] : Lines[o][i].product \in Subjects(job)
  <2>1. At(r, "confirm", "begun") \/ At(r, "confirm", "read") \/ At(r, "confirm", "summed")
    BY DEF ConfirmSalesOrder
  <2>2. req[r].at \in Steps /\ job.op = "confirm" /\ Parsed(job) /\ Working(r)
    BY <2>1, AtWorks DEF Steps
  <2> QED BY <2>2, OrderForms, AboutStock DEF Parsed
<1>1. stock \in [Product -> [Warehouse -> Int]] BY DEF TypeInv, TablesTyped, StockTyped
<1>2. CASE At(r, "confirm", "begun")
  <2> DEFINE ok == Default # {} /\ status[o] = "DRAFT"
             saw == <<Default>>
  <2>1. /\ IF ok THEN Advance(r, "read", saw) ELSE Finish(r)
        /\ UNCHANGED <<stockVars, docVars, adminVars, boundVars>>
    BY <1>2 DEF ConfirmSalesOrder, At, Check
  <2>2. /\ Moves(r) /\ TablesTyped' /\ UNCHANGED <<lists, stock, role>>
        /\ \/ req'[r] = Idle
           \/ req'[r].job = Job(r) /\ req'[r].at = "read" /\ req'[r].saw = saw
    <3> HIDE DEF ok, saw
    <3> QED BY <1>0, <2>1, Looking DEF Steps
  <2>3. saw[1] \subseteq Warehouse BY DEF Default
  <2> HIDE DEF saw
  <2>4. req'[r] = Idle \/ Knows(r)' BY <1>0, <2>2, <2>3 DEF Knows, At, Job
  <2>5. \A p \in Product : req'[r] = Idle \/ Holds(r, p)'
    BY <1>0, <2>2 DEF Holds, At, Job
  <2> QED BY <1>0, <2>2, <2>4, <2>5 DEF Outcome, Careful, Apolitical, MemberOps
<1>3. CASE At(r, "confirm", "read")
  <2>1. PICK w \in req[r].saw[1] : Check(r, EnoughStock(w, Lines[o]), "summed", <<w>>)
    BY <1>3 DEF ConfirmSalesOrder, At
  <2>2. w \in Warehouse BY <1>0, <1>3 DEF Working, Knows
  <2> DEFINE ok == EnoughStock(w, Lines[o])
             saw == <<w>>
  <2>3. /\ IF ok THEN Advance(r, "summed", saw) ELSE Finish(r)
        /\ UNCHANGED <<stockVars, docVars, adminVars, boundVars>>
    BY <2>1 DEF Check
  <2>4. /\ Moves(r) /\ TablesTyped' /\ UNCHANGED <<lists, stock, role>>
        /\ \/ req'[r] = Idle
           \/ req'[r].job = Job(r) /\ req'[r].at = "summed" /\ req'[r].saw = saw
    <3> HIDE DEF ok, saw
    <3> QED BY <1>0, <2>3, Looking DEF Steps
  <2>5. ok \/ req'[r] = Idle BY <1>0, <2>3, Checked DEF TypeInv
  <2>6. saw[1] = w OBVIOUS
  <2>7. ok => \A i \in DOMAIN Lines[o] : stock[Lines[o][i].product][w] >= Lines[o][i].quantity
    BY DEF EnoughStock
  <2> HIDE DEF saw, ok
  <2>8. req'[r] = Idle \/ Knows(r)' BY <1>0, <2>2, <2>4, <2>6 DEF Knows, At, Job
  <2>9. \A p \in Product : req'[r] = Idle \/ Holds(r, p)'
    BY <1>0, <2>4, <2>5, <2>6, <2>7 DEF Holds, At, Job
  <2> QED BY <1>0, <2>4, <2>8, <2>9 DEF Outcome, Careful, Apolitical, MemberOps
<1>4. CASE At(r, "confirm", "summed")
  <2> DEFINE w == req[r].saw[1]
  <2>1. /\ stock' = Moved(w, Lines[o], -1)
        /\ status' = [status EXCEPT ![o] = "CONFIRMED"]
        /\ Commits(r) /\ UNCHANGED <<plain, received, lists, shipments, recipe, used, adminVars>>
    BY <1>4 DEF ConfirmSalesOrder, At
  <2>2. /\ IsFiniteSet(DOMAIN Lines[o])
        /\ \A i \in DOMAIN Lines[o] : Lines[o][i].quantity \in Int
    BY <1>0, LinesTyped
  <2>3. /\ stock' \in [Product -> [Warehouse -> Int]]
        /\ \A p \in Product : (\A i \in DOMAIN Lines[o] : Lines[o][i].product # p)
             => stock'[p] = stock[p]
        /\ \A p \in Product, v \in Warehouse :
             /\ v # w => stock'[p][v] = stock[p][v]
             /\ v = w => stock'[p][v] = stock[p][v] - QuantityOf(Lines[o], p)
    <3> HIDE DEF w, o
    <3> QED BY <1>1, <2>1, <2>2, MovedStock
  <2>4. status' \in [Doc -> DocStatus]
    BY <1>0, <2>1 DEF TypeInv, TablesTyped, DocsTyped, DocStatus
  <2>5. TablesTyped' /\ UNCHANGED <<lists, role>>
    BY <2>1, <2>3, <2>4 DEF TypeInv, TablesTyped, StockTyped, DocsTyped, AdminTyped, Received,
         PickList, adminVars
  <2>6. Outcome(r) /\ req'[r] = Idle BY <1>0, <2>1, <2>5, Writing
  <2>7. Careful(r)
    <3> SUFFICES ASSUME NEW p \in Product, OnceInEachOrder(p), Holds(r, p),
                        \A v \in Warehouse : stock[p][v] >= 0, NEW v \in Warehouse
                 PROVE  stock'[p][v] >= 0
      BY <1>0, <2>3, <2>6 DEF Careful
    <3>1. stock[p][v] \in Int BY <1>1
    <3>2. CASE \A i \in DOMAIN Lines[o] : Lines[o][i].product # p BY <2>3, <3>2
    <3>3. CASE \E i \in DOMAIN Lines[o] : Lines[o][i].product = p
      <4>1. PICK i \in DOMAIN Lines[o] : Lines[o][i].product = p BY <3>3
      <4>2. \A j \in DOMAIN Lines[o] : Lines[o][j].product = p => i = j
        BY <1>0, <4>1 DEF OnceInEachOrder
      <4>3. QuantityOf(Lines[o], p) = Lines[o][i].quantity
        BY <2>2, <4>1, <4>2, QuantityInt
      <4>4. stock[p][w] >= Lines[o][i].quantity BY <1>4, <4>1 DEF Holds
      <4> HIDE DEF w, o
      <4> QED BY <2>2, <2>3, <3>1, <4>3, <4>4
    <3> QED BY <3>2, <3>3
  <2> QED BY <1>0, <2>5, <2>6, <2>7 DEF Apolitical, MemberOps
<1> QED BY <1>2, <1>3, <1>4 DEF ConfirmSalesOrder

LEMMA StartKept ==
  ASSUME TypeInv, NEW r \in Request, StartManufacturingOrder(r)
  PROVE  Outcome(r) /\ Careful(r) /\ Apolitical(r)
<1> DEFINE o == Job(r).doc
           w == Build[o].warehouse
           n == Build[o].quantity
           parts == recipe[Build[o].product]
<1>0. /\ req[r].at \in Steps /\ Job(r).op = "start" /\ Parsed(Job(r)) /\ Working(r)
      /\ o \in ManufacturingOrder /\ Product \subseteq Subjects(Job(r))
  <2>1. At(r, "start", "begun") \/ At(r, "start", "consumed")
    BY DEF StartManufacturingOrder
  <2>2. req[r].at \in Steps /\ Job(r).op = "start" /\ Parsed(Job(r)) /\ Working(r)
    BY <2>1, AtWorks DEF Steps
  <2> QED BY <2>2, OrderForms, AboutStock DEF Parsed
<1>1. /\ stock \in [Product -> [Warehouse -> Int]]
      /\ w \in Warehouse /\ n \in Int /\ parts \in ComponentRows
  BY <1>0, BuildAssumption DEF TypeInv, TablesTyped, StockTyped, DocsTyped
<1>2. CASE At(r, "start", "begun")
  <2> DEFINE ok == /\ status[o] = "DRAFT"
                   /\ \A p \in Product : Needed(parts, p, n) <= stock[p][w] \/ Needed(parts, p, n) = 0
             saw == <<parts>>
  <2>1. /\ IF ok THEN Advance(r, "consumed", saw) ELSE Finish(r)
        /\ UNCHANGED <<stockVars, docVars, adminVars, boundVars>>
    BY <1>2 DEF StartManufacturingOrder, At, Check
  <2>2. /\ Moves(r) /\ TablesTyped' /\ UNCHANGED <<lists, stock, role>>
        /\ \/ req'[r] = Idle
           \/ req'[r].job = Job(r) /\ req'[r].at = "consumed" /\ req'[r].saw = saw
    <3> HIDE DEF ok, saw
    <3> QED BY <1>0, <2>1, Looking DEF Steps
  <2>3. ok \/ req'[r] = Idle BY <1>0, <2>1, Checked DEF TypeInv
  <2>4. saw[1] = parts OBVIOUS
  <2> HIDE DEF saw
  <2>5. req'[r] = Idle \/ Knows(r)'
    <3> HIDE DEF parts
    <3> QED BY <1>0, <1>1, <2>2, <2>4 DEF Knows, At, Job
  <2>6. \A p \in Product : req'[r] = Idle \/ Holds(r, p)'
    <3> SUFFICES ASSUME NEW p \in Product, req'[r] # Idle PROVE Holds(r, p)' OBVIOUS
    <3>1. Needed(parts, p, n) <= stock[p][w] \/ Needed(parts, p, n) = 0 BY <2>3
    <3>2. /\ req'[r].job = Job(r) /\ req'[r].saw[1] = parts /\ Job(r).op = "start"
          /\ stock' = stock
      BY <1>0, <2>2, <2>4
    <3> HIDE DEF parts
    <3> QED BY <3>1, <3>2 DEF Holds, At, Job
  <2> QED BY <1>0, <2>2, <2>5, <2>6 DEF Outcome, Careful, Apolitical, MemberOps
<1>3. CASE At(r, "start", "consumed")
  <2> DEFINE seen == req[r].saw[1]
  <2>1. /\ stock' = [p \in Product |-> [stock[p] EXCEPT ![w] = @ - Needed(seen, p, n)]]
        /\ status' = [status EXCEPT ![o] = "IN_PROGRESS"]
        /\ used' = [used EXCEPT ![o] = @ \cup seen]
        /\ Commits(r) /\ UNCHANGED <<plain, received, lists, shipments, recipe, adminVars>>
    BY <1>3 DEF StartManufacturingOrder, At
  <2>2. seen \in ComponentRows BY <1>0, <1>3 DEF Working, Knows
  <2>3. \A p : Needed(seen, p, n) \in Int BY <1>1, <2>2, NeededInt
  <2>4. /\ stock' \in [Product -> [Warehouse -> Int]]
        /\ \A p \in Product, v \in Warehouse :
             stock'[p][v] = IF v = w THEN stock[p][v] - Needed(seen, p, n) ELSE stock[p][v]
    <3> HIDE DEF seen, w, n
    <3> QED BY <1>1, <2>1, <2>3
  <2>5. status' \in [Doc -> DocStatus]
    BY <1>0, <2>1 DEF TypeInv, TablesTyped, DocsTyped, DocStatus
  <2>6. used' \in [ManufacturingOrder -> ComponentRows]
    <3>1. used \in [ManufacturingOrder -> ComponentRows]
      BY DEF TypeInv, TablesTyped, DocsTyped
    <3>2. used[o] \cup seen \in ComponentRows
      <4>1. used[o] \in ComponentRows BY <1>0, <3>1
      <4> HIDE DEF seen
      <4> QED BY <2>2, <4>1, FS_Union DEF ComponentRows
    <3>3. used' = [used EXCEPT ![o] = used[o] \cup seen] BY <2>1
    <3> HIDE DEF seen, o
    <3> QED BY <1>0, <3>1, <3>2, <3>3
  <2>7. TablesTyped' /\ UNCHANGED <<lists, role>>
    BY <2>1, <2>4, <2>5, <2>6 DEF TypeInv, TablesTyped, StockTyped, DocsTyped, AdminTyped, Received,
         PickList, adminVars
  <2>8. Outcome(r) /\ req'[r] = Idle BY <1>0, <2>1, <2>7, Writing
  <2>9. Careful(r)
    <3> SUFFICES ASSUME NEW p \in Product, OnceInEachOrder(p), Holds(r, p),
                        \A v \in Warehouse : stock[p][v] >= 0, NEW v \in Warehouse
                 PROVE  stock'[p][v] >= 0
      BY <1>0, <2>8 DEF Careful
    <3>1. stock[p][v] \in Int BY <1>1
    <3>2. Needed(seen, p, n) <= stock[p][w] \/ Needed(seen, p, n) = 0 BY <1>3 DEF Holds
    <3> HIDE DEF seen, w, n
    <3> QED BY <2>3, <2>4, <3>1, <3>2
  <2> QED BY <1>0, <2>7, <2>8, <2>9 DEF Apolitical, MemberOps
<1> QED BY <1>2, <1>3 DEF StartManufacturingOrder

------------------------
(* Members. *)

\* A request that is about to take a role away was let in by somebody else.
Backed(r) ==
  At(r, "updateRole", "read") \/ At(r, "deleteUser", "read")
    => Job(r).actor \in Managers /\ Job(r).user # Job(r).actor

LEMMA MembersKept ==
  ASSUME TypeInv, NEW r \in Request, CreateUser(r) \/ UpdateUserRole(r) \/ DeleteUser(r)
  PROVE  /\ Outcome(r) /\ Careful(r) /\ "members" \in Subjects(Job(r))
         /\ Managers # {} /\ Backed(r) => Managers' # {} /\ (req'[r] = Idle \/ Backed(r)')
<1> DEFINE job == Job(r)
<1>0. /\ req[r].at \in Steps /\ job.op \in MemberOps /\ Parsed(job)
      /\ job.actor \in User /\ job.user \in User /\ "members" \in Subjects(job)
      /\ job.op \in {"createUser", "updateRole"} => job.role \in Role
  <2>1. \E op \in MemberOps : At(r, op, "begun") \/ At(r, op, "read")
    BY DEF CreateUser, UpdateUserRole, DeleteUser, MemberOps
  <2>2. req[r].at \in Steps /\ job.op \in MemberOps /\ Parsed(job)
    BY <2>1, AtWorks DEF Steps
  <2> QED BY <2>2, OtherForms, AboutMembers, Schemas DEF Parsed, MemberOps
<1>1. role \in [User -> {"none"} \cup Role] BY DEF TypeInv, TablesTyped, AdminTyped
<1>2. Job(r).op \notin TakingOps \cup {"receive", "approve", "pick", "pay"}
  BY <1>0 DEF MemberOps, TakingOps
<1>3. CASE At(r, "createUser", "begun") \/ At(r, "updateRole", "begun") \/ At(r, "deleteUser", "begun")
  <2> DEFINE ok == job.actor \in Managers /\ (job.op # "createUser" => OfSomebodyElse(job))
  <2>1. /\ Advance(r, "read", <<>>) \/ Finish(r)
        /\ ~ ok => Finish(r)
        /\ UNCHANGED <<stockVars, docVars, adminVars, boundVars>>
    BY <1>3 DEF CreateUser, UpdateUserRole, DeleteUser, At, Job, Check
  <2>2. /\ Outcome(r) /\ UNCHANGED <<lists, stock, role>>
        /\ \/ req'[r] = Idle
           \/ req'[r].job = Job(r) /\ req'[r].at = "read" /\ req'[r].saw = <<>>
    <3> HIDE DEF ok
    <3> QED BY <1>0, <1>2, <2>1, Looking DEF Steps, TakingOps
  <2>3. ok \/ req'[r] = Idle BY <1>0, <2>1, Checked DEF TypeInv
  <2>4. Managers' = Managers BY <2>2 DEF Managers
  <2>5. req'[r] = Idle \/ Backed(r)'
    BY <2>2, <2>3, <2>4 DEF Backed, At, Job, OfSomebodyElse
  <2>6. \A p \in Product : req'[r] = Idle \/ Holds(r, p)'
    BY <1>2, <2>2 DEF Holds, At, Job, TakingOps
  <2> QED BY <1>0, <2>2, <2>4, <2>5, <2>6 DEF Careful
<1>4. CASE At(r, "createUser", "read") \/ At(r, "updateRole", "read") \/ At(r, "deleteUser", "read")
  <2>1. /\ \/ role' = role
           \/ At(r, "createUser", "read") /\ role[job.user] = "none" /\ role' = [role EXCEPT ![job.user] = job.role]
           \/ At(r, "updateRole", "read") /\ role' = [role EXCEPT ![job.user] = job.role]
           \/ At(r, "deleteUser", "read") /\ role' = [role EXCEPT ![job.user] = "none"]
        /\ Commits(r)
        /\ UNCHANGED <<stockVars, docVars, depot, active, rows, bill>>
    BY <1>4 DEF CreateUser, UpdateUserRole, DeleteUser, At, Job
  <2>2. role' \in [User -> {"none"} \cup Role] BY <1>0, <1>1, <2>1 DEF At, Job
  <2>3. TablesTyped' /\ UNCHANGED <<lists, stock>>
    BY <2>1, <2>2 DEF TypeInv, TablesTyped, StockTyped, DocsTyped, AdminTyped, stockVars, docVars
  <2>4. Outcome(r) /\ req'[r] = Idle BY <1>0, <2>1, <2>3, Writing
  <2>5. ASSUME Managers # {}, Backed(r) PROVE Managers' # {}
    <3>1. CASE role' = role BY <2>5, <3>1 DEF Managers
    <3>2. CASE At(r, "createUser", "read") /\ role[job.user] = "none" /\ role' = [role EXCEPT ![job.user] = job.role]
      <4>1. PICK u \in Managers : TRUE BY <2>5
      <4>2. u \in User /\ u # job.user /\ role'[u] = role[u]
        BY <1>1, <3>2, <4>1 DEF Managers
      <4> QED BY <4>1, <4>2 DEF Managers
    <3>3. CASE \/ At(r, "updateRole", "read") /\ role' = [role EXCEPT ![job.user] = job.role]
               \/ At(r, "deleteUser", "read") /\ role' = [role EXCEPT ![job.user] = "none"]
      <4>1. job.actor \in Managers /\ job.user # job.actor BY <2>5, <3>3 DEF Backed
      <4>2. job.actor \in User /\ role'[job.actor] = role[job.actor]
        BY <1>0, <1>1, <3>3, <4>1
      <4> QED BY <4>1, <4>2 DEF Managers
    <3> QED BY <2>1, <3>1, <3>2, <3>3
  <2> QED BY <1>0, <2>3, <2>4, <2>5 DEF Careful
<1> QED BY <1>3, <1>4 DEF CreateUser, UpdateUserRole, DeleteUser

------------------------
(* Every step of a request. *)

\* A step of request r leaves the members alone, or is about them; and it leaves
\* somebody to manage them, if nobody else was at work on them.
Backing(r) ==
  /\ role' = role \/ "members" \in Subjects(Job(r))
  /\ Managers # {} /\ Backed(r) => Managers' # {} /\ (req'[r] = Idle \/ Backed(r)')

LEMMA ApoliticalBacking ==
  ASSUME NEW r \in Request, Moves(r), Apolitical(r)
  PROVE  Backing(r)
<1>1. Managers' = Managers BY DEF Apolitical, Managers
<1>2. req'[r] = Idle \/ Backed(r)' BY DEF Moves, Apolitical, MemberOps, Backed, At, Job
<1> QED BY <1>1, <1>2 DEF Backing, Apolitical

LEMMA RequestsKept ==
  ASSUME TypeInv, NEW r \in Request, Handle(r) \/ Serve(r) \/ Fail(r)
  PROVE  Outcome(r) /\ Careful(r) /\ Backing(r)
<1>1. CASE Fail(r)
  <2>1. /\ req[r].at # "idle" /\ Finish(r)
        /\ UNCHANGED <<stockVars, docVars, adminVars, boundVars>>
    BY <1>1 DEF Fail
  <2>2. req[r].at \in Steps BY <2>1 DEF TypeInv, RequestsTyped, Idle, Working
  <2>3. Moves(r) /\ TablesTyped' /\ UNCHANGED <<lists, stock, role>>
    BY <2>1, <2>2, Looking DEF Steps
  <2>4. req'[r] = Idle BY <2>1, <2>2, Checked DEF TypeInv, Steps
  <2>5. Managers' = Managers BY <2>3 DEF Managers
  <2> QED BY <2>3, <2>4, <2>5 DEF Outcome, Careful, Backing
<1>2. CASE CreateUser(r) \/ UpdateUserRole(r) \/ DeleteUser(r)
  BY <1>2, MembersKept DEF Backing
<1>3. CASE Outcome(r) /\ Careful(r) /\ Apolitical(r)
  BY <1>3, ApoliticalBacking DEF Outcome
<1>4. CASE Outcome(r) /\ Aside(r) BY <1>3, <1>4, AsideCareful
<1>5. CASE Serve(r)
  <2>1. CASE Catalogues(r) BY <1>4, <2>1, CatalogueKept
  <2>2. CASE ApiCreateWarehouse(r) \/ ApiUpdateWarehouse(r)
    BY <1>4, <2>2, DepotKept DEF ApiCreateWarehouse, ApiUpdateWarehouse
  <2>3. CASE DeactivateProduct(r) BY <1>4, <2>3, SwitchKept
  <2>4. CASE Numbers(r) BY <1>4, <2>4, NumberedKept
  <2> QED BY <1>5, <2>1, <2>2, <2>3, <2>4 DEF Serve, Catalogues, Numbers
<1>6. CASE Handle(r)
  <2>1. CASE Catalogues(r) BY <1>4, <2>1, CatalogueKept
  <2>2. CASE CreateWarehouse(r) \/ UpdateWarehouse(r)
    BY <1>4, <2>2, DepotKept DEF CreateWarehouse, UpdateWarehouse
  <2>3. CASE SetProductActive(r) BY <1>4, <2>3, SwitchKept
  <2>4. CASE Numbers(r) BY <1>4, <2>4, NumberedKept
  <2>5. CASE CreateInvoice(r) \/ RecordPayment(r) \/ TransitionInvoiceStatus(r)
    BY <1>4, <2>5, InvoicesKept
  <2>6. CASE \/ StartPicking(r) \/ UpdatePickListItem(r) \/ PackOrder(r)
             \/ ShipOrder(r) \/ DeliverOrder(r) \/ UpdateBom(r)
    BY <1>4, <2>6, PickingKept, PickKept, ShippingKept, BillOfMaterialKept
  <2>7. CASE \/ CreateStockMovement(r) \/ CreateStockTransfer(r) \/ RecordStocktakeCount(r)
             \/ ReceivePurchaseOrder(r) \/ StartManufacturingOrder(r)
             \/ CompleteManufacturingOrder(r) \/ ConfirmSalesOrder(r) \/ ApproveSalesReturn(r)
    BY <1>3, <2>7, MovementKept, TransferKept, CountKept, PurchaseKept, StartKept,
       CompletionKept, ConfirmKept, ReturnKept
  <2> QED BY <1>2, <1>6, <2>1, <2>2, <2>3, <2>4, <2>5, <2>6, <2>7 DEF Handle, Catalogues, Numbers
<1> QED BY <1>1, <1>5, <1>6

(***************************************************************************)
(* The invariant.  clashed is what makes it one: whatever two requests are *)
(* about at a time is in it, so that of all else what a request has found  *)
(* still holds when it writes.                                             *)
(***************************************************************************)
Apart ==
  \A q, r \in Request : q # r /\ req[q] # Idle /\ req[r] # Idle
    => Subjects(Job(q)) \cap Subjects(Job(r)) \subseteq clashed

EnoughInv ==
  \A p \in Product : p \notin clashed /\ OnceInEachOrder(p) =>
    /\ \A w \in Warehouse : stock[p][w] >= 0
    /\ \A r \in Request : Holds(r, p)

BackedInv == "members" \notin clashed => Managers # {} /\ \A r \in Request : Backed(r)

OfficeInv == TypeInv /\ Apart /\ EnoughInv /\ BackedInv

LEMMA ServedKept ==
  ASSUME OfficeInv, mode = "database", mode' = mode,
         NEW r \in Request, Handle(r) \/ Serve(r) \/ Fail(r)
  PROVE  OfficeInv'
<1>1. TypeInv /\ Apart BY DEF OfficeInv
<1>2. Outcome(r) /\ Careful(r) /\ Backing(r) BY <1>1, RequestsKept
<1>3. Moves(r) /\ clashed' = clashed BY <1>2 DEF Outcome, Moves, boundVars
<1>4. TypeInv' BY <1>1, <1>2, <1>3, MovesTyped DEF Outcome
<1>5. Apart'
  <2> SUFFICES ASSUME NEW q \in Request, NEW s \in Request, q # s, req'[q] # Idle, req'[s] # Idle
               PROVE  Subjects(req'[q].job) \cap Subjects(req'[s].job) \subseteq clashed
    BY <1>3 DEF Apart, Job, Subjects
  <2>1. \A x \in Request : req'[x] # Idle => req[x] # Idle /\ req'[x].job = req[x].job
    BY <1>3 DEF Moves
  <2> QED BY <1>1, <2>1 DEF Apart, Job
<1>6. \A q \in Request \ {r} : req'[q] = req[q] BY <1>3 DEF Moves
<1>7. \A q \in Request : req[q] = Idle \/ Job(q) \in Form
  BY <1>1 DEF TypeInv, RequestsTyped, Working, Parsed
<1>8. req[r] # Idle BY <1>3 DEF Moves
<1>9. EnoughInv'
  <2> SUFFICES ASSUME NEW p \in Product, p \notin clashed, OnceInEachOrder(p)
               PROVE  /\ \A w \in Warehouse : stock'[p][w] >= 0
                      /\ \A q \in Request : Holds(q, p)'
    BY <1>3 DEF EnoughInv, OnceInEachOrder
  <2>1. (\A w \in Warehouse : stock[p][w] >= 0) /\ \A q \in Request : Holds(q, p)
    BY DEF OfficeInv, EnoughInv
  <2>2. (\A w \in Warehouse : stock'[p][w] >= 0) /\ (req'[r] = Idle \/ Holds(r, p)')
    BY <1>2, <2>1 DEF Careful
  <2>3. ASSUME NEW q \in Request, req'[q] = Idle PROVE Holds(q, p)'
    BY <2>3 DEF Holds, At, Idle, Job
  <2>4. ASSUME NEW q \in Request, q # r, req[q] # Idle PROVE Holds(q, p)'
    <3>1. req'[q] = req[q] /\ Holds(q, p) BY <1>6, <2>1, <2>4
    <3>2. CASE p \in Subjects(Job(q))
      <4>1. p \notin Subjects(Job(r)) BY <1>1, <1>8, <2>4, <3>2 DEF Apart
      <4>2. stock'[p] = stock[p] BY <1>2, <4>1 DEF Careful
      <4> QED BY <3>1, <4>2 DEF Holds, At, Job
    <3>3. CASE p \notin Subjects(Job(q))
      <4>1. Job(q) \in Form BY <1>7, <2>4
      <4>2. /\ Job(q).op \in {"movement", "transfer", "count"} => Job(q).product # p
            /\ Job(q).op = "confirm" =>
                 \A i \in DOMAIN Lines[Job(q).doc] : Lines[Job(q).doc][i].product # p
            /\ Job(q).op # "start"
        BY <3>3, <4>1, AboutStock
      <4> QED BY <3>1, <4>2 DEF Holds, At, Job
    <3> QED BY <3>2, <3>3
  <2> QED BY <1>6, <2>2, <2>3, <2>4
<1>10. BackedInv'
  <2> SUFFICES ASSUME "members" \notin clashed
               PROVE  Managers' # {} /\ \A q \in Request : Backed(q)'
    BY <1>3 DEF BackedInv
  <2>1. Managers # {} /\ \A q \in Request : Backed(q) BY DEF OfficeInv, BackedInv
  <2>2. Managers' # {} /\ (req'[r] = Idle \/ Backed(r)') BY <1>2, <2>1 DEF Backing
  <2>3. ASSUME NEW q \in Request, req'[q] = Idle PROVE Backed(q)'
    BY <2>3 DEF Backed, At, Idle, Job
  <2>4. ASSUME NEW q \in Request, q # r, req[q] # Idle PROVE Backed(q)'
    <3>1. req'[q] = req[q] /\ Backed(q) BY <1>6, <2>1, <2>4
    <3>2. CASE Job(q).op \in MemberOps
      <4>1. Parsed(Job(q)) BY <1>1, <2>4 DEF TypeInv, RequestsTyped, Working
      <4>2. "members" \in Subjects(Job(q)) BY <3>2, <4>1, AboutMembers DEF MemberOps
      <4>3. "members" \notin Subjects(Job(r)) BY <1>1, <1>8, <2>4, <4>2 DEF Apart
      <4>4. Managers' = Managers BY <1>2, <4>3 DEF Backing, Managers
      <4> QED BY <3>1, <4>4 DEF Backed, At, Job
    <3>3. CASE Job(q).op \notin MemberOps BY <3>1, <3>3 DEF Backed, At, Job, MemberOps
    <3> QED BY <3>2, <3>3
  <2> QED BY <1>6, <2>2, <2>3, <2>4
<1> QED BY <1>4, <1>5, <1>9, <1>10 DEF OfficeInv

LEMMA BegunKept ==
  ASSUME OfficeInv, mode = "database", mode' = mode, NEW r \in Request, Begin(r) \/ Route(r)
  PROVE  OfficeInv'
<1>1. PICK job \in Menu[desk] : (Accepted(job) \/ Routed(job)) /\ Enters(r, job)
  BY DEF Begin, Route
<1>2. /\ req[r].at = "idle" /\ left > 0 /\ left' = left - 1
      /\ UNCHANGED <<desk, stockVars, docVars, adminVars>>
  BY DEF Begin, Route
<1>3. TypeInv /\ Apart /\ DOMAIN req = Request BY DEF OfficeInv, TypeInv, RequestsTyped
<1>4. Parsed(job) /\ req[r] = Idle
  BY <1>1, <1>2, <1>3, MenuAssumption DEF Parsed, TypeInv, BoundsTyped, RequestsTyped, Working, Steps
<1>5. /\ req'[r] = [job |-> job, at |-> "begun", saw |-> <<>>]
      /\ \A q \in Request \ {r} : req'[q] = req[q]
      /\ DOMAIN req' = Request
  BY <1>1, <1>3 DEF Enters
<1>6. /\ clashed \subseteq clashed'
      /\ \A q \in Request : req[q] # Idle => Subjects(job) \cap Subjects(Job(q)) \subseteq clashed'
  <2>1. \A q \in Request : req[q] # Idle => req[q].at # "idle"
    BY <1>3 DEF TypeInv, RequestsTyped, Working, Steps
  <2> QED BY <1>1, <2>1 DEF Enters
<1>7. UNCHANGED <<stock, plain, status, received, lists, shipments, recipe, used,
                  depot, active, role, rows, bill>>
  BY <1>2 DEF stockVars, docVars, adminVars
<1>8. TypeInv'
  <2>1. TablesTyped'
    BY <1>3, <1>7 DEF TypeInv, TablesTyped, StockTyped, DocsTyped, AdminTyped
  <2>2. \A q \in Request : req'[q] = Idle \/ Working(q)'
    <3> SUFFICES ASSUME NEW q \in Request PROVE req'[q] = Idle \/ Working(q)' OBVIOUS
    <3>1. CASE q = r BY <1>4, <1>5, <3>1 DEF Working, Knows, At, Job, Steps
    <3>2. CASE q # r
      BY <1>3, <1>5, <1>7, <3>2 DEF TypeInv, RequestsTyped, Working, Knows, At, Job
    <3> QED BY <3>1, <3>2
  <2>3. BoundsTyped' BY <1>2, <1>3, BoundAssumption DEF TypeInv, BoundsTyped
  <2> QED BY <1>5, <2>1, <2>2, <2>3 DEF TypeInv, RequestsTyped
<1>9. Apart'
  <2> SUFFICES ASSUME NEW q \in Request, NEW s \in Request, q # s, req'[q] # Idle, req'[s] # Idle
               PROVE  Subjects(req'[q].job) \cap Subjects(req'[s].job) \subseteq clashed'
    BY DEF Apart, Job, Subjects
  <2>1. CASE q # r /\ s # r BY <1>3, <1>5, <1>6, <2>1 DEF Apart, Job
  <2>2. CASE q = r BY <1>5, <1>6, <2>2 DEF Job
  <2>3. CASE s = r BY <1>5, <1>6, <2>3 DEF Job
  <2> QED BY <2>1, <2>2, <2>3
<1>10. EnoughInv'
  <2> SUFFICES ASSUME NEW p \in Product, p \notin clashed', OnceInEachOrder(p)
               PROVE  /\ \A w \in Warehouse : stock'[p][w] >= 0
                      /\ \A q \in Request : Holds(q, p)'
    BY DEF EnoughInv, OnceInEachOrder
  <2>1. (\A w \in Warehouse : stock[p][w] >= 0) /\ \A q \in Request : Holds(q, p)
    BY <1>6 DEF OfficeInv, EnoughInv
  <2>2. Holds(r, p)' BY <1>5 DEF Holds, At, Job
  <2>3. \A q \in Request \ {r} : Holds(q, p)' BY <1>5, <1>7, <2>1 DEF Holds, At, Job
  <2> QED BY <1>7, <2>1, <2>2, <2>3
<1>11. BackedInv'
  <2> SUFFICES ASSUME "members" \notin clashed'
               PROVE  Managers' # {} /\ \A q \in Request : Backed(q)'
    BY DEF BackedInv
  <2>1. Managers # {} /\ \A q \in Request : Backed(q) BY <1>6 DEF OfficeInv, BackedInv
  <2>2. Managers' = Managers BY <1>7 DEF Managers
  <2>3. Backed(r)' BY <1>5 DEF Backed, At, Job
  <2>4. \A q \in Request \ {r} : Backed(q)' BY <1>5, <2>1, <2>2 DEF Backed, At, Job
  <2> QED BY <2>1, <2>2, <2>3, <2>4
<1> QED BY <1>8, <1>9, <1>10, <1>11 DEF OfficeInv

------------------------

(* The demo store. *)
LEMMA PostedIsMoved ==
  ASSUME stock \in [Product -> [Warehouse -> Int]], NEW w \in Warehouse, NEW lines,
         IsFiniteSet(DOMAIN lines), \A i \in DOMAIN lines : lines[i].quantity \in Int,
         NEW sign \in {1, -1}
  PROVE  Demo!Posted(w, lines, sign) = Moved(w, lines, sign)
<1>1. \A p : QuantityOf(lines, p) \in Int BY QuantityInt
<1>2. \A p : sign * QuantityOf(lines, p) \in Int
  <2>1. \A n \in Int : 1 * n = n /\ (-1) * n = -n OBVIOUS
  <2> QED BY <1>1, <2>1
<1> DEFINE change(p) == sign * QuantityOf(lines, p)
<1>3. Demo!Posted(w, lines, sign) = [p \in Product |-> [stock[p] EXCEPT ![w] = @ + change(p)]]
  BY DemoSums DEF Demo!Posted
<1>4. Moved(w, lines, sign) =
        [p \in Product |-> [v \in Warehouse |-> stock[p][v] + (IF v = w THEN change(p) ELSE 0)]]
  BY DEF Moved
<1>5. \A p : change(p) \in Int BY <1>2
<1> HIDE DEF change
<1>6. ASSUME NEW p \in Product
      PROVE  [stock[p] EXCEPT ![w] = @ + change(p)]
               = [v \in Warehouse |-> stock[p][v] + (IF v = w THEN change(p) ELSE 0)]
  <2> DEFINE s == stock[p]
             c == change(p)
             before == [s EXCEPT ![w] = @ + c]
             after == [v \in Warehouse |-> s[v] + (IF v = w THEN c ELSE 0)]
  <2>1. s \in [Warehouse -> Int] /\ c \in Int BY <1>5
  <2> HIDE DEF s, c
  <2>2. /\ before = [v \in Warehouse |-> before[v]]
        /\ \A v \in Warehouse : before[v] = IF v = w THEN s[v] + c ELSE s[v]
    BY <2>1
  <2>3. \A v \in Warehouse : s[v] \in Int /\ s[v] + 0 = s[v] BY <2>1
  <2>4. /\ after = [v \in Warehouse |-> after[v]]
        /\ \A v \in Warehouse : after[v] = IF v = w THEN s[v] + c ELSE s[v]
    BY <2>3
  <2> HIDE DEF before, after
  <2>5. before = after BY <2>2, <2>4
  <2> QED BY <2>5 DEF before, after, s, c
<1> QED BY <1>3, <1>4, <1>6

\* What a step of the store is to keep.
DemoOutcome ==
  /\ stock' \in [Product -> [Warehouse -> Int]]
  /\ status' \in [Doc -> DocStatus]
  /\ DOMAIN received' = PurchaseOrder
  /\ \A o \in PurchaseOrder : received'[o] \in Received(o)
  /\ recipe' \in [Product -> ComponentRows]
  /\ AdminTyped'
  /\ \A p \in Product : OnceInEachOrder(p) /\ (\A w \in Warehouse : stock[p][w] >= 0)
       => \A w \in Warehouse : stock'[p][w] >= 0
  /\ Managers # {} => Managers' # {}

LEMMA DemoCatalogue ==
  ASSUME TypeInv, NEW job, Parsed(job),
         \/ Demo!CreateProduct(job) \/ Demo!UpdateProduct(job)
         \/ Demo!CreateSupplier(job) \/ Demo!UpdateSupplier(job) \/ Demo!CreateCustomer(job)
         \/ Demo!CreateBom(job) \/ Demo!UpsertCustomField(job)
         \/ Demo!UpdateOrganizationSettings(job)
         \/ Demo!CreateWebhookSubscription(job) \/ Demo!UpdateWebhookSubscription(job)
  PROVE  DemoOutcome
<1> DEFINE Written(table) == [table |-> table, row |-> job.target, key |-> job.key]
<1>1. /\ job.op \in CatalogueOps
      /\ \E table \in Table, kept \in SUBSET rows : rows' = kept \cup {Written(table)}
      /\ UNCHANGED <<stock, status, received, recipe, depot, active, role, bill>>
  <2>1. \A table \in Table : /\ rows \in SUBSET rows
                             /\ (rows \ Demo!SameRow(table, job.target)) \in SUBSET rows
    OBVIOUS
  <2>2. (rows \ {x \in rows : x.table = "settings"}) \in SUBSET rows OBVIOUS
  <2> QED BY <2>1, <2>2 DEF Demo!CreateProduct, Demo!UpdateProduct, Demo!CreateSupplier,
       Demo!UpdateSupplier, Demo!CreateCustomer, Demo!CreateBom, Demo!UpsertCustomField,
       Demo!UpdateOrganizationSettings, Demo!CreateWebhookSubscription,
       Demo!UpdateWebhookSubscription, Demo!Adds, Demo!Changes, CatalogueOps, Table
<1>2. job.target \in Row /\ job.key \in Key BY <1>1, OtherForms
<1>3. rows' \in SUBSET CatalogueRow
  BY <1>1, <1>2 DEF TypeInv, TablesTyped, AdminTyped, CatalogueRow
<1> QED BY <1>1, <1>3
    DEF DemoOutcome, TypeInv, TablesTyped, StockTyped, DocsTyped, AdminTyped, Managers

LEMMA DemoAdmin ==
  ASSUME TypeInv, NEW job, Parsed(job),
         \/ Demo!CreateWarehouse(job) \/ Demo!UpdateWarehouse(job) \/ Demo!SetProductActive(job)
         \/ Demo!CreateInvoice(job) \/ Demo!RecordDemoPayment(job)
         \/ Demo!TransitionDemoInvoiceStatus(job)
  PROVE  DemoOutcome
<1>0. /\ stock \in [Product -> [Warehouse -> Int]] /\ status \in [Doc -> DocStatus]
      /\ DOMAIN received = PurchaseOrder /\ \A o \in PurchaseOrder : received[o] \in Received(o)
      /\ recipe \in [Product -> ComponentRows] /\ AdminTyped
  BY DEF TypeInv, TablesTyped, StockTyped, DocsTyped
<1>1. CASE Demo!CreateWarehouse(job) \/ Demo!UpdateWarehouse(job)
  <2>1. job.target \in Warehouse
    BY <1>1, OtherForms DEF Demo!CreateWarehouse, Demo!UpdateWarehouse
  <2>2. depot' \in [Warehouse -> {"absent", "plain", "default"}]
    BY <1>0, <1>1, <2>1
       DEF Demo!CreateWarehouse, Demo!UpdateWarehouse, Demo!TakeDefaultFrom, AdminTyped
  <2>3. UNCHANGED <<stock, status, received, recipe, active, role, rows, bill>>
    BY <1>1 DEF Demo!CreateWarehouse, Demo!UpdateWarehouse
  <2> QED BY <1>0, <2>2, <2>3 DEF DemoOutcome, AdminTyped, Managers
<1>2. CASE Demo!SetProductActive(job)
  <2>1. job.product \in Product BY <1>2, StockForms DEF Demo!SetProductActive, Parsed
  <2> QED BY <1>0, <1>2, <2>1 DEF Demo!SetProductActive, DemoOutcome, AdminTyped, Managers
<1>3. CASE Demo!CreateInvoice(job) \/ Demo!RecordDemoPayment(job) \/ Demo!TransitionDemoInvoiceStatus(job)
  <2>1. /\ job.target \in Invoice
        /\ job.op = "pay" => job.amount \in Int /\ job.amount > 0
        /\ job.op = "transition" => job.to \in InvoiceStatus
    BY <1>3, OtherForms, Schemas
       DEF Demo!CreateInvoice, Demo!RecordDemoPayment, Demo!TransitionDemoInvoiceStatus, Parsed
  <2>2. bill \in [Invoice -> InvoiceRow] BY <1>0 DEF AdminTyped
  <2>3. bill' \in [Invoice -> InvoiceRow]
    <3>1. CASE Demo!CreateInvoice(job)
      BY <2>1, <2>2, <3>1 DEF Demo!CreateInvoice, InvoiceRow, InvoiceStatus
    <3>2. CASE Demo!TransitionDemoInvoiceStatus(job)
      BY <2>1, <2>2, <3>2 DEF Demo!TransitionDemoInvoiceStatus, InvoiceRow
    <3>3. CASE Demo!RecordDemoPayment(job)
      BY <2>1, <2>2, <3>3 DEF Demo!RecordDemoPayment, InvoiceRow, InvoiceStatus
    <3> QED BY <1>3, <3>1, <3>2, <3>3
  <2>4. UNCHANGED <<stock, status, received, recipe, depot, active, role, rows>>
    BY <1>3 DEF Demo!CreateInvoice, Demo!RecordDemoPayment, Demo!TransitionDemoInvoiceStatus
  <2> QED BY <1>0, <2>3, <2>4 DEF DemoOutcome, AdminTyped, Managers
<1> QED BY <1>1, <1>2, <1>3

LEMMA DemoMembers ==
  ASSUME TypeInv, NEW job, Parsed(job),
         Demo!CreateUser(job) \/ Demo!UpdateUserRole(job) \/ Demo!DeleteUser(job)
  PROVE  DemoOutcome
<1>1. /\ stock \in [Product -> [Warehouse -> Int]] /\ status \in [Doc -> DocStatus]
      /\ DOMAIN received = PurchaseOrder /\ \A o \in PurchaseOrder : received[o] \in Received(o)
      /\ recipe \in [Product -> ComponentRows] /\ AdminTyped
      /\ role \in [User -> {"none"} \cup Role]
  BY DEF TypeInv, TablesTyped, StockTyped, DocsTyped, AdminTyped
<1>2. /\ job.actor \in User /\ job.user \in User
      /\ job.op \in {"createUser", "updateRole"} => job.role \in Role
  BY OtherForms, Schemas
     DEF Demo!CreateUser, Demo!UpdateUserRole, Demo!DeleteUser, Demo!SetsRole, Parsed
<1>3. /\ job.actor \in Managers
      /\ UNCHANGED <<stock, status, received, recipe, depot, active, rows, bill>>
  BY <1>2 DEF Demo!CreateUser, Demo!UpdateUserRole, Demo!DeleteUser, Demo!SetsRole, Demo!May, Managers
<1>4. PICK to \in {"none"} \cup Role :
        role' = [role EXCEPT ![job.user] = to] /\ (role[job.user] = "none" \/ job.user # job.actor)
  BY <1>2 DEF Demo!CreateUser, Demo!UpdateUserRole, Demo!DeleteUser, Demo!SetsRole
<1>5. job.user # job.actor BY <1>3, <1>4 DEF Managers
<1>6. job.actor \in Managers' BY <1>1, <1>2, <1>3, <1>4, <1>5 DEF Managers
<1> QED BY <1>1, <1>2, <1>3, <1>4, <1>6 DEF DemoOutcome, AdminTyped

LEMMA DemoTyped ==
  ASSUME TypeInv
  PROVE  /\ stock \in [Product -> [Warehouse -> Int]] /\ status \in [Doc -> DocStatus]
         /\ DOMAIN received = PurchaseOrder /\ \A o \in PurchaseOrder : received[o] \in Received(o)
         /\ recipe \in [Product -> ComponentRows] /\ AdminTyped
         /\ \A p \in Product, w \in Warehouse : stock[p][w] \in Int
BY DEF TypeInv, TablesTyped, StockTyped, DocsTyped

LEMMA DemoStock ==
  ASSUME TypeInv, NEW job, Parsed(job),
         \/ Demo!CreateStockMovement(job) \/ Demo!CreateStockTransfer(job)
         \/ Demo!RecordStocktakeCount(job)
  PROVE  DemoOutcome
<1> DEFINE p1 == job.product
           w == job.warehouse
<1>1. /\ p1 \in Product /\ w \in Warehouse
      /\ job.op \in {"movement", "transfer"} => job.quantity \in Int /\ job.quantity > 0
      /\ job.op = "transfer" => job.to \in Warehouse
      /\ job.op = "count" => job.counted \in Int /\ job.counted >= 0
      /\ UNCHANGED <<status, received, recipe, depot, active, role, rows, bill>>
  BY StockForms, Schemas
     DEF Parsed, Demo!CreateStockMovement, Demo!CreateStockTransfer, Demo!RecordStocktakeCount
<1>2. /\ stock' \in [Product -> [Warehouse -> Int]]
      /\ \A p \in Product : (\A v \in Warehouse : stock[p][v] >= 0)
           => \A v \in Warehouse : stock'[p][v] >= 0
  <2>1. CASE Demo!CreateStockMovement(job)
    <3> DEFINE line == <<[product |-> p1, quantity |-> job.quantity]>>
               sign == IF job.type = "OUTBOUND" THEN -1 ELSE 1
    <3>1. /\ job.op = "movement"
          /\ job.type = "OUTBOUND" => Demo!OnHand(w, line)
          /\ stock' = Demo!Posted(w, line, sign)
      BY <2>1 DEF Demo!CreateStockMovement
    <3>2. line = OneLine(job) BY DEF OneLine
    <3>3. /\ IsFiniteSet(DOMAIN line)
          /\ \A i \in DOMAIN line : line[i].quantity \in Int /\ line[i].product = p1
          /\ QuantityOf(line, p1) = job.quantity
          /\ EnoughStock(w, line) => stock[p1][w] >= job.quantity
      BY <1>1, <3>1, <3>2, OneLineQuantity
    <3>4. Demo!OnHand(w, line) => stock[p1][w] >= job.quantity
      BY <3>3 DEF Demo!OnHand, EnoughStock
    <3>5. sign \in {1, -1} /\ (sign = -1 => job.type = "OUTBOUND") OBVIOUS
    <3> HIDE DEF line, sign, w, p1
    <3>6. stock' = Moved(w, line, sign)
      BY <1>1, <3>1, <3>3, <3>5, DemoTyped, PostedIsMoved
    <3>7. /\ stock' \in [Product -> [Warehouse -> Int]]
          /\ \A p \in Product : p # p1 => stock'[p] = stock[p]
          /\ \A p \in Product, v \in Warehouse :
              /\ v # w => stock'[p][v] = stock[p][v]
              /\ v = w /\ sign = 1 => stock'[p][v] = stock[p][v] + QuantityOf(line, p)
              /\ v = w /\ sign = -1 => stock'[p][v] = stock[p][v] - QuantityOf(line, p)
      BY <3>3, <3>5, <3>6, DemoTyped, MovedStock
    <3>8. ASSUME NEW p \in Product, \A v \in Warehouse : stock[p][v] >= 0, NEW v \in Warehouse
          PROVE  stock'[p][v] >= 0
      BY <1>1, <3>1, <3>3, <3>4, <3>5, <3>7, <3>8, DemoTyped
    <3> QED BY <3>7, <3>8
  <2>2. CASE Demo!CreateStockTransfer(job)
    <3> DEFINE to == job.to
               q == job.quantity
    <3>1. /\ stock' = [stock EXCEPT ![p1] = [v \in Warehouse |->
                       stock[p1][v] + (IF v = to THEN q ELSE 0) - (IF v = w THEN q ELSE 0)]]
          /\ stock[p1][w] >= q /\ q \in Int /\ q > 0 /\ to \in Warehouse
      BY <1>1, <2>2 DEF Demo!CreateStockTransfer
    <3> HIDE DEF w, p1, to, q
    <3>2. /\ stock' \in [Product -> [Warehouse -> Int]]
          /\ \A p \in Product : p # p1 => stock'[p] = stock[p]
          /\ \A v \in Warehouse :
               /\ v # w /\ v # to => stock'[p1][v] = stock[p1][v]
               /\ v = w /\ v # to => stock'[p1][v] = stock[p1][v] - q
               /\ v # w /\ v = to => stock'[p1][v] = stock[p1][v] + q
               /\ v = w /\ v = to => stock'[p1][v] = stock[p1][v]
      <4>1. stock \in [Product -> [Warehouse -> Int]] /\ p1 \in Product /\ q \in Int
        BY <1>1, <3>1, DemoTyped DEF p1
      <4>2. [v \in Warehouse |->
               stock[p1][v] + (IF v = to THEN q ELSE 0) - (IF v = w THEN q ELSE 0)]
              \in [Warehouse -> Int]
        BY <4>1
      <4> QED BY <3>1, <4>1, <4>2
    <3>3. ASSUME NEW p \in Product, \A v \in Warehouse : stock[p][v] >= 0, NEW v \in Warehouse
          PROVE  stock'[p][v] >= 0
      BY <1>1, <3>1, <3>2, <3>3, DemoTyped
    <3> QED BY <3>2, <3>3
  <2>3. CASE Demo!RecordStocktakeCount(job)
    <3>1. stock' = [stock EXCEPT ![p1][w] = job.counted] /\ job.counted \in Int /\ job.counted >= 0
      BY <1>1, <2>3 DEF Demo!RecordStocktakeCount
    <3> QED BY <1>1, <3>1, DemoTyped
  <2> QED BY <2>1, <2>2, <2>3
<1> QED BY <1>1, <1>2, DemoTyped DEF DemoOutcome, AdminTyped, Managers

LEMMA DemoDocuments ==
  ASSUME TypeInv, NEW job, Parsed(job),
         \/ Demo!CreateSalesOrder(job) \/ Demo!CreateCreditNote(job)
         \/ Demo!CreatePurchaseOrder(job) \/ Demo!CreateManufacturingOrder(job)
         \/ Demo!UpdateBom(job)
  PROVE  DemoOutcome
<1>1. CASE Demo!UpdateBom(job)
  <2>1. job.recipe \in Product /\ job.components \in ComponentRows
    BY <1>1, OrderForms DEF Demo!UpdateBom, Parsed
  <2> QED BY <1>1, <2>1, DemoTyped DEF Demo!UpdateBom, DemoOutcome, AdminTyped, Managers
<1>2. CASE \/ Demo!CreateSalesOrder(job) \/ Demo!CreateCreditNote(job)
           \/ Demo!CreatePurchaseOrder(job) \/ Demo!CreateManufacturingOrder(job)
  <2>1. /\ \E to \in {"DRAFT", "SENT"} : status' = [status EXCEPT ![job.doc] = to]
        /\ UNCHANGED <<stock, received, recipe, depot, active, role, rows, bill>>
    BY <1>2 DEF Demo!CreateSalesOrder, Demo!CreateCreditNote, Demo!CreatePurchaseOrder,
         Demo!CreateManufacturingOrder, Demo!Creates, Demo!SetsStatus
  <2>2. status' \in [Doc -> DocStatus] BY <2>1, DemoTyped DEF DocStatus
  <2> QED BY <2>1, <2>2, DemoTyped DEF DemoOutcome, AdminTyped, Managers
<1> QED BY <1>1, <1>2

LEMMA DemoOrders ==
  ASSUME TypeInv, NEW job, Parsed(job),
         Demo!ConfirmSalesOrder(job) \/ Demo!ReceivePurchaseOrder(job)
  PROVE  DemoOutcome
<1> DEFINE o == job.doc
<1>1. CASE Demo!ConfirmSalesOrder(job)
  <2>1. o \in SalesOrder BY <1>1, OrderForms DEF Demo!ConfirmSalesOrder, Parsed
  <2>2. PICK w \in Warehouse : /\ Demo!OnHand(w, Lines[o])
                               /\ stock' = Demo!Posted(w, Lines[o], -1)
    BY <1>1 DEF Demo!ConfirmSalesOrder
  <2>3. /\ status' = [status EXCEPT ![o] = "CONFIRMED"]
        /\ UNCHANGED <<received, recipe, depot, active, role, rows, bill>>
    BY <1>1 DEF Demo!ConfirmSalesOrder, Demo!SetsStatus
  <2>4. /\ IsFiniteSet(DOMAIN Lines[o])
        /\ \A i \in DOMAIN Lines[o] : Lines[o][i].quantity \in Int
    BY <2>1, LinesTyped
  <2>5. \A i \in DOMAIN Lines[o] : stock[Lines[o][i].product][w] >= Lines[o][i].quantity
    BY <2>2 DEF Demo!OnHand
  <2> HIDE DEF o
  <2>6. stock' = Moved(w, Lines[o], -1) BY <2>2, <2>4, DemoTyped, PostedIsMoved
  <2>7. /\ stock' \in [Product -> [Warehouse -> Int]]
        /\ \A p \in Product : (\A i \in DOMAIN Lines[o] : Lines[o][i].product # p)
             => stock'[p] = stock[p]
        /\ \A p \in Product, v \in Warehouse :
             /\ v # w => stock'[p][v] = stock[p][v]
             /\ v = w => stock'[p][v] = stock[p][v] - QuantityOf(Lines[o], p)
    <3>1. stock \in [Product -> [Warehouse -> Int]] /\ -1 \in {1, -1} BY DemoTyped
    <3> DEFINE lines == Lines[o]
    <3>2. IsFiniteSet(DOMAIN lines) /\ \A i \in DOMAIN lines : lines[i].quantity \in Int
      BY <2>4
    <3> HIDE DEF lines
    <3>3. /\ Moved(w, lines, -1) \in [Product -> [Warehouse -> Int]]
          /\ \A p \in Product : (\A i \in DOMAIN lines : lines[i].product # p)
               => Moved(w, lines, -1)[p] = stock[p]
          /\ \A p \in Product, v \in Warehouse :
               /\ v # w => Moved(w, lines, -1)[p][v] = stock[p][v]
               /\ v = w => Moved(w, lines, -1)[p][v] = stock[p][v] - QuantityOf(lines, p)
      BY <3>1, <3>2, MovedStock
    <3> QED BY <2>6, <3>3 DEF lines
  <2>8. ASSUME NEW p \in Product, OnceInEachOrder(p), \A v \in Warehouse : stock[p][v] >= 0,
               NEW v \in Warehouse
        PROVE  stock'[p][v] >= 0
    <3>1. CASE \A i \in DOMAIN Lines[o] : Lines[o][i].product # p BY <2>7, <2>8, <3>1
    <3>2. CASE \E i \in DOMAIN Lines[o] : Lines[o][i].product = p
      <4>1. PICK i \in DOMAIN Lines[o] : Lines[o][i].product = p BY <3>2
      <4>2. \A j \in DOMAIN Lines[o] : Lines[o][j].product = p => i = j
        BY <2>1, <2>8, <4>1 DEF OnceInEachOrder
      <4>3. QuantityOf(Lines[o], p) = Lines[o][i].quantity
        BY <2>4, <4>1, <4>2, QuantityInt
      <4>4. stock[p][w] >= Lines[o][i].quantity BY <2>5, <4>1
      <4> QED BY <2>4, <2>7, <2>8, <4>3, <4>4, DemoTyped
    <3> QED BY <3>1, <3>2
  <2>9. status' \in [Doc -> DocStatus] BY <2>3, DemoTyped DEF DocStatus
  <2> QED BY <2>3, <2>7, <2>8, <2>9, DemoTyped DEF DemoOutcome, AdminTyped, Managers
<1>2. CASE Demo!ReceivePurchaseOrder(job)
  <2>1. o \in PurchaseOrder BY <1>2, OrderForms DEF Demo!ReceivePurchaseOrder, Parsed
  <2> DEFINE rest == [i \in DOMAIN Lines[o] |->
                        [product |-> Lines[o][i].product,
                         quantity |-> Lines[o][i].quantity - received[o][i]]]
             all == [i \in DOMAIN received[o] |-> Lines[o][i].quantity]
  <2>2. PICK w \in Warehouse : stock' = Demo!Posted(w, rest, 1)
    BY <1>2 DEF Demo!ReceivePurchaseOrder
  <2>3. /\ received' = [received EXCEPT ![o] = all]
        /\ status' = [status EXCEPT ![o] = "COMPLETED"]
        /\ UNCHANGED <<recipe, depot, active, role, rows, bill>>
    BY <1>2, <2>1, DemoTyped DEF Demo!ReceivePurchaseOrder
  <2>4. /\ IsFiniteSet(DOMAIN Lines[o])
        /\ \A i \in DOMAIN Lines[o] : Lines[o][i].quantity \in Int /\ Lines[o][i].quantity > 0
    BY <2>1, LinesTyped
  <2>5. /\ received[o] \in [DOMAIN Lines[o] -> Int]
        /\ \A i \in DOMAIN Lines[o] : received[o][i] \in 0..Lines[o][i].quantity
    BY <2>1, DemoTyped DEF Received
  <2>6. all \in Received(o) BY <2>4, <2>5 DEF Received
  <2>7. /\ DOMAIN rest = DOMAIN Lines[o]
        /\ \A i \in DOMAIN rest : rest[i].quantity \in Int /\ rest[i].quantity >= 0
    BY <2>4, <2>5
  <2> HIDE DEF rest, all, o
  <2>8. stock' = Moved(w, rest, 1) BY <2>2, <2>4, <2>7, DemoTyped, PostedIsMoved
  <2>9. /\ stock' \in [Product -> [Warehouse -> Int]]
        /\ \A p \in Product, v \in Warehouse :
             /\ v # w => stock'[p][v] = stock[p][v]
             /\ v = w => stock'[p][v] = stock[p][v] + QuantityOf(rest, p)
    BY <2>4, <2>7, <2>8, DemoTyped, MovedStock
  <2>10. \A p : QuantityOf(rest, p) \in Int /\ QuantityOf(rest, p) >= 0
    BY <2>4, <2>7, QuantityInt
  <2>11. ASSUME NEW p \in Product, \A v \in Warehouse : stock[p][v] >= 0, NEW v \in Warehouse
         PROVE  stock'[p][v] >= 0
    BY <2>9, <2>10, <2>11, DemoTyped
  <2>12. /\ DOMAIN received' = PurchaseOrder
         /\ \A q \in PurchaseOrder : received'[q] \in Received(q)
    BY <2>1, <2>3, <2>6, DemoTyped
  <2>13. status' \in [Doc -> DocStatus] BY <2>3, DemoTyped DEF DocStatus
  <2> QED BY <2>3, <2>9, <2>11, <2>12, <2>13, DemoTyped DEF DemoOutcome, AdminTyped, Managers
<1> QED BY <1>1, <1>2

LEMMA DemoManufacturing ==
  ASSUME TypeInv, NEW job, Parsed(job),
         Demo!StartManufacturingOrder(job) \/ Demo!CompleteManufacturingOrder(job)
  PROVE  DemoOutcome
<1> DEFINE o == job.doc
           w == Build[o].warehouse
           n == Build[o].quantity
           parts == recipe[Build[o].product]
<1>1. /\ o \in ManufacturingOrder /\ w \in Warehouse /\ n \in Nat /\ Build[o].product \in Product
      /\ parts \in ComponentRows
  <2>1. o \in ManufacturingOrder
    BY OrderForms DEF Demo!StartManufacturingOrder, Demo!CompleteManufacturingOrder,
         Demo!SetsStatus, Parsed
  <2> QED BY <2>1, BuildAssumption, DemoTyped
<1>2. CASE Demo!StartManufacturingOrder(job)
  <2>1. PICK taken \in SUBSET parts : Demo!Covered(taken, o) /\ stock' = Demo!Consumed(taken, o)
    BY <1>2 DEF Demo!StartManufacturingOrder
  <2>2. /\ status' = status \/ status' = [status EXCEPT ![o] = "IN_PROGRESS"]
        /\ UNCHANGED <<received, recipe, depot, active, role, rows, bill>>
    BY <1>2 DEF Demo!StartManufacturingOrder
  <2>3. taken \in ComponentRows BY <1>1, FS_Subset DEF ComponentRows
  <2> DEFINE take(p) == Demo!Takes(taken, p, o)
  <2>4. \A p : take(p) \in Int
    <3>1. \A p : Needed(taken, p, n) \in Int BY <1>1, <2>3, NeededInt
    <3> QED BY <3>1, DemoSums
  <2>5. \A p \in Product : take(p) > 0 => stock[p][w] >= take(p)
    BY <2>1 DEF Demo!Covered
  <2>6. stock' = [p \in Product |-> [stock[p] EXCEPT ![w] = @ - take(p)]]
    BY <2>1 DEF Demo!Consumed
  <2> HIDE DEF take, w
  <2>7. /\ stock' \in [Product -> [Warehouse -> Int]]
        /\ \A p \in Product, v \in Warehouse :
             stock'[p][v] = IF v = w THEN stock[p][v] - take(p) ELSE stock[p][v]
    BY <1>1, <2>4, <2>6, DemoTyped
  <2>8. ASSUME NEW p \in Product, \A v \in Warehouse : stock[p][v] >= 0, NEW v \in Warehouse
        PROVE  stock'[p][v] >= 0
    BY <2>4, <2>5, <2>7, <2>8, DemoTyped
  <2>9. status' \in [Doc -> DocStatus] BY <2>2, DemoTyped DEF DocStatus
  <2> QED BY <2>2, <2>7, <2>8, <2>9, DemoTyped DEF DemoOutcome, AdminTyped, Managers
<1>3. CASE Demo!CompleteManufacturingOrder(job)
  <2> DEFINE p1 == Build[o].product
  <2>1. /\ stock' = [stock EXCEPT ![p1][w] = @ + n]
        /\ status' = [status EXCEPT ![o] = "COMPLETED"]
        /\ UNCHANGED <<received, recipe, depot, active, role, rows, bill>>
    BY <1>3 DEF Demo!CompleteManufacturingOrder, Demo!SetsStatus
  <2>2. p1 \in Product BY <1>1
  <2> HIDE DEF p1, w, n
  <2>3. /\ stock' \in [Product -> [Warehouse -> Int]]
        /\ \A p \in Product, v \in Warehouse :
             stock'[p][v] = IF p = p1 /\ v = w THEN stock[p][v] + n ELSE stock[p][v]
    BY <1>1, <2>1, <2>2, DemoTyped
  <2>4. ASSUME NEW p \in Product, \A v \in Warehouse : stock[p][v] >= 0, NEW v \in Warehouse
        PROVE  stock'[p][v] >= 0
    BY <1>1, <2>3, <2>4, DemoTyped
  <2>5. status' \in [Doc -> DocStatus] BY <2>1, DemoTyped DEF DocStatus
  <2> QED BY <2>1, <2>3, <2>4, <2>5, DemoTyped DEF DemoOutcome, AdminTyped, Managers
<1> QED BY <1>2, <1>3

LEMMA DemoKept ==
  ASSUME OfficeInv, mode = "demo", mode' = mode, NEW job \in Menu[desk], InDemoMode(job)
  PROVE  OfficeInv'
<1>1. /\ TypeInv /\ Accepted(job) /\ Demo!Does(job)
      /\ left > 0 /\ left' = left - 1
      /\ UNCHANGED <<lists, shipments, req, desk, clashed>>
  BY DEF OfficeInv, InDemoMode
<1>2. Parsed(job) BY <1>1, MenuAssumption DEF Parsed, TypeInv, BoundsTyped
<1>3. DemoOutcome
  BY <1>1, <1>2, DemoCatalogue, DemoAdmin, DemoMembers, DemoStock, DemoDocuments, DemoOrders,
     DemoManufacturing DEF Demo!Does
<1>4. plain' \in [Product -> Int]
  <2>1. \A p \in Product : plain[p] \in Int BY <1>1 DEF TypeInv, TablesTyped, StockTyped
  <2>2. ASSUME NEW p \in Product
        PROVE  SumFunction([w \in Warehouse |-> stock'[p][w] - stock[p][w]]) \in Int
    <3> DEFINE f == [w \in Warehouse |-> stock'[p][w] - stock[p][w]]
    <3>1. \A w \in Warehouse : stock'[p][w] \in Int /\ stock[p][w] \in Int
      BY <1>1, <1>3, DemoTyped DEF DemoOutcome
    <3>2. DOMAIN f = Warehouse /\ \A w \in Warehouse : f[w] \in Int BY <3>1
    <3>3. IsFiniteSet(Warehouse) BY FiniteAssumption
    <3> HIDE DEF f
    <3>4. SumFunction(f) \in Int BY <3>2, <3>3, SumFunctionInt
    <3> QED BY <3>4 DEF f
  <2>3. \A p \in Product :
          plain[p] + SumFunction([w \in Warehouse |-> stock'[p][w] - stock[p][w]]) \in Int
    <3> SUFFICES ASSUME NEW p \in Product
                 PROVE  plain[p] + SumFunction([w \in Warehouse |-> stock'[p][w] - stock[p][w]]) \in Int
      OBVIOUS
    <3> DEFINE s == SumFunction([w \in Warehouse |-> stock'[p][w] - stock[p][w]])
    <3>1. s \in Int /\ plain[p] \in Int BY <2>1, <2>2
    <3> HIDE DEF s
    <3>2. plain[p] + s \in Int BY <3>1
    <3> QED BY <3>2 DEF s
  <2> QED BY <2>1, <2>3 DEF InDemoMode
<1>5. used' \in [ManufacturingOrder -> ComponentRows]
  <2>1. used \in [ManufacturingOrder -> ComponentRows]
    BY <1>1 DEF TypeInv, TablesTyped, DocsTyped
  <2>2. job.op = "start" => job.doc \in ManufacturingOrder
    BY <1>2, OrderForms DEF Parsed
  <2>3. job.op = "start" => recipe[Build[job.doc].product] \in ComponentRows
    BY <1>1, <2>2, BuildAssumption, DemoTyped
  <2> QED BY <2>1, <2>3 DEF InDemoMode
<1>6. TablesTyped'
  BY <1>1, <1>3, <1>4, <1>5
     DEF TypeInv, TablesTyped, StockTyped, DocsTyped, DemoOutcome, Received, PickList
<1>7. \A r \in Request : req[r] = Idle /\ req'[r] = Idle
  BY <1>1 DEF TypeInv, BoundsTyped
<1>8. TypeInv'
  <2>1. BoundsTyped' BY <1>1, <1>7, BoundAssumption DEF TypeInv, BoundsTyped
  <2> QED BY <1>1, <1>6, <1>7, <2>1 DEF TypeInv, RequestsTyped
<1>9. Apart' BY <1>7 DEF Apart
<1>10. \A r \in Request : Backed(r)' /\ \A p : Holds(r, p)'
  BY <1>7 DEF Backed, Holds, At, Idle, Job
<1>11. EnoughInv'
  <2> SUFFICES ASSUME NEW p \in Product, p \notin clashed, OnceInEachOrder(p)
               PROVE  \A w \in Warehouse : stock'[p][w] >= 0
    BY <1>1, <1>10 DEF EnoughInv, OnceInEachOrder
  <2> QED BY <1>3 DEF OfficeInv, EnoughInv, DemoOutcome
<1>12. BackedInv' BY <1>1, <1>3, <1>10 DEF OfficeInv, BackedInv, DemoOutcome
<1> QED BY <1>8, <1>9, <1>11, <1>12 DEF OfficeInv

------------------------

(* What the pages show of the documents at the beginning.                  *)
SaleRow == [o \in SalesOrder |-> [id |-> o, status |-> status[o], lines |-> Lines[o]]]
PurchaseRow ==
  [o \in PurchaseOrder |->
     [id |-> o, status |-> status[o], lines |-> Lines[o], received |-> received[o]]]
ReturnRow == [d \in SalesReturn |-> [id |-> d, status |-> status[d], lines |-> Lines[d]]]
BuildRow == [m \in ManufacturingOrder |-> [id |-> m, status |-> status[m]]]

LEMMA ShownRows ==
  ASSUME active \subseteq Product
  PROVE  /\ Shown.salesOrders \subseteq {SaleRow[o] : o \in SalesOrder}
         /\ Shown.purchaseOrders \subseteq {PurchaseRow[o] : o \in PurchaseOrder}
         /\ Shown.salesReturns \subseteq {ReturnRow[d] : d \in SalesReturn}
         /\ Shown.manufacturingOrders \subseteq {BuildRow[m] : m \in ManufacturingOrder}
<1>1. CASE mode = "demo"
  <2>1. Shown = Demo!GetDemoSnapshot BY <1>1 DEF Shown
  <2> DEFINE sales == {o \in SalesOrder : status[o] # "ABSENT"}
             bought == {o \in PurchaseOrder : status[o] # "ABSENT"}
             built == {m \in ManufacturingOrder : status[m] # "ABSENT"}
  <2>2. /\ Shown.salesOrders = {[id |-> o, status |-> status[o], lines |-> Lines[o]] : o \in sales}
        /\ Shown.purchaseOrders = {[id |-> o, status |-> status[o], lines |-> Lines[o],
                                    received |-> received[o]] : o \in bought}
        /\ Shown.salesReturns = {}
        /\ Shown.manufacturingOrders = {[id |-> m, status |-> status[m]] : m \in built}
    <3>1. Shown.salesOrders = {[id |-> o, status |-> status[o], lines |-> Lines[o]] : o \in sales}
      BY <2>1 DEF Demo!GetDemoSnapshot
    <3>2. Shown.purchaseOrders = {[id |-> o, status |-> status[o], lines |-> Lines[o],
                                   received |-> received[o]] : o \in bought}
      BY <2>1 DEF Demo!GetDemoSnapshot
    <3>3. Shown.salesReturns = {} BY <2>1 DEF Demo!GetDemoSnapshot
    <3>4. Shown.manufacturingOrders = {[id |-> m, status |-> status[m]] : m \in built}
      BY <2>1 DEF Demo!GetDemoSnapshot
    <3> QED BY <3>1, <3>2, <3>3, <3>4
  <2>3. Shown.salesOrders \subseteq {SaleRow[o] : o \in SalesOrder} BY <2>2 DEF SaleRow
  <2>4. Shown.purchaseOrders \subseteq {PurchaseRow[o] : o \in PurchaseOrder}
    BY <2>2 DEF PurchaseRow
  <2>5. Shown.manufacturingOrders \subseteq {BuildRow[m] : m \in ManufacturingOrder}
    BY <2>2 DEF BuildRow
  <2> QED BY <2>2, <2>3, <2>4, <2>5
<1>2. CASE mode # "demo"
  <2>1. Shown = GetAppSnapshot BY <1>2 DEF Shown
  <2>2. /\ Shown.salesOrders = MappedSalesOrders /\ Shown.purchaseOrders = MappedPurchaseOrders
        /\ Shown.salesReturns = {[id |-> d, status |-> status[d], lines |-> Lines[d]] :
                                    d \in SalesReturn \cap Fetched.documents}
        /\ Shown.manufacturingOrders = {[id |-> m, status |-> status[m]] :
                                           m \in ManufacturingOrder \cap Fetched.documents}
    BY <2>1, Zenon DEF GetAppSnapshot
  <2>3. Shown.salesOrders \subseteq {SaleRow[o] : o \in SalesOrder}
    BY <2>2 DEF SaleRow, MappedSalesOrders
  <2>4. Shown.purchaseOrders \subseteq {PurchaseRow[o] : o \in PurchaseOrder}
    BY <2>2 DEF PurchaseRow, MappedPurchaseOrders
  <2>5. Shown.salesReturns \subseteq {ReturnRow[d] : d \in SalesReturn}
    BY <2>2 DEF ReturnRow
  <2>6. Shown.manufacturingOrders \subseteq {BuildRow[m] : m \in ManufacturingOrder}
    BY <2>2 DEF BuildRow
  <2> QED BY <2>3, <2>4, <2>5, <2>6
<1> QED BY <1>1, <1>2

LEMMA ShownFinite ==
  ASSUME active \subseteq Product
  PROVE  /\ IsFiniteSet(Shown.salesOrders) /\ IsFiniteSet(Shown.purchaseOrders)
         /\ IsFiniteSet(Shown.salesReturns) /\ IsFiniteSet(Shown.manufacturingOrders)
<1>2. /\ DOMAIN SaleRow = SalesOrder /\ DOMAIN PurchaseRow = PurchaseOrder
      /\ DOMAIN ReturnRow = SalesReturn /\ DOMAIN BuildRow = ManufacturingOrder
  BY DEF SaleRow, PurchaseRow, ReturnRow, BuildRow
<1>3. /\ IsFiniteSet(SalesOrder) /\ IsFiniteSet(PurchaseOrder) /\ IsFiniteSet(SalesReturn)
      /\ IsFiniteSet(ManufacturingOrder)
  BY FiniteAssumption
<1>4. IsFiniteSet(Shown.salesOrders) BY <1>2, <1>3, ShownRows, FiniteImage
<1>5. IsFiniteSet(Shown.purchaseOrders) BY <1>2, <1>3, ShownRows, FiniteImage
<1>6. IsFiniteSet(Shown.salesReturns) BY <1>2, <1>3, ShownRows, FiniteImage
<1>7. IsFiniteSet(Shown.manufacturingOrders) BY <1>2, <1>3, ShownRows, FiniteImage
<1> QED BY <1>4, <1>5, <1>6, <1>7

LEMMA AccountsInt ==
  ASSUME active \subseteq Product, stock \in [Product -> [Warehouse -> Int]],
         \A o \in PurchaseOrder : received[o] \in Received(o),
         used \in [ManufacturingOrder -> ComponentRows], NEW p \in Product
  PROVE  InStock(p) - OnDocuments(Shown, p) \in Int
<1> DEFINE page == Shown
<1>1. Sold(page, p) \in Int
  <2> DEFINE S == page.salesOrders \ page.openSalesOrders
             f == [o \in S |-> QuantityOf(o.lines, p)]
  <2>1. IsFiniteSet(S) BY ShownFinite, FS_Subset
  <2>2. ASSUME NEW x \in S PROVE QuantityOf(x.lines, p) \in Int
    <3>1. PICK o \in SalesOrder : x = SaleRow[o] BY <2>2, ShownRows
    <3>2. x.lines = Lines[o] BY <3>1 DEF SaleRow
    <3> QED BY <3>2, LinesTyped, QuantityInt
  <2>3. DOMAIN f = S /\ \A x \in S : f[x] \in Int BY <2>2
  <2>4. SumFunction(f) \in Int
    <3> HIDE DEF f, S
    <3> QED BY <2>1, <2>3, SumFunctionInt
  <2> QED BY <2>4 DEF Sold
<1>2. Bought(page, p) \in Int
  <2> DEFINE S == page.purchaseOrders
             f == [o \in S |-> QuantityOf(o.lines, p) - QuantityOf(Outstanding(o.id, o.received), p)]
  <2>1. IsFiniteSet(S) BY ShownFinite
  <2>2. ASSUME NEW x \in S
        PROVE  QuantityOf(x.lines, p) - QuantityOf(Outstanding(x.id, x.received), p) \in Int
    <3>1. PICK o \in PurchaseOrder : x = PurchaseRow[o] BY <2>2, ShownRows
    <3>2. x.lines = Lines[o] /\ x.id = o /\ x.received = received[o]
      BY <3>1 DEF PurchaseRow
    <3>3. QuantityOf(Lines[o], p) \in Int BY LinesTyped, QuantityInt
    <3>4. received[o] \in [DOMAIN Lines[o] -> Int] /\ IsFiniteSet(DOMAIN Lines[o])
          /\ \A i \in DOMAIN Lines[o] : Lines[o][i].quantity \in Int
      BY LinesTyped DEF Received
    <3> DEFINE rest == Outstanding(o, received[o])
    <3>5. DOMAIN rest = DOMAIN Lines[o] /\ \A i \in DOMAIN rest : rest[i].quantity \in Int
      BY <3>4 DEF Outstanding
    <3>6. QuantityOf(rest, p) \in Int
      <4> HIDE DEF rest
      <4> QED BY <3>4, <3>5, QuantityInt
    <3>7. QuantityOf(Outstanding(x.id, x.received), p) = QuantityOf(rest, p) BY <3>2
    <3> HIDE DEF rest
    <3> QED BY <3>2, <3>3, <3>6, <3>7
  <2>3. DOMAIN f = S /\ \A x \in S : f[x] \in Int BY <2>2
  <2>4. SumFunction(f) \in Int
    <3> HIDE DEF f, S
    <3> QED BY <2>1, <2>3, SumFunctionInt
  <2> QED BY <2>4 DEF Bought
<1>3. Returned(page, p) \in Int
  <2> DEFINE S == page.salesReturns
             f == [d \in S |-> IF d.status = "COMPLETED" THEN QuantityOf(d.lines, p) ELSE 0]
  <2>1. IsFiniteSet(S) BY ShownFinite
  <2>2. ASSUME NEW x \in S PROVE QuantityOf(x.lines, p) \in Int
    <3>1. PICK o \in SalesReturn : x = ReturnRow[o] BY <2>2, ShownRows
    <3>2. x.lines = Lines[o] BY <3>1 DEF ReturnRow
    <3> QED BY <3>2, LinesTyped, QuantityInt
  <2>3. DOMAIN f = S /\ \A x \in S : f[x] \in Int BY <2>2
  <2>4. SumFunction(f) \in Int
    <3> HIDE DEF f, S
    <3> QED BY <2>1, <2>3, SumFunctionInt
  <2> QED BY <2>4 DEF Returned
<1>4. Built(page, p) \in Int
  <2> DEFINE S == page.manufacturingOrders
             made(m) == IF m.status = "COMPLETED" /\ Build[m.id].product = p
                        THEN Build[m.id].quantity ELSE 0
             took(m) == IF m.status \in {"IN_PROGRESS", "COMPLETED"}
                        THEN Needed(used[m.id], p, Build[m.id].quantity) ELSE 0
             f == [m \in S |-> made(m) - took(m)]
  <2>1. IsFiniteSet(S) BY ShownFinite
  <2>2. ASSUME NEW x \in S PROVE made(x) \in Int /\ took(x) \in Int
    <3>1. PICK m \in ManufacturingOrder : x = BuildRow[m] BY <2>2, ShownRows
    <3>2. x.id = m BY <3>1 DEF BuildRow
    <3>3. used[m] \in ComponentRows /\ Build[m].quantity \in Int BY BuildAssumption
    <3>4. Needed(used[m], p, Build[m].quantity) \in Int BY <3>3, NeededInt
    <3> QED BY <3>2, <3>3, <3>4
  <2>3. DOMAIN f = S /\ \A x \in S : f[x] \in Int
    <3> HIDE DEF made, took
    <3> QED BY <2>2
  <2>4. SumFunction(f) \in Int
    <3> HIDE DEF f, S
    <3> QED BY <2>1, <2>3, SumFunctionInt
  <2> QED BY <2>4 DEF Built
<1>5. InStock(p) \in Int
  <2> DEFINE f == [w \in Warehouse |-> stock[p][w]]
  <2>1. IsFiniteSet(Warehouse) /\ DOMAIN f = Warehouse /\ \A w \in Warehouse : f[w] \in Int
    BY FiniteAssumption
  <2>2. SumFunction(f) \in Int
    <3> HIDE DEF f
    <3> QED BY <2>1, SumFunctionInt
  <2> QED BY <2>2 DEF InStock
<1> HIDE DEF page
<1>6. InStock(p) - (Bought(page, p) + Returned(page, p) + Built(page, p) - Sold(page, p)) \in Int
  BY <1>1, <1>2, <1>3, <1>4, <1>5
<1> QED BY <1>6 DEF OnDocuments, page

LEMMA InitOffice == Init => OfficeInv
<1> SUFFICES ASSUME Init PROVE OfficeInv OBVIOUS
<1>1. PICK start \in Starts : /\ status = start.status /\ depot = start.depot /\ role = start.role
                              /\ rows = start.rows /\ recipe = start.recipe /\ bill = start.bill
                              /\ desk \in start.desks
  BY DEF Init
<1>2. /\ status \in [Doc -> DocStatus] /\ desk \in DOMAIN Menu
      /\ depot \in [Warehouse -> {"absent", "plain", "default"}]
      /\ role \in [User -> {"none"} \cup Role] /\ Managers # {}
      /\ rows \subseteq CatalogueRow /\ bill \in [Invoice -> InvoiceRow]
      /\ recipe \in [Product -> ComponentRows]
  BY <1>1, StartsAssumption DEF Managers
<1>3. stock \in [Product -> [Warehouse -> Int]] /\ \A p \in Product, w \in Warehouse : stock[p][w] >= 0
  BY OpeningAssumption DEF Init
<1>4. DOMAIN received = PurchaseOrder /\ \A o \in PurchaseOrder : received[o] \in Received(o)
  <2>1. received = [o \in PurchaseOrder |-> [i \in DOMAIN Lines[o] |->
                      IF status[o] = "COMPLETED" THEN Lines[o][i].quantity
                      ELSE IF status[o] = "PARTIALLY_RECEIVED" /\ i = 1 THEN 1 ELSE 0]]
    BY DEF Init
  <2>2. ASSUME NEW o \in PurchaseOrder PROVE received[o] \in Received(o)
    <3>1. \A i \in DOMAIN Lines[o] : Lines[o][i].quantity \in Int /\ Lines[o][i].quantity > 0
      BY LinesTyped
    <3>2. /\ DOMAIN received[o] = DOMAIN Lines[o]
          /\ received[o] = [i \in DOMAIN Lines[o] |-> received[o][i]]
          /\ \A i \in DOMAIN Lines[o] : received[o][i] \in {0, 1, Lines[o][i].quantity}
      BY <2>1
    <3> QED BY <3>1, <3>2 DEF Received
  <2> QED BY <2>1, <2>2
<1>5. DOMAIN lists = SalesOrder /\ \A o \in SalesOrder : lists[o] \in Seq(PickList(o))
  <2>1. lists = [o \in SalesOrder |-> InitialLists(o)] BY DEF Init
  <2>2. ASSUME NEW o \in SalesOrder PROVE InitialLists(o) \in Seq(PickList(o))
    <3>1. \A i \in DOMAIN Lines[o] : Lines[o][i].quantity \in Int BY LinesTyped
    <3>2. NothingPicked(o) \in [DOMAIN Lines[o] -> Int] /\ \A i \in DOMAIN Lines[o] : NothingPicked(o)[i] = 0
      BY DEF NothingPicked
    <3>3. /\ InFull(o) \in [DOMAIN Lines[o] -> Int]
          /\ \A i \in DOMAIN Lines[o] : InFull(o)[i] \in {0} \cup 0..Lines[o][i].quantity
      BY <3>1 DEF InFull, Positive
    <3>4. [status |-> "PENDING", picked |-> NothingPicked(o)] \in PickList(o)
      BY <3>2 DEF PickList
    <3>5. [status |-> "COMPLETED", picked |-> InFull(o)] \in PickList(o)
      BY <3>3 DEF PickList
    <3>6. \A x \in PickList(o) : <<x>> \in Seq(PickList(o)) OBVIOUS
    <3>7. << >> \in Seq(PickList(o)) OBVIOUS
    <3> QED BY <3>4, <3>5, <3>6, <3>7 DEF InitialLists
  <2> QED BY <2>1, <2>2
<1>6. shipments \in [SalesOrder -> Seq({"IN_TRANSIT", "DELIVERED"})]
  <2>1. shipments = [o \in SalesOrder |-> IF status[o] = "SHIPPED" THEN <<"IN_TRANSIT">> ELSE <<>>]
    BY DEF Init
  <2> DEFINE S == Seq({"IN_TRANSIT", "DELIVERED"})
  <2>2. <<"IN_TRANSIT">> \in S /\ << >> \in S OBVIOUS
  <2> HIDE DEF S
  <2>3. shipments \in [SalesOrder -> S] BY <2>1, <2>2
  <2> QED BY <2>3 DEF S
<1>7. used \in [ManufacturingOrder -> ComponentRows]
  <2>1. {} \in ComponentRows BY FS_EmptySet DEF ComponentRows
  <2> QED BY <2>1 DEF Init
<1>8. active = Product /\ clashed = {} /\ left = MaxRequests /\ mode \in {"database", "demo"}
      /\ req = [r \in Request |-> Idle]
  BY DEF Init
<1>9. plain \in [Product -> Int]
  <2>1. \A p \in Product : InStock(p) - OnDocuments(Shown, p) \in Int
    BY <1>3, <1>4, <1>7, <1>8, AccountsInt
  <2>2. plain = [p \in Product |-> InStock(p) - OnDocuments(Shown, p)] BY DEF Init
  <2> QED BY <2>1, <2>2
<1>10. TypeInv
  <2>1. StockTyped /\ DocsTyped /\ AdminTyped
    BY <1>2, <1>3, <1>4, <1>5, <1>6, <1>7, <1>8, <1>9 DEF StockTyped, DocsTyped, AdminTyped
  <2>2. RequestsTyped BY <1>8 DEF RequestsTyped
  <2>3. BoundsTyped BY <1>2, <1>8, BoundAssumption DEF BoundsTyped
  <2> QED BY <2>1, <2>2, <2>3 DEF TypeInv, TablesTyped
<1>11. Apart BY <1>8 DEF Apart
<1>12. EnoughInv BY <1>3, <1>8 DEF EnoughInv, Holds, At, Idle, Job
<1>13. BackedInv BY <1>2, <1>8 DEF BackedInv, Backed, At, Idle, Job
<1> QED BY <1>10, <1>11, <1>12, <1>13 DEF OfficeInv

LEMMA OfficeKept == OfficeInv /\ [Next]_allVars => OfficeInv'
<1> SUFFICES ASSUME OfficeInv, [Next]_allVars PROVE OfficeInv' OBVIOUS
<1>1. CASE UNCHANGED allVars
  <2>1. UNCHANGED <<stock, plain, status, received, lists, shipments, recipe, used,
                    depot, active, role, rows, bill, desk, left, clashed, req, mode>>
    BY <1>1 DEF allVars, vars, stockVars, docVars, adminVars, boundVars
  <2>2. TypeInv'
    BY <2>1 DEF OfficeInv, TypeInv, TablesTyped, StockTyped, DocsTyped, AdminTyped, RequestsTyped,
         Working, Knows, At, Job, BoundsTyped
  <2>3. Apart' BY <2>1 DEF OfficeInv, Apart, Job
  <2>4. EnoughInv' BY <2>1 DEF OfficeInv, EnoughInv, OnceInEachOrder, Holds, At, Job
  <2>5. BackedInv' BY <2>1 DEF OfficeInv, BackedInv, Backed, Managers, At, Job
  <2> QED BY <2>2, <2>3, <2>4, <2>5 DEF OfficeInv
<1>2. CASE Next
  <2>1. CASE mode = "database" /\ \E r \in Request : Begin(r) \/ Handle(r) \/ Route(r) \/ Serve(r) \/ Fail(r)
    <3>1. mode' = mode BY <1>2 DEF Next
    <3>2. PICK r \in Request : Begin(r) \/ Handle(r) \/ Route(r) \/ Serve(r) \/ Fail(r)
      BY <2>1
    <3> QED BY <2>1, <3>1, <3>2, ServedKept, BegunKept
  <2>2. CASE mode = "demo" /\ \E job \in Menu[desk] : InDemoMode(job)
    <3>1. mode' = mode BY <1>2 DEF Next
    <3>2. PICK job \in Menu[desk] : InDemoMode(job) BY <2>2
    <3> QED BY <2>2, <3>1, <3>2, DemoKept
  <2> QED BY <1>2, <2>1, <2>2 DEF Next
<1> QED BY <1>1, <1>2

------------------------
(* The tables and the requests have their types: no receipt exceeds its     *)
(* line, nothing is picked that was not ordered, and every invoice has a    *)
(* status of the enum, in database mode and in the demo store.              *)
THEOREM OfficeTyped == Spec => []TypeOK
<1>1. OfficeInv => TypeOK
  <2> SUFFICES ASSUME OfficeInv PROVE TypeOK OBVIOUS
  <2>1. TypeInv BY DEF OfficeInv
  <2>2. \A o \in PurchaseOrder : \A i \in DOMAIN Lines[o] : received[o][i] \in 0..Lines[o][i].quantity
    BY <2>1 DEF TypeInv, TablesTyped, DocsTyped, Received
  <2>3. ASSUME NEW o \in SalesOrder, NEW l \in DOMAIN lists[o]
        PROVE  /\ lists[o][l].status \in {"PENDING", "IN_PROGRESS", "COMPLETED"}
               /\ \A i \in DOMAIN Lines[o] : lists[o][l].picked[i] \in {0} \cup 0..Lines[o][i].quantity
    <3>1. lists[o] \in Seq(PickList(o)) BY <2>1 DEF TypeInv, TablesTyped, DocsTyped
    <3>2. lists[o][l] \in PickList(o)
      <4> DEFINE S == PickList(o)
                 s == lists[o]
      <4>1. s \in Seq(S) /\ l \in DOMAIN s BY <3>1
      <4> HIDE DEF S, s
      <4>2. s[l] \in S BY <4>1
      <4> QED BY <4>2 DEF S, s
    <3> QED BY <3>2 DEF PickList
  <2>4. ASSUME NEW o \in SalesOrder, NEW n \in DOMAIN shipments[o]
        PROVE  shipments[o][n] \in {"IN_TRANSIT", "DELIVERED"}
    BY <2>1 DEF TypeInv, TablesTyped, DocsTyped
  <2>5. \A r \in Request : req[r].at \in {"idle"} \cup Steps
    BY <2>1 DEF TypeInv, RequestsTyped, Working, Idle
  <2> QED BY <2>1, <2>2, <2>3, <2>4, <2>5
          DEF TypeOK, TypeInv, TablesTyped, StockTyped, DocsTyped, AdminTyped, BoundsTyped, Steps
<1> QED BY <1>1, InitOffice, OfficeKept, PTL DEF Spec

(* A product that only one request at a time was about, and that no order   *)
(* names on two lines, is nowhere below zero: what a movement, a transfer,  *)
(* a count, a confirmation or a start has summed is still there when it     *)
(* posts, however many other requests ran, failed or began in between.      *)
THEOREM StockCovered == Spec => []NeverOverdrawn
<1>1. OfficeInv => NeverOverdrawn BY DEF OfficeInv, EnoughInv, NeverOverdrawn
<1> QED BY <1>1, InitOffice, OfficeKept, PTL DEF Spec

(* As long as no two requests about members overlap, an owner or an         *)
(* administrator remains: a request only changes somebody else's role, and  *)
(* who let it in still manages when it writes.                              *)
THEOREM ManagerRemains == Spec => []SomebodyManages
<1>1. OfficeInv => SomebodyManages BY DEF OfficeInv, BackedInv, SomebodyManages
<1> QED BY <1>1, InitOffice, OfficeKept, PTL DEF Spec

(***************************************************************************)
(* The books.  What a product's stock balances with is kept document by    *)
(* document here, in the tables, where the pages sum over the rows that    *)
(* they show.                                                              *)
(***************************************************************************)
SoldOn(o, p) == IF status[o] \in {"ABSENT", "DRAFT"} THEN 0 ELSE QuantityOf(Lines[o], p)

BoughtOn(o, p) ==
  IF status[o] = "ABSENT" THEN 0
  ELSE QuantityOf(Lines[o], p) - QuantityOf(Outstanding(o, received[o]), p)

ReturnedOn(d, p) ==
  IF mode = "database" /\ status[d] = "COMPLETED" THEN QuantityOf(Lines[d], p) ELSE 0

MadeOn(m, p) ==
  IF status[m] = "COMPLETED" /\ Build[m].product = p THEN Build[m].quantity ELSE 0

TakenFor(m, p) ==
  IF status[m] \in {"IN_PROGRESS", "COMPLETED"} THEN Needed(used[m], p, Build[m].quantity) ELSE 0

BuiltOn(m, p) == MadeOn(m, p) - TakenFor(m, p)

\* What document d adds to the stock of p.
Entry(d, p) ==
  IF d \in SalesOrder THEN 0 - SoldOn(d, p)
  ELSE IF d \in PurchaseOrder THEN BoughtOn(d, p)
  ELSE IF d \in SalesReturn THEN ReturnedOn(d, p)
  ELSE IF d \in ManufacturingOrder THEN BuiltOn(d, p) ELSE 0

OnBooks(p) ==
  SumFunction([o \in PurchaseOrder |-> BoughtOn(o, p)])
  + SumFunction([d \in SalesReturn |-> ReturnedOn(d, p)])
  + SumFunction([m \in ManufacturingOrder |-> BuiltOn(m, p)])
  - SumFunction([o \in SalesOrder |-> SoldOn(o, p)])

\* The products that a document has posted, or that its lines will.
Posts(d) ==
  IF d \in ManufacturingOrder THEN {Build[d].product} \cup {c.product : c \in used[d]}
  ELSE {Lines[d][i].product : i \in DOMAIN Lines[d]}

(* A bill that does not name the product needs nothing of it. *)
LEMMA NeededNone ==
  ASSUME NEW rowset \in ComponentRows, NEW p, \A c \in rowset : c.product # p, NEW quantity \in Int
  PROVE  Needed(rowset, p, quantity) = 0
<1> DEFINE S == {c \in rowset : c.product = p}
           f == [c \in S |-> c.quantity]
<1>1. S = {} /\ DOMAIN f = S OBVIOUS
<1>2. SumFunction(f) = 0 BY <1>1, SumEmpty DEF SumFunction
<1>3. Needed(rowset, p, quantity) = SumFunction(f) * quantity BY DEF Needed
<1> HIDE DEF f, S
<1> QED BY <1>2, <1>3

(* Lines with the same products and quantities sum to the same. *)
LEMMA QuantitySame ==
  ASSUME NEW l, NEW k, DOMAIN l = DOMAIN k, NEW p,
         \A i \in DOMAIN l : l[i].product = k[i].product /\ l[i].quantity = k[i].quantity
  PROVE  QuantityOf(l, p) = QuantityOf(k, p)
<1>1. {j \in DOMAIN l : l[j].product = p} = {j \in DOMAIN k : k[j].product = p} OBVIOUS
<1>2. [i \in {j \in DOMAIN l : l[j].product = p} |-> l[i].quantity]
        = [i \in {j \in DOMAIN k : k[j].product = p} |-> k[i].quantity]
  BY <1>1
<1> QED BY <1>2 DEF QuantityOf

(* What is outstanding on an order: all of it as long as nothing of it was  *)
(* received, nothing when all of it was.                                    *)
LEMMA OutstandingSums ==
  ASSUME NEW o \in PurchaseOrder, NEW got \in Received(o), NEW p
  PROVE  /\ QuantityOf(Outstanding(o, got), p) \in Int
         /\ p \notin {Lines[o][i].product : i \in DOMAIN Lines[o]}
              => QuantityOf(Outstanding(o, got), p) = 0
         /\ (\A i \in DOMAIN Lines[o] : got[i] = 0)
              => QuantityOf(Outstanding(o, got), p) = QuantityOf(Lines[o], p)
         /\ (\A i \in DOMAIN Lines[o] : got[i] = Lines[o][i].quantity)
              => QuantityOf(Outstanding(o, got), p) = 0
<1> DEFINE rest == Outstanding(o, got)
<1>1. /\ IsFiniteSet(DOMAIN Lines[o])
      /\ \A i \in DOMAIN Lines[o] : Lines[o][i].quantity \in Int /\ got[i] \in Int
  BY LinesTyped DEF Received
<1>2. /\ DOMAIN rest = DOMAIN Lines[o]
      /\ \A i \in DOMAIN rest : /\ rest[i].quantity = Lines[o][i].quantity - got[i]
                                /\ rest[i].product = Lines[o][i].product
  BY DEF Outstanding
<1> HIDE DEF rest
<1>3. \A i \in DOMAIN rest : rest[i].quantity \in Int BY <1>1, <1>2
<1>4. QuantityOf(rest, p) \in Int BY <1>1, <1>2, <1>3, QuantityInt
<1>5. ASSUME p \notin {Lines[o][i].product : i \in DOMAIN Lines[o]} PROVE QuantityOf(rest, p) = 0
  <2>1. \A i \in DOMAIN rest : rest[i].product # p BY <1>2, <1>5
  <2> QED BY <1>1, <1>2, <1>3, <2>1, QuantityInt
<1>6. ASSUME \A i \in DOMAIN Lines[o] : got[i] = 0
      PROVE  QuantityOf(rest, p) = QuantityOf(Lines[o], p)
  <2>1. \A i \in DOMAIN rest : rest[i].quantity = Lines[o][i].quantity
    BY <1>1, <1>2, <1>6
  <2> QED BY <1>2, <2>1, QuantitySame
<1>7. ASSUME \A i \in DOMAIN Lines[o] : got[i] = Lines[o][i].quantity
      PROVE  QuantityOf(rest, p) = 0
  <2> DEFINE S == {j \in DOMAIN rest : rest[j].product = p}
             f == [i \in S |-> rest[i].quantity]
  <2>1. IsFiniteSet(S) /\ DOMAIN f = S BY <1>1, <1>2, FS_Subset
  <2>2. \A i \in S : f[i] = 0 BY <1>1, <1>2, <1>7
  <2>3. SumFunction(f) = 0
    <3> HIDE DEF S, f
    <3> QED BY <2>1, <2>2, SumZero DEF SumFunction
  <2> QED BY <2>3 DEF QuantityOf
<1> QED BY <1>4, <1>5, <1>6, <1>7 DEF rest

(* The entries are integers, and a document has none of a product that it   *)
(* does not post.                                                           *)
LEMMA Entries ==
  TypeInv => \A d \in Doc, p \in Product :
    /\ d \in SalesOrder => SoldOn(d, p) \in Int
    /\ d \in PurchaseOrder => BoughtOn(d, p) \in Int
    /\ d \in SalesReturn => ReturnedOn(d, p) \in Int
    /\ d \in ManufacturingOrder => MadeOn(d, p) \in Int /\ TakenFor(d, p) \in Int
    /\ p \notin Posts(d) => Entry(d, p) = 0
<1> SUFFICES ASSUME TypeInv, NEW d \in Doc, NEW p \in Product
             PROVE  /\ d \in SalesOrder => SoldOn(d, p) \in Int
                    /\ d \in PurchaseOrder => BoughtOn(d, p) \in Int
                    /\ d \in SalesReturn => ReturnedOn(d, p) \in Int
                    /\ d \in ManufacturingOrder => MadeOn(d, p) \in Int /\ TakenFor(d, p) \in Int
                    /\ p \notin Posts(d) => Entry(d, p) = 0
  OBVIOUS
<1>1. CASE d \in SalesOrder \cup PurchaseOrder \cup SalesReturn
  <2>1. d \notin ManufacturingOrder BY <1>1, DocAssumption
  <2>2. /\ QuantityOf(Lines[d], p) \in Int
        /\ p \notin Posts(d) => QuantityOf(Lines[d], p) = 0
    <3>1. /\ IsFiniteSet(DOMAIN Lines[d])
          /\ \A i \in DOMAIN Lines[d] : Lines[d][i].quantity \in Int
      BY <1>1, LinesTyped
    <3>2. p \notin Posts(d) => \A i \in DOMAIN Lines[d] : Lines[d][i].product # p
      BY <2>1 DEF Posts
    <3> QED BY <3>1, <3>2, QuantityInt
  <2>3. d \in PurchaseOrder => /\ QuantityOf(Outstanding(d, received[d]), p) \in Int
                               /\ p \notin Posts(d) => QuantityOf(Outstanding(d, received[d]), p) = 0
    <3>1. d \in PurchaseOrder => received[d] \in Received(d)
      BY DEF TypeInv, TablesTyped, DocsTyped
    <3> QED BY <2>1, <3>1, OutstandingSums DEF Posts
  <2> QED BY <1>1, <2>1, <2>2, <2>3 DEF Entry, SoldOn, BoughtOn, ReturnedOn
<1>2. CASE d \in ManufacturingOrder
  <2>1. d \notin SalesOrder /\ d \notin PurchaseOrder /\ d \notin SalesReturn
    BY <1>2, DocAssumption
  <2>2. used[d] \in ComponentRows /\ Build[d].quantity \in Int
    BY <1>2, BuildAssumption DEF TypeInv, TablesTyped, DocsTyped
  <2>3. /\ Needed(used[d], p, Build[d].quantity) \in Int
        /\ p \notin Posts(d) => Needed(used[d], p, Build[d].quantity) = 0
    <3>1. p \notin Posts(d) => \A c \in used[d] : c.product # p BY <1>2 DEF Posts
    <3> QED BY <2>2, <3>1, NeededInt, NeededNone
  <2>4. p \notin Posts(d) => Build[d].product # p BY <1>2 DEF Posts
  <2> QED BY <1>2, <2>1, <2>2, <2>3, <2>4 DEF Entry, MadeOn, TakenFor, BuiltOn
<1>3. CASE d \in CreditNote BY <1>3, DocAssumption DEF Entry
<1> QED BY <1>1, <1>2, <1>3 DEF Doc

(* An entry is an integer.                                                  *)
LEMMA EntryInt ==
  TypeInv => \A d \in Doc, p \in Product :
    Entry(d, p) \in Int /\ (d \in ManufacturingOrder => BuiltOn(d, p) \in Int)
<1> SUFFICES ASSUME TypeInv, NEW d \in Doc, NEW p \in Product
             PROVE  Entry(d, p) \in Int /\ (d \in ManufacturingOrder => BuiltOn(d, p) \in Int)
  OBVIOUS
<1>1. /\ d \in SalesOrder => SoldOn(d, p) \in Int
      /\ d \in PurchaseOrder => BoughtOn(d, p) \in Int
      /\ d \in SalesReturn => ReturnedOn(d, p) \in Int
      /\ d \in ManufacturingOrder => MadeOn(d, p) \in Int /\ TakenFor(d, p) \in Int
  BY Entries
<1> QED BY <1>1 DEF Entry, BuiltOn

(* The same of the next state. *)
LEMMA EntriesNext ==
  (TypeInv => \A d \in Doc, p \in Product :
    /\ d \in SalesOrder => SoldOn(d, p) \in Int
    /\ d \in PurchaseOrder => BoughtOn(d, p) \in Int
    /\ d \in SalesReturn => ReturnedOn(d, p) \in Int
    /\ d \in ManufacturingOrder => MadeOn(d, p) \in Int /\ TakenFor(d, p) \in Int
    /\ p \notin Posts(d) => Entry(d, p) = 0)'
BY Entries, PTL

LEMMA EntryIntNext ==
  (TypeInv => \A d \in Doc, p \in Product :
    Entry(d, p) \in Int /\ (d \in ManufacturingOrder => BuiltOn(d, p) \in Int))'
BY EntryInt, PTL

(* Only the entries of the documents that change, change the books. *)
LEMMA BooksChange ==
  ASSUME TypeInv, TypeInv', NEW p \in Product, NEW d \in Doc,
         \A x \in Doc \ {d} : Entry(x, p)' = Entry(x, p)
  PROVE  OnBooks(p) \in Int /\ OnBooks(p)' = OnBooks(p) + Entry(d, p)' - Entry(d, p)
<1>2. /\ \A x \in SalesOrder : SoldOn(x, p) \in Int /\ SoldOn(x, p)' \in Int
      /\ \A x \in PurchaseOrder : BoughtOn(x, p) \in Int /\ BoughtOn(x, p)' \in Int
      /\ \A x \in SalesReturn : ReturnedOn(x, p) \in Int /\ ReturnedOn(x, p)' \in Int
      /\ \A x \in ManufacturingOrder : BuiltOn(x, p) \in Int /\ BuiltOn(x, p)' \in Int
  BY Entries, EntriesNext DEF Doc, BuiltOn
<1>3. /\ \A x \in SalesOrder : /\ Entry(x, p) = 0 - SoldOn(x, p)
                               /\ Entry(x, p)' = 0 - SoldOn(x, p)'
      /\ \A x \in PurchaseOrder : Entry(x, p) = BoughtOn(x, p) /\ Entry(x, p)' = BoughtOn(x, p)'
      /\ \A x \in SalesReturn : Entry(x, p) = ReturnedOn(x, p) /\ Entry(x, p)' = ReturnedOn(x, p)'
      /\ \A x \in ManufacturingOrder : Entry(x, p) = BuiltOn(x, p) /\ Entry(x, p)' = BuiltOn(x, p)'
      /\ \A x \in CreditNote : Entry(x, p) = 0 /\ Entry(x, p)' = 0
  BY DocAssumption DEF Entry
<1> DEFINE s == [o \in SalesOrder |-> SoldOn(o, p)]
           t == [o \in SalesOrder |-> SoldOn(o, p)']
           b == [o \in PurchaseOrder |-> BoughtOn(o, p)]
           c == [o \in PurchaseOrder |-> BoughtOn(o, p)']
           e == [x \in SalesReturn |-> ReturnedOn(x, p)]
           f == [x \in SalesReturn |-> ReturnedOn(x, p)']
           m == [x \in ManufacturingOrder |-> BuiltOn(x, p)]
           n == [x \in ManufacturingOrder |-> BuiltOn(x, p)']
           S(h) == SumFunctionOnSet(h, SalesOrder)
           B(h) == SumFunctionOnSet(h, PurchaseOrder)
           E(h) == SumFunctionOnSet(h, SalesReturn)
           M(h) == SumFunctionOnSet(h, ManufacturingOrder)
<1>4. OnBooks(p) = B(b) + E(e) + M(m) - S(s) /\ OnBooks(p)' = B(c) + E(f) + M(n) - S(t)
  BY DEF OnBooks, SumFunction
<1>5. /\ \A x \in SalesOrder : s[x] = SoldOn(x, p) /\ t[x] = SoldOn(x, p)'
      /\ \A x \in PurchaseOrder : b[x] = BoughtOn(x, p) /\ c[x] = BoughtOn(x, p)'
      /\ \A x \in SalesReturn : e[x] = ReturnedOn(x, p) /\ f[x] = ReturnedOn(x, p)'
      /\ \A x \in ManufacturingOrder : m[x] = BuiltOn(x, p) /\ n[x] = BuiltOn(x, p)'
  OBVIOUS
<1> HIDE DEF s, t, b, c, e, f, m, n
<1>6. /\ \A x \in SalesOrder : s[x] \in Int /\ t[x] \in Int
      /\ \A x \in PurchaseOrder : b[x] \in Int /\ c[x] \in Int
      /\ \A x \in SalesReturn : e[x] \in Int /\ f[x] \in Int
      /\ \A x \in ManufacturingOrder : m[x] \in Int /\ n[x] \in Int
  BY <1>2, <1>5
<1>7. /\ \A x \in SalesOrder \ {d} : s[x] = t[x]
      /\ \A x \in PurchaseOrder \ {d} : b[x] = c[x]
      /\ \A x \in SalesReturn \ {d} : e[x] = f[x]
      /\ \A x \in ManufacturingOrder \ {d} : m[x] = n[x]
  BY <1>3, <1>5, <1>6 DEF Doc
<1>8. S(s) \in Int /\ (d \in SalesOrder => S(t) = S(s) + t[d] - s[d])
                   /\ (d \notin SalesOrder => S(t) = S(s))
  BY <1>6, <1>7, FiniteAssumption, SumStep
<1>9. B(b) \in Int /\ (d \in PurchaseOrder => B(c) = B(b) + c[d] - b[d])
                   /\ (d \notin PurchaseOrder => B(c) = B(b))
  BY <1>6, <1>7, FiniteAssumption, SumStep
<1>10. E(e) \in Int /\ (d \in SalesReturn => E(f) = E(e) + f[d] - e[d])
                    /\ (d \notin SalesReturn => E(f) = E(e))
  BY <1>6, <1>7, FiniteAssumption, SumStep
<1>11. M(m) \in Int /\ (d \in ManufacturingOrder => M(n) = M(m) + n[d] - m[d])
                    /\ (d \notin ManufacturingOrder => M(n) = M(m))
  BY <1>6, <1>7, FiniteAssumption, SumStep
<1> HIDE DEF S, B, E, M
<1> QED BY <1>3, <1>4, <1>5, <1>6, <1>8, <1>9, <1>10, <1>11, DocAssumption DEF Doc

(* What lies in all the warehouses changes with what lies in one of them. *)
LEMMA StockChange ==
  ASSUME stock \in [Product -> [Warehouse -> Int]], stock' \in [Product -> [Warehouse -> Int]],
         NEW p \in Product, NEW w \in Warehouse, NEW n \in Int,
         \A v \in Warehouse \ {w} : stock'[p][v] = stock[p][v],
         stock'[p][w] = stock[p][w] + n
  PROVE  InStock(p)' = InStock(p) + n
<1> DEFINE f == [v \in Warehouse |-> stock[p][v]]
           g == [v \in Warehouse |-> stock'[p][v]]
<1>1. InStock(p) = SumFunctionOnSet(f, Warehouse) /\ InStock(p)' = SumFunctionOnSet(g, Warehouse)
  BY DEF InStock, SumFunction
<1>2. g[w] = f[w] + n OBVIOUS
<1>0. IsFiniteSet(Warehouse) BY FiniteAssumption
<1>3. \A v \in Warehouse : f[v] \in Int /\ g[v] \in Int OBVIOUS
<1>4. \A v \in Warehouse \ {w} : f[v] = g[v] OBVIOUS
<1> HIDE DEF f, g
<1>5. SumFunctionOnSet(g, Warehouse) = SumFunctionOnSet(f, Warehouse) + g[w] - f[w]
  BY <1>0, <1>3, <1>4, SumChange
<1> QED BY <1>0, <1>1, <1>2, <1>3, <1>5, SumInt

(* Stock that does not change sums to the same.                             *)
LEMMA StockSame ==
  ASSUME NEW p \in Product, stock'[p] = stock[p]
  PROVE  InStock(p)' = InStock(p)
BY DEF InStock

(* The sum is an integer, in this state and in the next.                    *)
LEMMA InStockInt ==
  TypeInv => \A p \in Product : InStock(p) \in Int
<1> SUFFICES ASSUME TypeInv, NEW p \in Product PROVE InStock(p) \in Int OBVIOUS
<1> DEFINE f == [v \in Warehouse |-> stock[p][v]]
<1>1. IsFiniteSet(Warehouse) /\ DOMAIN f = Warehouse /\ \A v \in Warehouse : f[v] \in Int
  BY FiniteAssumption DEF TypeInv, TablesTyped, StockTyped
<1>2. SumFunction(f) \in Int
  <2> HIDE DEF f
  <2> QED BY <1>1, SumFunctionInt
<1> QED BY <1>2 DEF InStock

LEMMA InStockIntNext ==
  (TypeInv => \A p \in Product : InStock(p) \in Int)'
BY InStockInt, PTL

(* So is what the documents come to.                                        *)
LEMMA BooksInt ==
  ASSUME TypeInv, NEW p \in Product
  PROVE  OnBooks(p) \in Int
<1>1. /\ \A x \in SalesOrder : SoldOn(x, p) \in Int
      /\ \A x \in PurchaseOrder : BoughtOn(x, p) \in Int
      /\ \A x \in SalesReturn : ReturnedOn(x, p) \in Int
      /\ \A x \in ManufacturingOrder : BuiltOn(x, p) \in Int
  BY Entries, EntryInt DEF Doc
<1> DEFINE s == [o \in SalesOrder |-> SoldOn(o, p)]
           b == [o \in PurchaseOrder |-> BoughtOn(o, p)]
           e == [d \in SalesReturn |-> ReturnedOn(d, p)]
           m == [x \in ManufacturingOrder |-> BuiltOn(x, p)]
<1>2. OnBooks(p) = SumFunction(b) + SumFunction(e) + SumFunction(m) - SumFunction(s)
  BY DEF OnBooks
<1>3. /\ DOMAIN s = SalesOrder /\ \A x \in DOMAIN s : s[x] \in Int
      /\ DOMAIN b = PurchaseOrder /\ \A x \in DOMAIN b : b[x] \in Int
      /\ DOMAIN e = SalesReturn /\ \A x \in DOMAIN e : e[x] \in Int
      /\ DOMAIN m = ManufacturingOrder /\ \A x \in DOMAIN m : m[x] \in Int
  BY <1>1
<1> HIDE DEF s, b, e, m
<1>4. SumFunction(s) \in Int /\ SumFunction(b) \in Int /\ SumFunction(e) \in Int
      /\ SumFunction(m) \in Int
  BY <1>3, FiniteAssumption, SumFunctionInt
<1> QED BY <1>2, <1>4

(* A transfer changes nothing of what lies in all the warehouses. *)
LEMMA TransferSum ==
  ASSUME stock \in [Product -> [Warehouse -> Int]], stock' \in [Product -> [Warehouse -> Int]],
         NEW p \in Product, NEW w \in Warehouse, NEW to \in Warehouse, w # to, NEW n \in Int,
         \A v \in Warehouse \ {w, to} : stock'[p][v] = stock[p][v],
         stock'[p][w] = stock[p][w] - n, stock'[p][to] = stock[p][to] + n
  PROVE  InStock(p)' = InStock(p)
<1> DEFINE f == [v \in Warehouse |-> stock[p][v]]
           g == [v \in Warehouse |-> stock'[p][v]]
<1>1. InStock(p) = SumFunctionOnSet(f, Warehouse) /\ InStock(p)' = SumFunctionOnSet(g, Warehouse)
  BY DEF InStock, SumFunction
<1>0. IsFiniteSet(Warehouse) BY FiniteAssumption
<1>2. g[w] + g[to] = f[w] + f[to] OBVIOUS
<1>3. \A v \in Warehouse : f[v] \in Int /\ g[v] \in Int OBVIOUS
<1>4. \A v \in Warehouse \ {w, to} : f[v] = g[v] OBVIOUS
<1> HIDE DEF f, g
<1>5. SumFunctionOnSet(g, Warehouse) = SumFunctionOnSet(f, Warehouse)
  <2> SUFFICES ASSUME NEW S, S = Warehouse PROVE SumFunctionOnSet(g, S) = SumFunctionOnSet(f, S)
    OBVIOUS
  <2> QED BY <1>0, <1>2, <1>3, <1>4, SumMoved
<1> QED BY <1>1, <1>5

(* Movements of lines change the stock by what the lines sum to. *)
LEMMA MovedSum ==
  ASSUME stock \in [Product -> [Warehouse -> Int]], stock' \in [Product -> [Warehouse -> Int]],
         NEW w \in Warehouse, NEW lines, IsFiniteSet(DOMAIN lines),
         \A i \in DOMAIN lines : lines[i].quantity \in Int, NEW sign \in {1, -1},
         stock' = Moved(w, lines, sign), NEW p \in Product
  PROVE  /\ sign = 1 => InStock(p)' = InStock(p) + QuantityOf(lines, p)
         /\ sign = -1 => InStock(p)' = InStock(p) - QuantityOf(lines, p)
<1>1. QuantityOf(lines, p) \in Int BY QuantityInt
<1>2. \A v \in Warehouse :
        /\ v # w => stock'[p][v] = stock[p][v]
        /\ v = w /\ sign = 1 => stock'[p][v] = stock[p][v] + QuantityOf(lines, p)
        /\ v = w /\ sign = -1 => stock'[p][v] = stock[p][v] - QuantityOf(lines, p)
  BY MovedStock
<1>3. \A v \in Warehouse : stock[p][v] \in Int OBVIOUS
<1> DEFINE n == IF sign = 1 THEN QuantityOf(lines, p) ELSE 0 - QuantityOf(lines, p)
<1>4. n \in Int /\ stock'[p][w] = stock[p][w] + n BY <1>1, <1>2, <1>3
<1>5. InStock(p)' = InStock(p) + n
  <2>1. \A v \in Warehouse \ {w} : stock'[p][v] = stock[p][v] BY <1>2
  <2> HIDE DEF n
  <2> QED BY <1>4, <2>1, StockChange
<1>6. InStock(p) \in Int
  <2> DEFINE f == [v \in Warehouse |-> stock[p][v]]
  <2>1. IsFiniteSet(Warehouse) /\ DOMAIN f = Warehouse /\ \A v \in Warehouse : f[v] \in Int
    BY FiniteAssumption
  <2>2. SumFunction(f) \in Int
    <3> HIDE DEF f
    <3> QED BY <2>1, SumFunctionInt
  <2> QED BY <2>2 DEF InStock
<1> QED BY <1>1, <1>5, <1>6

------------------------
(* The product is on no document that two requests worked on at a time. *)
Clear(p) == \A d \in Doc : d \in clashed => p \notin Posts(d)

Balanced == \A p \in Product : Clear(p) => InStock(p) = plain[p] + OnBooks(p)

(* Nothing lies where there is no warehouse, and nobody is about to put     *)
(* anything there.                                                          *)
NothingNowhere ==
  /\ \A w \in Warehouse : depot[w] = "absent" => \A p \in Product : stock[p][w] = 0
  /\ \A m \in ManufacturingOrder : status[m] # "ABSENT" => depot[Build[m].warehouse] # "absent"

Placed(r) ==
  LET job == Job(r)
      saw == req[r].saw
  IN
  /\ job.op \in {"movement", "transfer", "count"} => depot[job.warehouse] # "absent"
  /\ job.op = "transfer" => depot[job.to] # "absent"
  /\ job.op = "createBuild" => depot[Build[job.doc].warehouse] # "absent"
  /\ At(r, "start", "consumed") \/ At(r, "complete", "read")
       => depot[Build[job.doc].warehouse] # "absent"
  /\ At(r, "confirm", "read") \/ At(r, "approve", "read") \/ At(r, "receive", "read")
       => \A w \in saw[1] : depot[w] # "absent"
  /\ At(r, "confirm", "summed") => depot[saw[1]] # "absent"

(* An order is received when it says so; one that is not there has nothing  *)
(* of it.                                                                   *)
ReceivedAsSaid(o) ==
  /\ status[o] \in {"ABSENT"} \cup PurchaseStatus
  /\ status[o] = "ABSENT" => \A i \in DOMAIN Lines[o] : received[o][i] = 0
  /\ status[o] = "COMPLETED" => \A i \in DOMAIN Lines[o] : received[o][i] = Lines[o][i].quantity

ReceivedInv == \A o \in PurchaseOrder : ReceivedAsSaid(o)

UsedInv ==
  \A m \in ManufacturingOrder : m \notin clashed /\ status[m] \in {"ABSENT", "DRAFT"} => used[m] = {}

CreatingOps ==
  {"createOrder", "createPurchase", "suggest", "createBuild", "createReturn", "createCredit",
   "apiCreateOrder", "portalOrder", "apiCreatePurchase", "apiCreateReturn", "apiCreateCredit"}
ForwardOps == {"startPicking", "pack", "ship", "deliver"}
DocOps == CreatingOps \cup ForwardOps \cup {"confirm", "approve", "receive", "start", "complete"}

(* What a request has read of its document is still so, unless another one  *)
(* worked on the document at the same time.                                 *)
Fresh(r) ==
  LET op == Job(r).op
      d == Job(r).doc
  IN
  /\ op \in CreatingOps => status[d] = "ABSENT"
  /\ op \in {"confirm", "approve", "start"} => status[d] = "DRAFT"
  /\ op \in ForwardOps => status[d] \notin {"ABSENT", "DRAFT"}
  /\ op = "complete" => status[d] = "IN_PROGRESS"
  /\ op = "receive" => status[d] # "ABSENT" /\ req[r].saw[2] = received[d]

Ready(r) ==
  Job(r).op \in DocOps /\ req[r].at # "begun" => Job(r).doc \in clashed \/ Fresh(r)

BooksInv ==
  /\ Balanced /\ NothingNowhere /\ ReceivedInv /\ UsedInv
  /\ mode = "demo" => clashed = {}
  /\ \A r \in Request : req[r] # Idle => Placed(r) /\ Ready(r)

------------------------
(* What every step of a request comes to for the books. *)
StaysBalanced(p) ==
  InStock(p) = plain[p] + OnBooks(p) => InStock(p)' = plain'[p] + OnBooks(p)'

(* The tables go only one way. *)
Forward ==
  /\ \A m \in ManufacturingOrder : used[m] \subseteq used'[m]
  /\ \A w \in Warehouse : depot[w] # "absent" => depot'[w] # "absent"

(* Stock changes, and work is ordered, only where there is a warehouse. *)
Somewhere ==
  /\ \A w \in Warehouse : depot'[w] = "absent" => \A p \in Product : stock'[p][w] = stock[p][w]
  /\ \A m \in ManufacturingOrder :
       status'[m] # "ABSENT" => status[m] # "ABSENT" \/ depot[Build[m].warehouse] # "absent"

(* Only its own document, if it has one. *)
OwnDocument(r) ==
  \A d \in Doc :
    \/ Job(r).op \in DocOps /\ d = Job(r).doc
    \/ status'[d] = status[d] /\ (d \in PurchaseOrder => received'[d] = received[d])

Booked(r) ==
  /\ \A p \in Product : Clear(p)' => StaysBalanced(p)
  /\ Forward /\ Somewhere /\ ReceivedInv' /\ UsedInv' /\ OwnDocument(r)
  /\ req'[r] = Idle \/ (Placed(r)' /\ Ready(r)')

(* A job of a document names one of the right kind.                         *)
LEMMA AboutDocs ==
  ASSUME NEW job \in Form
  PROVE  /\ job.op \in DocOps => job.doc \in Doc /\ job.doc \in Subjects(job)
         /\ job.op \in {"createOrder", "apiCreateOrder", "portalOrder", "confirm"} \cup ForwardOps
              => job.doc \in SalesOrder
         /\ job.op \in {"createPurchase", "apiCreatePurchase", "suggest", "receive"}
              => job.doc \in PurchaseOrder
         /\ job.op \in {"createReturn", "apiCreateReturn", "approve"} => job.doc \in SalesReturn
         /\ job.op \in {"createCredit", "apiCreateCredit"} => job.doc \in CreditNote
         /\ job.op \in {"createBuild", "start", "complete"} => job.doc \in ManufacturingOrder
<1>1. job.op \in DocOps => job \in OnOrders
  BY DEF DocOps, CreatingOps, ForwardOps, Form, OnStock, OnInvoices, OnMembers, OnWarehouses, OnCatalogue
<1>2. /\ job.op \in {"createOrder", "apiCreateOrder", "portalOrder", "confirm"} \cup ForwardOps
           => job.doc \in SalesOrder
      /\ job.op \in {"createPurchase", "apiCreatePurchase", "suggest", "receive"}
           => job.doc \in PurchaseOrder
      /\ job.op \in {"createReturn", "apiCreateReturn", "approve"} => job.doc \in SalesReturn
      /\ job.op \in {"createCredit", "apiCreateCredit"} => job.doc \in CreditNote
      /\ job.op \in {"createBuild", "start", "complete"} => job.doc \in ManufacturingOrder
  BY OrderForms DEF ForwardOps
<1>3. job.op \in DocOps => job.doc \in Doc
  BY <1>2 DEF Doc, DocOps, CreatingOps, ForwardOps
<1>4. job.op \in DocOps => "doc" \in DOMAIN job /\ job["doc"] = job.doc
  BY <1>1 DEF OnOrders, DocOps, CreatingOps, ForwardOps
<1>5. job.op \in DocOps => job.doc \in Subjects(job) BY <1>4 DEF Subjects
<1> QED BY <1>2, <1>3, <1>5

(* A product of a document is not clear when the document is not. *)
LEMMA ClearStays ==
  ASSUME NEW p \in Product, Clear(p)', clashed \subseteq clashed',
         \A m \in ManufacturingOrder : used[m] \subseteq used'[m]
  PROVE  Clear(p)
BY DEF Clear, Posts

(* What lies nowhere stays so. *)
LEMMA EmptyStays ==
  ASSUME NothingNowhere, Forward, Somewhere
  PROVE  NothingNowhere'
<1>1. ASSUME NEW w \in Warehouse, depot'[w] = "absent", NEW p \in Product PROVE stock'[p][w] = 0
  <2>1. depot[w] = "absent" BY <1>1 DEF Forward
  <2> QED BY <1>1, <2>1 DEF Somewhere, NothingNowhere
<1>2. ASSUME NEW m \in ManufacturingOrder, status'[m] # "ABSENT"
      PROVE  depot'[Build[m].warehouse] # "absent"
  <2>1. depot[Build[m].warehouse] # "absent" BY <1>2 DEF Somewhere, NothingNowhere
  <2> QED BY <2>1, BuildAssumption DEF Forward
<1> QED BY <1>1, <1>2 DEF NothingNowhere

(* An order that nothing is received of meanwhile. *)
LEMMA UnfinishedReceived ==
  ASSUME ReceivedInv, received' = received,
         \A o \in PurchaseOrder : status'[o] = status[o] \/ status'[o] \in {"DRAFT", "SENT"}
  PROVE  ReceivedInv'
BY DEF ReceivedInv, ReceivedAsSaid, PurchaseStatus

(* A document of which the stock took what changed in its entry. *)
LEMMA EntryBooked ==
  ASSUME TypeInv, TypeInv', NEW d \in Doc, NEW p \in Product, plain' = plain,
         \A x \in Doc \ {d} : Entry(x, p)' = Entry(x, p),
         InStock(p)' = InStock(p) + (Entry(d, p)' - Entry(d, p))
  PROVE  StaysBalanced(p)
<1>1. OnBooks(p) \in Int /\ OnBooks(p)' = OnBooks(p) + Entry(d, p)' - Entry(d, p)
  BY BooksChange
<1>2. Entry(d, p) \in Int /\ Entry(d, p)' \in Int BY EntryInt, EntryIntNext
<1>3. plain[p] \in Int BY DEF TypeInv, TablesTyped, StockTyped
<1> QED BY <1>1, <1>2, <1>3 DEF StaysBalanced

(* A step of a request that is booked keeps the books.                      *)
LEMMA BooksServed ==
  ASSUME OfficeInv, BooksInv, NEW r \in Request, Moves(r), Booked(r),
         mode = "database", mode' = mode
  PROVE  BooksInv'
<1>1. TypeInv /\ Apart /\ clashed' = clashed BY DEF OfficeInv, Moves, boundVars
<1>2. Forward /\ Somewhere /\ OwnDocument(r) /\ ReceivedInv' /\ UsedInv' BY DEF Booked
<1>3. Balanced'
  <2> SUFFICES ASSUME NEW p \in Product, Clear(p)' PROVE InStock(p)' = plain'[p] + OnBooks(p)'
    BY DEF Balanced
  <2>1. Clear(p) BY <1>1, <1>2, ClearStays DEF Forward
  <2>2. InStock(p) = plain[p] + OnBooks(p) BY <2>1 DEF BooksInv, Balanced
  <2> QED BY <2>2 DEF Booked, StaysBalanced
<1>4. NothingNowhere' BY <1>2, EmptyStays DEF BooksInv
<1>5. ASSUME NEW q \in Request, req'[q] # Idle PROVE Placed(q)' /\ Ready(q)'
  <2>1. CASE q = r BY <1>5, <2>1 DEF Booked
  <2>2. CASE q # r
    <3>1. req'[q] = req[q] /\ req[q] # Idle BY <1>5, <2>2 DEF Moves
    <3>2. Parsed(Job(q)) /\ Knows(q) BY <1>1, <3>1 DEF TypeInv, RequestsTyped, Working
    <3>3. Placed(q) /\ Ready(q) BY <3>1 DEF BooksInv
    <3>4. Placed(q)'
      <4>1. \A w \in Warehouse : depot[w] # "absent" => depot'[w] # "absent"
        BY <1>2 DEF Forward
      <4>2. /\ Job(q).op \in {"movement", "transfer", "count"} => Job(q).warehouse \in Warehouse
            /\ Job(q).op = "transfer" => Job(q).to \in Warehouse
        BY <3>2, StockForms DEF Parsed
      <4>3. Job(q).op \in {"createBuild", "start", "complete"}
              => Build[Job(q).doc].warehouse \in Warehouse
        BY <3>2, AboutDocs, BuildAssumption DEF Parsed
      <4>4. /\ At(q, "confirm", "read") \/ At(q, "approve", "read") \/ At(q, "receive", "read")
                 => req[q].saw[1] \subseteq Warehouse
            /\ At(q, "confirm", "summed") => req[q].saw[1] \in Warehouse
        BY <3>2 DEF Knows
      <4>5. At(q, "start", "consumed") \/ At(q, "complete", "read")
              => Job(q).op \in {"createBuild", "start", "complete"}
        BY DEF At, Job
      <4> QED BY <3>1, <3>3, <4>1, <4>2, <4>3, <4>4, <4>5 DEF Placed, At, Job
    <3>5. Ready(q)'
      <4> SUFFICES ASSUME Job(q).op \in DocOps, req[q].at # "begun", Job(q).doc \notin clashed
                   PROVE  Fresh(q)'
        BY <1>1, <3>1 DEF Ready, Job
      <4> DEFINE d == Job(q).doc
      <4>1. Fresh(q) BY <3>3 DEF Ready
      <4>2. d \in Doc /\ d \in Subjects(Job(q)) BY <3>2, AboutDocs DEF Parsed
      <4>3. Job(r).op \in DocOps => d # Job(r).doc
        <5>1. req[r] # Idle /\ Parsed(Job(r))
          BY <1>1 DEF Moves, TypeInv, RequestsTyped, Working
        <5>2. Job(r).op \in DocOps => Job(r).doc \in Subjects(Job(r))
          BY <5>1, AboutDocs DEF Parsed
        <5>3. Subjects(Job(q)) \cap Subjects(Job(r)) \subseteq clashed
          BY <1>1, <2>2, <3>1, <5>1 DEF Apart
        <5> QED BY <4>2, <5>2, <5>3
      <4>4. status'[d] = status[d] /\ (d \in PurchaseOrder => received'[d] = received[d])
        BY <1>2, <4>2, <4>3 DEF OwnDocument
      <4>5. Job(q).op = "receive" => d \in PurchaseOrder BY <3>2, AboutDocs DEF Parsed
      <4>6. Job(q)' = Job(q) BY <3>1 DEF Job
      <4> QED BY <3>1, <4>1, <4>4, <4>5, <4>6 DEF Fresh
    <3> QED BY <3>4, <3>5
  <2> QED BY <2>1, <2>2
<1> QED BY <1>1, <1>2, <1>3, <1>4, <1>5 DEF BooksInv

------------------------

(* Steps that leave the books alone. *)
LEMMA EntrySame ==
  ASSUME NEW d \in Doc, NEW p, mode' = mode, status'[d] = status[d],
         d \in PurchaseOrder => received'[d] = received[d],
         d \in ManufacturingOrder => used'[d] = used[d]
  PROVE  Entry(d, p)' = Entry(d, p)
BY DEF Entry, SoldOn, BoughtOn, ReturnedOn, BuiltOn, MadeOn, TakenFor

(* A step that leaves the books alone is booked.                            *)
LEMMA QuietStep ==
  ASSUME TypeInv, BooksInv, NEW r \in Request, Moves(r), mode' = mode,
         UNCHANGED <<stock, plain, status, received, used>>,
         \A w \in Warehouse : depot[w] # "absent" => depot'[w] # "absent",
         req'[r] = Idle \/ (Placed(r)' /\ Ready(r)')
  PROVE  Booked(r)
<1>1. \A p \in Product : StaysBalanced(p)
  BY DEF StaysBalanced, InStock, OnBooks, SoldOn, BoughtOn, ReturnedOn, BuiltOn, MadeOn, TakenFor
<1>2. Forward /\ Somewhere /\ OwnDocument(r) BY DEF Forward, Somewhere, OwnDocument
<1>3. clashed' = clashed BY DEF Moves, boundVars
<1>4. ReceivedInv' /\ UsedInv'
  BY <1>3 DEF BooksInv, ReceivedInv, ReceivedAsSaid, UsedInv
<1> QED BY <1>1, <1>2, <1>4 DEF Booked

(* A request that is about no stock and no document. *)
LEMMA ElsewhereBooked ==
  ASSUME TypeInv, BooksInv, NEW r \in Request, Moves(r), mode' = mode,
         UNCHANGED <<stock, plain, status, received, used>>,
         \A w \in Warehouse : depot[w] # "absent" => depot'[w] # "absent",
         Job(r).op \notin DocOps \cup {"movement", "transfer", "count"}
  PROVE  Booked(r)
<1>1. req'[r] = Idle \/ Job(r)' = Job(r) BY DEF Moves, Job
<1>2. Job(r)' = Job(r) => Placed(r)' /\ Ready(r)'
  BY DEF Placed, Ready, DocOps, CreatingOps, At, Job
<1> QED BY <1>1, <1>2, QuietStep

(* A step of a request about a document that posts as much as the entry of  *)
(* its document changes.                                                    *)
LEMMA PostingBooked ==
  ASSUME TypeInv, TypeInv', BooksInv, NEW r \in Request, Moves(r), req'[r] = Idle, mode' = mode,
         Job(r).op \in DocOps, NEW d \in Doc, d = Job(r).doc, UNCHANGED <<plain, depot>>,
         \A x \in Doc \ {d} : /\ status'[x] = status[x]
                              /\ x \in PurchaseOrder => received'[x] = received[x]
                              /\ x \in ManufacturingOrder => used'[x] = used[x],
         d \in ManufacturingOrder => used[d] \subseteq used'[d],
         \A p \in Product : Clear(p)' => InStock(p)' = InStock(p) + (Entry(d, p)' - Entry(d, p)),
         Somewhere, ReceivedInv', UsedInv'
  PROVE  Booked(r)
<1>1. ASSUME NEW p \in Product, Clear(p)' PROVE StaysBalanced(p)
  <2>1. \A x \in Doc \ {d} : Entry(x, p)' = Entry(x, p) BY EntrySame
  <2> QED BY <1>1, <2>1, EntryBooked
<1>2. Forward BY DEF Forward, Doc
<1>3. OwnDocument(r) BY DEF OwnDocument
<1> QED BY <1>1, <1>2, <1>3 DEF Booked

(* A document that is created has posted nothing. *)
LEMMA CreatedEntry ==
  ASSUME TypeInv, ReceivedInv, mode' = mode, NEW d \in Doc, NEW p \in Product,
         status[d] = "ABSENT", status'[d] \in {"ABSENT", "DRAFT", "SENT"},
         status'[d] = "SENT" => d \in PurchaseOrder,
         d \in PurchaseOrder => received'[d] = received[d]
  PROVE  Entry(d, p)' = Entry(d, p)
<1>1. CASE d \in SalesOrder
  <2>1. status'[d] \in {"ABSENT", "DRAFT"} BY <1>1, DocAssumption
  <2> QED BY <1>1, <2>1 DEF Entry, SoldOn
<1>2. CASE d \in PurchaseOrder
  <2>1. \A i \in DOMAIN Lines[d] : received[d][i] = 0
    BY <1>2 DEF ReceivedInv, ReceivedAsSaid
  <2>2. received[d] \in Received(d) BY <1>2 DEF TypeInv, TablesTyped, DocsTyped
  <2>3. QuantityOf(Outstanding(d, received[d]), p) = QuantityOf(Lines[d], p)
    BY <1>2, <2>1, <2>2, OutstandingSums
  <2>4. QuantityOf(Lines[d], p) \in Int BY <1>2, LinesTyped, QuantityInt
  <2>5. /\ BoughtOn(d, p) = 0
        /\ BoughtOn(d, p)' = 0
    BY <1>2, <2>3, <2>4 DEF BoughtOn
  <2>6. d \notin SalesOrder BY <1>2, DocAssumption
  <2> QED BY <1>2, <2>5, <2>6 DEF Entry
<1>3. CASE d \in SalesReturn \cup ManufacturingOrder \cup CreditNote
  <2>1. d \notin SalesOrder /\ d \notin PurchaseOrder BY <1>3, DocAssumption
  <2> QED BY <1>3, <2>1 DEF Entry, ReturnedOn, BuiltOn, MadeOn, TakenFor
<1> QED BY <1>1, <1>2, <1>3 DEF Doc

(* A request about a document that only changes its status. *)
LEMMA RestatedBooked ==
  ASSUME TypeInv, TypeInv', BooksInv, NEW r \in Request, Moves(r), req'[r] = Idle, mode' = mode,
         Job(r).op \in CreatingOps \cup ForwardOps, req[r].at # "begun",
         UNCHANGED <<stock, plain, received, used, depot>>,
         NEW to, status' = status \/ status' = [status EXCEPT ![Job(r).doc] = to],
         Job(r).op \in CreatingOps => to \in {"DRAFT", "SENT"},
         to = "SENT" => Job(r).op \in {"createPurchase", "apiCreatePurchase"},
         Job(r).op \in ForwardOps => to \in {"PICKING", "PACKED", "SHIPPED", "DELIVERED"}
  PROVE  Booked(r)
<1>1. Job(r) \in Form /\ Placed(r) /\ Ready(r) /\ clashed' = clashed
  BY DEF TypeInv, RequestsTyped, Working, Parsed, Moves, BooksInv, boundVars
<1>0. PICK d \in Doc : d = Job(r).doc BY <1>1, AboutDocs DEF DocOps
<1>2. /\ d \in Doc
      /\ Job(r).op \in {"createOrder", "apiCreateOrder", "portalOrder"} \cup ForwardOps
           => d \in SalesOrder
      /\ Job(r).op \in {"createPurchase", "apiCreatePurchase", "suggest"} => d \in PurchaseOrder
      /\ Job(r).op \in {"createReturn", "apiCreateReturn"} => d \in SalesReturn
      /\ Job(r).op \in {"createCredit", "apiCreateCredit"} => d \in CreditNote
      /\ Job(r).op = "createBuild" => d \in ManufacturingOrder
  BY <1>0, <1>1, AboutDocs DEF DocOps
<1>3. DOMAIN status = Doc BY DEF TypeInv, TablesTyped, DocsTyped
<1>4. /\ \A x \in Doc \ {d} : status'[x] = status[x]
      /\ status'[d] \in {status[d], to}
  BY <1>0, <1>2, <1>3
<1>5. d \in clashed \/ Fresh(r) BY <1>0, <1>1 DEF Ready, DocOps
<1>6. ASSUME NEW p \in Product, Clear(p)' PROVE Entry(d, p)' = Entry(d, p)
  <2>1. CASE d \in clashed
    <3>1. p \notin Posts(d) /\ p \notin Posts(d)'
      BY <1>1, <1>2, <1>6, <2>1 DEF Clear, Posts
    <3> QED BY <1>2, <3>1, Entries, EntriesNext
  <2>2. CASE Fresh(r) /\ Job(r).op \in CreatingOps
    <3>1. status[d] = "ABSENT" /\ status'[d] \in {"ABSENT", "DRAFT", "SENT"}
      BY <1>0, <1>4, <2>2 DEF Fresh
    <3>2. status'[d] = "SENT" => d \in PurchaseOrder BY <1>2, <1>4, <3>1
    <3> QED BY <3>1, <3>2, CreatedEntry DEF BooksInv
  <2>3. CASE Fresh(r) /\ Job(r).op \in ForwardOps
    <3>1. d \in SalesOrder /\ status[d] \notin {"ABSENT", "DRAFT"}
      BY <1>0, <1>2, <2>3 DEF Fresh
    <3>2. status'[d] \notin {"ABSENT", "DRAFT"} BY <1>4, <2>3, <3>1
    <3> QED BY <3>1, <3>2 DEF Entry, SoldOn
  <2> QED BY <1>5, <2>1, <2>2, <2>3
<1>7. ASSUME NEW p \in Product, Clear(p)'
      PROVE  InStock(p)' = InStock(p) + (Entry(d, p)' - Entry(d, p))
  <2>1. InStock(p)' = InStock(p) /\ InStock(p) \in Int BY StockSame, InStockInt
  <2>2. Entry(d, p) \in Int BY <1>2, EntryInt
  <2> QED BY <1>6, <1>7, <2>1, <2>2
<1>8. Somewhere
  <2>1. ASSUME NEW m \in ManufacturingOrder, status'[m] # "ABSENT", status[m] = "ABSENT"
        PROVE  depot[Build[m].warehouse] # "absent"
    <3>1. m = d BY <1>4, <2>1 DEF Doc
    <3>2. Job(r).op = "createBuild" BY <1>2, <3>1, DocAssumption DEF CreatingOps
    <3> QED BY <1>0, <1>1, <3>1, <3>2 DEF Placed
  <2> QED BY <2>1 DEF Somewhere
<1>9. ReceivedInv'
  <2> SUFFICES ASSUME NEW o \in PurchaseOrder
               PROVE  status'[o] = status[o] \/ status'[o] \in {"DRAFT", "SENT"}
    BY UnfinishedReceived DEF BooksInv
  <2>1. o = d => Job(r).op \in CreatingOps BY <1>2, DocAssumption
  <2> QED BY <1>4, <2>1 DEF Doc
<1>10. UsedInv'
  <2> SUFFICES ASSUME NEW m \in ManufacturingOrder, m \notin clashed,
                      status'[m] \in {"ABSENT", "DRAFT"}
               PROVE  used[m] = {}
    BY <1>1 DEF UsedInv
  <2>1. status[m] \in {"ABSENT", "DRAFT"}
    <3>1. CASE m = d
      <4>1. Job(r).op \in CreatingOps BY <1>2, <3>1, DocAssumption
      <4> QED BY <1>0, <1>5, <3>1, <4>1 DEF Fresh
    <3>2. CASE m # d BY <1>4, <3>2 DEF Doc
    <3> QED BY <3>1, <3>2
  <2> QED BY <2>1 DEF BooksInv, UsedInv
<1>11. Job(r).op \in DocOps BY DEF DocOps
<1>12. \A x \in Doc \ {d} :
         /\ status'[x] = status[x]
         /\ x \in PurchaseOrder => received'[x] = received[x]
         /\ x \in ManufacturingOrder => used'[x] = used[x]
  BY <1>4
<1> QED BY <1>0, <1>7, <1>8, <1>9, <1>10, <1>11, <1>12, PostingBooked

------------------------

(* The actions. *)
LEMMA CheckBooked ==
  ASSUME TypeInv, BooksInv, NEW r \in Request, req[r].at \in Steps, mode' = mode,
         NEW ok, NEW step \in Steps, NEW saw,
         IF ok THEN Advance(r, step, saw) ELSE Finish(r),
         UNCHANGED <<stockVars, docVars, adminVars, boundVars>>,
         ok /\ req'[r].job = req[r].job /\ req'[r].at = step /\ req'[r].saw = saw
           => Placed(r)' /\ Ready(r)'
  PROVE  Booked(r)
<1>1. UNCHANGED <<stock, plain, status, received, used, depot>>
  BY DEF stockVars, docVars, adminVars
<1>2. ok => Moves(r) /\ req'[r].job = req[r].job /\ req'[r].at = step /\ req'[r].saw = saw
  BY Checked DEF TypeInv
<1>3. ~ok => Moves(r) /\ req'[r] = Idle BY Checked DEF TypeInv
<1> QED BY <1>1, <1>2, <1>3, QuietStep

(* New documents post nothing yet.                                          *)
LEMMA CreatingBooked ==
  ASSUME TypeInv, TypeInv', BooksInv, NEW r \in Request, mode' = mode, Numbers(r)
  PROVE  Booked(r)
<1>1. PICK op \in CreatingOps :
        \/ /\ At(r, op, "begun")
           /\ \E ok, saw : \E step \in {"read", "counted"} :
                /\ ok => status[Job(r).doc] = "ABSENT"
                /\ IF ok THEN Advance(r, step, saw) ELSE Finish(r)
           /\ UNCHANGED <<stockVars, docVars, adminVars, boundVars>>
        \/ /\ At(r, op, "read")
           /\ \E saw : IF TRUE THEN Advance(r, "counted", saw) ELSE Finish(r)
           /\ UNCHANGED <<stockVars, docVars, adminVars, boundVars>>
        \/ /\ At(r, op, "counted")
           /\ \E to \in {"DRAFT", "SENT"} :
                /\ status' = status \/ status' = [status EXCEPT ![Job(r).doc] = to]
                /\ to = "SENT" => op \in {"createPurchase", "apiCreatePurchase"}
           /\ Commits(r)
           /\ UNCHANGED <<stockVars, received, lists, shipments, recipe, used, adminVars>>
  BY DEF CreateSalesOrder, CreatePurchaseOrder, GenerateSmartPurchaseOrders,
       CreateManufacturingOrder, CreateSalesReturn, CreateCreditNote, ApiCreateSalesOrder,
       PortalPlaceOrder, ApiCreatePurchaseOrder, ApiCreateSalesReturn, ApiCreateCreditNote,
       Numbers, Numbered, Check, CreatingOps
<1>2. Job(r).op = op /\ req[r].at \in Steps /\ req[r] # Idle
  BY <1>1, AtWorks DEF Steps, At, Idle, Job
<1>3. Placed(r) /\ Ready(r) /\ op \in DocOps BY <1>2 DEF BooksInv, DocOps
<1>4. CASE At(r, op, "begun")
  <2>1. PICK ok, saw : \E step \in {"read", "counted"} :
               /\ ok => status[Job(r).doc] = "ABSENT"
               /\ IF ok THEN Advance(r, step, saw) ELSE Finish(r)
    BY <1>1, <1>4 DEF At
  <2>2. PICK step \in {"read", "counted"} :
               /\ ok => status[Job(r).doc] = "ABSENT"
               /\ IF ok THEN Advance(r, step, saw) ELSE Finish(r)
    BY <2>1
  <2>3. UNCHANGED <<stockVars, docVars, adminVars, boundVars>> BY <1>1, <1>4 DEF At
  <2>4. ASSUME ok, req'[r].job = req[r].job, req'[r].at = step PROVE Placed(r)' /\ Ready(r)'
    <3>1. status' = status /\ depot' = depot BY <2>3 DEF docVars, adminVars
    <3>2. status[Job(r).doc] = "ABSENT" BY <2>2, <2>4
    <3> QED BY <1>1, <1>2, <1>3, <2>4, <3>1, <3>2
        DEF Placed, Ready, Fresh, At, Job, CreatingOps, ForwardOps
  <2> QED BY <1>2, <2>2, <2>3, <2>4, CheckBooked DEF Steps
<1>5. CASE At(r, op, "read")
  <2>1. PICK saw : IF TRUE THEN Advance(r, "counted", saw) ELSE Finish(r)
    BY <1>1, <1>5 DEF At
  <2>2. UNCHANGED <<stockVars, docVars, adminVars, boundVars>> BY <1>1, <1>5 DEF At
  <2>3. ASSUME req'[r].job = req[r].job, req'[r].at = "counted" PROVE Placed(r)' /\ Ready(r)'
    <3>1. status' = status /\ depot' = depot /\ clashed' = clashed
      BY <2>2 DEF docVars, adminVars, boundVars
    <3>2. Job(r).doc \in clashed \/ Fresh(r) BY <1>2, <1>3, <1>5 DEF Ready, At
    <3> QED BY <1>1, <1>2, <1>3, <2>3, <3>1, <3>2
        DEF Placed, Ready, Fresh, At, Job, CreatingOps, ForwardOps
  <2> QED BY <1>2, <2>1, <2>2, <2>3, CheckBooked DEF Steps
<1>6. CASE At(r, op, "counted")
  <2>1. PICK to \in {"DRAFT", "SENT"} :
           /\ status' = status \/ status' = [status EXCEPT ![Job(r).doc] = to]
           /\ to = "SENT" => op \in {"createPurchase", "apiCreatePurchase"}
    BY <1>1, <1>6 DEF At
  <2>2. /\ Commits(r)
        /\ UNCHANGED <<stockVars, received, lists, shipments, recipe, used, adminVars>>
    BY <1>1, <1>6 DEF At
  <2>3. Moves(r) /\ req'[r] = Idle BY <1>2, <2>2, Committed DEF TypeInv
  <2>4. UNCHANGED <<stock, plain, received, used, depot>>
    BY <2>2 DEF stockVars, adminVars
  <2>5. Job(r).op \in CreatingOps /\ Job(r).op \notin ForwardOps /\ req[r].at # "begun"
    BY <1>2, <1>6 DEF At, CreatingOps, ForwardOps
  <2> QED BY <1>2, <2>1, <2>3, <2>4, <2>5, RestatedBooked
<1> QED BY <1>1, <1>4, <1>5, <1>6

(* Picking, packing, shipping and delivery post nothing.                    *)
LEMMA ForwardBooked ==
  ASSUME TypeInv, TypeInv', BooksInv, NEW r \in Request, mode' = mode,
         StartPicking(r) \/ PackOrder(r) \/ ShipOrder(r) \/ DeliverOrder(r)
  PROVE  Booked(r)
<1>1. PICK op \in ForwardOps :
        \/ /\ At(r, op, "begun")
           /\ \E ok, saw : \E step \in {"read", "counted"} :
                /\ ok => status[Job(r).doc] \in {"CONFIRMED", "PICKING", "PACKED", "SHIPPED"}
                /\ IF ok THEN Advance(r, step, saw) ELSE Finish(r)
           /\ UNCHANGED <<stockVars, docVars, adminVars, boundVars>>
        \/ /\ At(r, op, "read") \/ At(r, op, "counted")
           /\ \E to \in {"PICKING", "PACKED", "SHIPPED", "DELIVERED"} :
                status' = status \/ status' = [status EXCEPT ![Job(r).doc] = to]
           /\ Commits(r)
           /\ UNCHANGED <<stockVars, received, used, adminVars>>
  <2>1. CASE StartPicking(r) BY <2>1 DEF StartPicking, Check, ForwardOps
  <2>2. CASE PackOrder(r) BY <2>2 DEF PackOrder, Check, ForwardOps
  <2>3. CASE ShipOrder(r) BY <2>3 DEF ShipOrder, Shippable, Check, ForwardOps
  <2>4. CASE DeliverOrder(r) BY <2>4 DEF DeliverOrder, Check, ForwardOps
  <2> QED BY <2>1, <2>2, <2>3, <2>4
<1>2. Job(r).op = op /\ req[r].at \in Steps /\ req[r] # Idle
  BY <1>1, AtWorks DEF Steps, At, Idle, Job
<1>3. CASE At(r, op, "begun")
  <2>1. PICK ok, saw : \E step \in {"read", "counted"} :
               /\ ok => status[Job(r).doc] \in {"CONFIRMED", "PICKING", "PACKED", "SHIPPED"}
               /\ IF ok THEN Advance(r, step, saw) ELSE Finish(r)
    BY <1>1, <1>3 DEF At
  <2>2. PICK step \in {"read", "counted"} :
               /\ ok => status[Job(r).doc] \in {"CONFIRMED", "PICKING", "PACKED", "SHIPPED"}
               /\ IF ok THEN Advance(r, step, saw) ELSE Finish(r)
    BY <2>1
  <2>3. UNCHANGED <<stockVars, docVars, adminVars, boundVars>> BY <1>1, <1>3 DEF At
  <2>4. ASSUME ok, req'[r].job = req[r].job, req'[r].at = step PROVE Placed(r)' /\ Ready(r)'
    <3>1. status' = status BY <2>3 DEF docVars
    <3>2. status[Job(r).doc] \in {"CONFIRMED", "PICKING", "PACKED", "SHIPPED"}
      BY <2>2, <2>4
    <3> QED BY <1>1, <1>2, <2>4, <3>1, <3>2
        DEF Placed, Ready, Fresh, At, Job, CreatingOps, ForwardOps
  <2> QED BY <1>2, <2>2, <2>3, <2>4, CheckBooked DEF Steps
<1>4. CASE At(r, op, "read") \/ At(r, op, "counted")
  <2>1. PICK to \in {"PICKING", "PACKED", "SHIPPED", "DELIVERED"} :
           status' = status \/ status' = [status EXCEPT ![Job(r).doc] = to]
    BY <1>1, <1>4 DEF At
  <2>2. /\ Commits(r)
        /\ UNCHANGED <<stockVars, received, used, adminVars>>
    BY <1>1, <1>4 DEF At
  <2>3. Moves(r) /\ req'[r] = Idle BY <1>2, <2>2, Committed DEF TypeInv
  <2>4. UNCHANGED <<stock, plain, received, used, depot>>
    BY <2>2 DEF stockVars, adminVars
  <2>5. Job(r).op \in ForwardOps /\ Job(r).op \notin CreatingOps /\ req[r].at # "begun"
    BY <1>2, <1>4 DEF At, CreatingOps, ForwardOps
  <2> QED BY <1>2, <2>1, <2>3, <2>4, <2>5, RestatedBooked
<1> QED BY <1>1, <1>3, <1>4

(* Postings without a document. *)
LEMMA PlainBooked ==
  ASSUME TypeInv, TypeInv', BooksInv, NEW r \in Request, Moves(r), req'[r] = Idle, mode' = mode,
         UNCHANGED <<status, received, used, depot>>,
         \A p \in Product : InStock(p)' - plain'[p] = InStock(p) - plain[p],
         \A w \in Warehouse : depot[w] = "absent" => \A p \in Product : stock'[p][w] = stock[p][w]
  PROVE  Booked(r)
<1>1. ASSUME NEW p \in Product PROVE StaysBalanced(p)
  <2>1. OnBooks(p)' = OnBooks(p)
    BY DEF OnBooks, SoldOn, BoughtOn, ReturnedOn, BuiltOn, MadeOn, TakenFor
  <2>2. OnBooks(p) \in Int /\ InStock(p) \in Int /\ InStock(p)' \in Int
    BY BooksInt, InStockInt, InStockIntNext
  <2>3. plain[p] \in Int /\ plain'[p] \in Int BY DEF TypeInv, TablesTyped, StockTyped
  <2>4. InStock(p)' - plain'[p] = InStock(p) - plain[p] OBVIOUS
  <2> QED BY <2>1, <2>2, <2>3, <2>4 DEF StaysBalanced
<1>2. Forward /\ Somewhere /\ OwnDocument(r) BY DEF Forward, Somewhere, OwnDocument
<1>3. ReceivedInv' /\ UsedInv'
  BY DEF BooksInv, ReceivedInv, ReceivedAsSaid, UsedInv, Moves, boundVars
<1> QED BY <1>1, <1>2, <1>3 DEF Booked

(* Movements, transfers and counts are posted without a document.           *)
LEMMA MovementBooked ==
  ASSUME TypeInv, TypeInv', BooksInv, NEW r \in Request, mode' = mode, CreateStockMovement(r)
  PROVE  Booked(r)
<1>1. /\ Job(r).op = "movement" /\ Parsed(Job(r)) /\ req[r].at \in Steps /\ req[r] # Idle
      /\ At(r, "movement", "begun") \/ At(r, "movement", "checked")
  BY AtWorks DEF CreateStockMovement, Steps, Idle
<1>0. PICK job : job = Job(r) OBVIOUS
<1>2. /\ job.product \in Product /\ job.warehouse \in Warehouse /\ job.quantity \in Int
      /\ Placed(r)
  BY <1>0, <1>1, StockForms DEF Parsed, BooksInv
<1>3. CASE At(r, "movement", "begun")
  <2>1. PICK ok : IF ok THEN Advance(r, "checked", <<>>) ELSE Finish(r)
    BY <1>3 DEF CreateStockMovement, At, Check
  <2>2. UNCHANGED <<stockVars, docVars, adminVars, boundVars>>
    BY <1>3 DEF CreateStockMovement, At, Check
  <2>3. ASSUME req'[r].job = req[r].job, req'[r].at = "checked" PROVE Placed(r)' /\ Ready(r)'
    BY <1>1, <1>2, <2>2, <2>3
       DEF Placed, Ready, At, Job, DocOps, CreatingOps, ForwardOps, adminVars
  <2> QED BY <1>1, <2>1, <2>2, <2>3, CheckBooked DEF Steps
<1>4. CASE At(r, "movement", "checked")
  <2> DEFINE sign == IF job.type = "OUTBOUND" THEN -1 ELSE 1
             w == job.warehouse
             line == OneLine(job)
  <2>1. /\ stock' = Moved(w, line, sign)
        /\ plain' = [plain EXCEPT ![job.product] = @ + ChangeOf(job)]
        /\ Commits(r) /\ UNCHANGED <<docVars, adminVars>>
    BY <1>0, <1>4 DEF CreateStockMovement, At
  <2>2. Moves(r) /\ req'[r] = Idle BY <1>1, <2>1, Committed DEF TypeInv
  <2>3. UNCHANGED <<status, received, used, depot>> BY <2>1 DEF docVars, adminVars
  <2>4. /\ IsFiniteSet(DOMAIN line)
        /\ \A i \in DOMAIN line : line[i].quantity \in Int /\ line[i].product = job.product
        /\ QuantityOf(line, job.product) = job.quantity
    BY <1>2, OneLineQuantity
  <2>5. /\ stock \in [Product -> [Warehouse -> Int]] /\ stock' \in [Product -> [Warehouse -> Int]]
        /\ plain \in [Product -> Int]
    BY DEF TypeInv, TablesTyped, StockTyped
  <2>6. sign \in {1, -1} OBVIOUS
  <2>7. ChangeOf(job) = (IF sign = 1 THEN job.quantity ELSE -job.quantity)
    BY DEF ChangeOf
  <2>8. ASSUME NEW p \in Product PROVE InStock(p)' - plain'[p] = InStock(p) - plain[p]
    <3> HIDE DEF line, sign, w
    <3>1. /\ sign = 1 => InStock(p)' = InStock(p) + QuantityOf(line, p)
          /\ sign = -1 => InStock(p)' = InStock(p) - QuantityOf(line, p)
      BY <1>2, <2>1, <2>4, <2>5, <2>6, MovedSum DEF w
    <3>2. p # job.product => QuantityOf(line, p) = 0 BY <2>4, QuantityInt
    <3>3. /\ p = job.product => plain'[p] = plain[p] + ChangeOf(job)
          /\ p # job.product => plain'[p] = plain[p]
      BY <1>2, <2>1, <2>5
    <3>4. InStock(p) \in Int /\ plain[p] \in Int BY <2>5, InStockInt
    <3> QED BY <1>2, <2>4, <2>6, <2>7, <3>1, <3>2, <3>3, <3>4
  <2>9. ASSUME NEW v \in Warehouse, depot[v] = "absent", NEW p \in Product
        PROVE  stock'[p][v] = stock[p][v]
    <3>1. v # w BY <1>0, <1>1, <1>2, <2>9 DEF Placed
    <3> HIDE DEF line, sign, w
    <3>2. \A i \in DOMAIN line : line[i].quantity \in Int BY <2>4
    <3>3. Moved(w, line, sign)[p][v] = stock[p][v]
      BY <2>4, <2>5, <2>6, <3>1, <3>2, MovedStock
    <3> QED BY <2>1, <3>3
  <2> HIDE DEF line, sign, w
  <2> QED BY <2>2, <2>3, <2>8, <2>9, PlainBooked
<1> QED BY <1>1, <1>3, <1>4

LEMMA TransferBooked ==
  ASSUME TypeInv, TypeInv', BooksInv, NEW r \in Request, mode' = mode, CreateStockTransfer(r)
  PROVE  Booked(r)
<1>1. /\ Job(r).op = "transfer" /\ Parsed(Job(r)) /\ req[r].at \in Steps /\ req[r] # Idle
      /\ At(r, "transfer", "begun") \/ At(r, "transfer", "checked")
  <2>1. At(r, "transfer", "begun") \/ At(r, "transfer", "checked")
    BY DEF CreateStockTransfer
  <2> QED BY <2>1, AtWorks DEF Steps, Idle
<1>0. PICK job : job = Job(r) OBVIOUS
<1>2. /\ job.product \in Product /\ job.warehouse \in Warehouse /\ job.to \in Warehouse
      /\ job.quantity \in Int /\ Placed(r) /\ job.warehouse # job.to
  BY <1>0, <1>1, StockForms, Schemas DEF Parsed, BooksInv
<1>3. CASE At(r, "transfer", "begun")
  <2>1. PICK ok : IF ok THEN Advance(r, "checked", <<>>) ELSE Finish(r)
    BY <1>3 DEF CreateStockTransfer, At, Check
  <2>2. UNCHANGED <<stockVars, docVars, adminVars, boundVars>>
    BY <1>3 DEF CreateStockTransfer, At, Check
  <2>3. ASSUME req'[r].job = req[r].job, req'[r].at = "checked" PROVE Placed(r)' /\ Ready(r)'
    BY <1>1, <1>2, <2>2, <2>3
       DEF Placed, Ready, At, Job, DocOps, CreatingOps, ForwardOps, adminVars
  <2> QED BY <1>1, <2>1, <2>2, <2>3, CheckBooked DEF Steps
<1>4. CASE At(r, "transfer", "checked")
  <2>1. /\ stock' = [stock EXCEPT ![job.product] = [v \in Warehouse |->
                       stock[job.product][v] + (IF v = job.to THEN job.quantity ELSE 0)
                                             - (IF v = job.warehouse THEN job.quantity ELSE 0)]]
        /\ Commits(r) /\ UNCHANGED <<plain, docVars, adminVars>>
    BY <1>0, <1>4 DEF CreateStockTransfer, At
  <2>2. Moves(r) /\ req'[r] = Idle BY <1>1, <2>1, Committed DEF TypeInv
  <2>3. UNCHANGED <<plain, status, received, used, depot>>
    BY <2>1 DEF docVars, adminVars
  <2>4. /\ \A v \in Warehouse \ {job.warehouse, job.to} :
             stock'[job.product][v] = stock[job.product][v]
        /\ stock'[job.product][job.warehouse] = stock[job.product][job.warehouse] - job.quantity
        /\ stock'[job.product][job.to] = stock[job.product][job.to] + job.quantity
        /\ \A p \in Product : p # job.product => stock'[p] = stock[p]
    BY <1>2, <2>1 DEF TypeInv, TablesTyped, StockTyped
  <2>5. InStock(job.product)' = InStock(job.product)
    <3>1. stock \in [Product -> [Warehouse -> Int]] /\ stock' \in [Product -> [Warehouse -> Int]]
      BY DEF TypeInv, TablesTyped, StockTyped
    <3> QED BY ONLY <1>2, <2>4, <3>1, TransferSum
  <2>6. ASSUME NEW p \in Product PROVE InStock(p)' - plain'[p] = InStock(p) - plain[p]
    <3>1. InStock(p)' = InStock(p) BY <2>4, <2>5, StockSame
    <3> QED BY <2>3, <3>1
  <2>7. ASSUME NEW v \in Warehouse, depot[v] = "absent", NEW p \in Product
        PROVE  stock'[p][v] = stock[p][v]
    <3>1. v # job.warehouse /\ v # job.to BY <1>0, <1>1, <1>2, <2>7 DEF Placed
    <3> QED BY <2>4, <3>1
  <2> QED BY <2>2, <2>3, <2>6, <2>7, PlainBooked
<1> QED BY <1>1, <1>3, <1>4

LEMMA CountBooked ==
  ASSUME TypeInv, TypeInv', BooksInv, NEW r \in Request, mode' = mode, RecordStocktakeCount(r)
  PROVE  Booked(r)
<1>1. /\ Job(r).op = "count" /\ Parsed(Job(r)) /\ req[r].at \in Steps /\ req[r] # Idle
      /\ At(r, "count", "begun") \/ At(r, "count", "checked")
      /\ Knows(r)
  <2>1. At(r, "count", "begun") \/ At(r, "count", "checked") BY DEF RecordStocktakeCount
  <2> QED BY <2>1, AtWorks DEF Steps, Idle, Working
<1>0. PICK job : job = Job(r) OBVIOUS
<1>2. /\ job.product \in Product /\ job.warehouse \in Warehouse /\ Placed(r)
  BY <1>0, <1>1, StockForms DEF Parsed, BooksInv
<1>3. CASE At(r, "count", "begun")
  <2>1. PICK ok, saw : IF ok THEN Advance(r, "checked", saw) ELSE Finish(r)
    BY <1>3 DEF RecordStocktakeCount, At, Check
  <2>2. UNCHANGED <<stockVars, docVars, adminVars, boundVars>>
    BY <1>3 DEF RecordStocktakeCount, At, Check
  <2>3. ASSUME req'[r].job = req[r].job, req'[r].at = "checked" PROVE Placed(r)' /\ Ready(r)'
    BY <1>1, <1>2, <2>2, <2>3
       DEF Placed, Ready, At, Job, DocOps, CreatingOps, ForwardOps, adminVars
  <2> QED BY <1>1, <2>1, <2>2, <2>3, CheckBooked DEF Steps
<1>4. CASE At(r, "count", "checked")
  <2>0. PICK n \in Int : n = req[r].saw[1] BY <1>1, <1>4 DEF Knows
  <2>1. /\ stock' = [stock EXCEPT ![job.product][job.warehouse] = @ + n]
        /\ plain' = [plain EXCEPT ![job.product] = @ + n]
        /\ Commits(r) /\ UNCHANGED <<docVars, adminVars>>
    BY <1>0, <1>4, <2>0 DEF RecordStocktakeCount, At
  <2>2. Moves(r) /\ req'[r] = Idle BY <1>1, <2>1, Committed DEF TypeInv
  <2>3. UNCHANGED <<status, received, used, depot>> BY <2>1 DEF docVars, adminVars
  <2>4. /\ stock \in [Product -> [Warehouse -> Int]] /\ stock' \in [Product -> [Warehouse -> Int]]
        /\ plain \in [Product -> Int]
    BY DEF TypeInv, TablesTyped, StockTyped
  <2>5. /\ \A v \in Warehouse \ {job.warehouse} : stock'[job.product][v] = stock[job.product][v]
        /\ stock'[job.product][job.warehouse] = stock[job.product][job.warehouse] + n
        /\ \A p \in Product : p # job.product => stock'[p] = stock[p] /\ plain'[p] = plain[p]
        /\ plain'[job.product] = plain[job.product] + n
    BY <1>2, <2>1, <2>4
  <2>6. ASSUME NEW p \in Product PROVE InStock(p)' - plain'[p] = InStock(p) - plain[p]
    <3>1. CASE p = job.product
      <4>1. InStock(p)' = InStock(p) + n BY <1>2, <2>4, <2>5, <3>1, StockChange
      <4>2. InStock(p) \in Int /\ plain[p] \in Int BY <2>4, InStockInt
      <4> QED BY <2>5, <3>1, <4>1, <4>2
    <3>2. CASE p # job.product
      <4>1. InStock(p)' = InStock(p) BY <2>5, <3>2, StockSame
      <4> QED BY <2>5, <3>2, <4>1
    <3> QED BY <3>1, <3>2
  <2>7. ASSUME NEW v \in Warehouse, depot[v] = "absent", NEW p \in Product
        PROVE  stock'[p][v] = stock[p][v]
    <3>1. v # job.warehouse BY <1>0, <1>1, <1>2, <2>7 DEF Placed
    <3> QED BY <2>5, <3>1
  <2> QED BY <2>2, <2>3, <2>6, <2>7, PlainBooked
<1> QED BY <1>1, <1>3, <1>4

------------------------

(* The posting of lines moves as much as the entry of the document changes. *)
LEMMA LinesBooked ==
  ASSUME TypeInv, TypeInv', BooksInv, NEW r \in Request, Moves(r), req'[r] = Idle, mode' = mode,
         Job(r).op \in DocOps, NEW d \in Doc, d = Job(r).doc,
         NEW to, to \notin {"ABSENT", "DRAFT"}, status' = [status EXCEPT ![d] = to],
         UNCHANGED <<plain, used, depot>>,
         \A x \in PurchaseOrder : x # d => received'[x] = received[x],
         d \in ManufacturingOrder => depot[Build[d].warehouse] # "absent",
         NEW w \in Warehouse, depot[w] # "absent", NEW lines, IsFiniteSet(DOMAIN lines),
         \A i \in DOMAIN lines : lines[i].quantity \in Int /\ lines[i].product \in Posts(d),
         NEW sign \in {1, -1}, stock' = Moved(w, lines, sign),
         d \notin clashed => \A p \in Product :
           Entry(d, p)' - Entry(d, p)
             = IF sign = 1 THEN QuantityOf(lines, p) ELSE 0 - QuantityOf(lines, p),
         ReceivedInv'
  PROVE  Booked(r)
<1>1. DOMAIN status = Doc /\ stock \in [Product -> [Warehouse -> Int]]
      /\ stock' \in [Product -> [Warehouse -> Int]] /\ clashed' = clashed
  BY DEF TypeInv, TablesTyped, DocsTyped, StockTyped, Moves, boundVars
<1>2. \A x \in Doc \ {d} : /\ status'[x] = status[x]
                           /\ x \in PurchaseOrder => received'[x] = received[x]
                           /\ x \in ManufacturingOrder => used'[x] = used[x]
  BY <1>1
<1>3. status'[d] = to BY <1>1
<1>4. ASSUME NEW p \in Product, Clear(p)'
      PROVE  InStock(p)' = InStock(p) + (Entry(d, p)' - Entry(d, p))
  <2>1. QuantityOf(lines, p) \in Int /\ InStock(p) \in Int BY QuantityInt, InStockInt
  <2>2. /\ sign = 1 => InStock(p)' = InStock(p) + QuantityOf(lines, p)
        /\ sign = -1 => InStock(p)' = InStock(p) - QuantityOf(lines, p)
    BY <1>1, MovedSum
  <2>3. CASE d \in clashed
    <3>1. p \notin Posts(d) /\ p \notin Posts(d)' BY <1>1, <1>4, <2>3 DEF Clear, Posts
    <3>2. Entry(d, p) = 0 /\ Entry(d, p)' = 0 BY <3>1, Entries, EntriesNext
    <3>3. \A i \in DOMAIN lines : lines[i].product # p BY <3>1
    <3>4. QuantityOf(lines, p) = 0 BY <3>3, QuantityInt
    <3> QED BY <2>1, <2>2, <3>2, <3>4
  <2>4. CASE d \notin clashed
    <3>1. Entry(d, p)' - Entry(d, p)
            = IF sign = 1 THEN QuantityOf(lines, p) ELSE 0 - QuantityOf(lines, p)
      BY <2>4
    <3> QED BY <2>1, <2>2, <3>1
  <2> QED BY <2>3, <2>4
<1>5. Somewhere
  <2>1. ASSUME NEW v \in Warehouse, depot'[v] = "absent", NEW p \in Product
        PROVE  stock'[p][v] = stock[p][v]
    <3>1. v # w BY <2>1
    <3>2. stock[p][v] \in Int BY <1>1
    <3>3. Moved(w, lines, sign)[p][v] = stock[p][v] + 0 BY <3>1 DEF Moved
    <3> QED BY <3>2, <3>3
  <2>2. ASSUME NEW m \in ManufacturingOrder, status'[m] # "ABSENT", status[m] = "ABSENT"
        PROVE  depot[Build[m].warehouse] # "absent"
    BY <1>2, <2>2 DEF Doc
  <2> QED BY <2>1, <2>2 DEF Somewhere
<1>6. UsedInv'
  <2> SUFFICES ASSUME NEW m \in ManufacturingOrder, m \notin clashed,
                      status'[m] \in {"ABSENT", "DRAFT"}
               PROVE  used[m] = {}
    BY <1>1 DEF UsedInv
  <2>1. status'[m] = status[m] BY <1>2, <1>3 DEF Doc
  <2> QED BY <2>1 DEF BooksInv, UsedInv
<1>7. UNCHANGED <<plain, depot>> OBVIOUS
<1>8. d \in ManufacturingOrder => used[d] \subseteq used'[d] OBVIOUS
<1> QED BY <1>2, <1>4, <1>5, <1>6, <1>7, <1>8, PostingBooked

(* A confirmed order leaves the warehouse it was summed at.                 *)
LEMMA ConfirmBooked ==
  ASSUME TypeInv, TypeInv', BooksInv, NEW r \in Request, mode' = mode, ConfirmSalesOrder(r)
  PROVE  Booked(r)
<1>1. /\ Job(r).op = "confirm" /\ Parsed(Job(r)) /\ req[r].at \in Steps /\ req[r] # Idle /\ Knows(r)
      /\ At(r, "confirm", "begun") \/ At(r, "confirm", "read") \/ At(r, "confirm", "summed")
  <2>1. At(r, "confirm", "begun") \/ At(r, "confirm", "read") \/ At(r, "confirm", "summed")
    BY DEF ConfirmSalesOrder
  <2> QED BY <2>1, AtWorks DEF Steps, Idle, Working
<1>2. PICK d : d = Job(r).doc OBVIOUS
<1>3. d \in SalesOrder /\ d \in Doc /\ Placed(r) /\ Ready(r) /\ Job(r).op \in DocOps
  BY <1>1, <1>2, AboutDocs DEF Parsed, BooksInv, Doc, DocOps
<1>4. CASE At(r, "confirm", "begun")
  <2>1. PICK ok : /\ IF ok THEN Advance(r, "read", <<Default>>) ELSE Finish(r)
                  /\ ok => status[d] = "DRAFT"
    BY <1>2, <1>4 DEF ConfirmSalesOrder, At, Check
  <2>2. UNCHANGED <<stockVars, docVars, adminVars, boundVars>>
    BY <1>4 DEF ConfirmSalesOrder, At, Check
  <2>3. ASSUME ok, req'[r].job = req[r].job, req'[r].at = "read", req'[r].saw = <<Default>>
        PROVE  Placed(r)' /\ Ready(r)'
    <3>1. depot' = depot /\ status' = status BY <2>2 DEF adminVars, docVars
    <3>2. \A w \in Default : depot[w] # "absent" BY DEF Default
    <3>3. req'[r].saw[1] = Default BY <2>3
    <3>4. Placed(r)' BY <1>1, <2>3, <3>1, <3>2, <3>3 DEF Placed, At, Job
    <3>5. Fresh(r)'
      BY <1>1, <1>2, <2>1, <2>3, <3>1 DEF Fresh, Job, CreatingOps, ForwardOps
    <3> QED BY <3>4, <3>5 DEF Ready
  <2> QED BY <1>1, <2>1, <2>2, <2>3, CheckBooked DEF Steps
<1>5. CASE At(r, "confirm", "read")
  <2>1. PICK w \in req[r].saw[1] : Check(r, EnoughStock(w, Lines[Job(r).doc]), "summed", <<w>>)
    BY <1>5 DEF ConfirmSalesOrder, At
  <2>2. PICK ok : IF ok THEN Advance(r, "summed", <<w>>) ELSE Finish(r)
    BY <2>1 DEF Check
  <2>3. UNCHANGED <<stockVars, docVars, adminVars, boundVars>> BY <2>1 DEF Check
  <2>4. depot[w] # "absent" BY <1>3, <1>5, <2>1 DEF Placed
  <2>5. ASSUME req'[r].job = req[r].job, req'[r].at = "summed", req'[r].saw = <<w>>
        PROVE  Placed(r)' /\ Ready(r)'
    <3>1. depot' = depot /\ status' = status /\ clashed' = clashed
      BY <2>3 DEF adminVars, docVars, boundVars
    <3>2. req'[r].saw[1] = w BY <2>5
    <3>3. Placed(r)' BY <1>1, <2>4, <2>5, <3>1, <3>2 DEF Placed, At, Job
    <3>4. d \in clashed \/ status[d] = "DRAFT"
      BY <1>1, <1>2, <1>3, <1>5 DEF Ready, Fresh, At, Job
    <3>5. d \in clashed \/ Fresh(r)'
      BY <1>1, <1>2, <2>5, <3>1, <3>4 DEF Fresh, Job, CreatingOps, ForwardOps
    <3> QED BY <1>2, <2>5, <3>1, <3>3, <3>5 DEF Ready, Job
  <2> QED BY <1>1, <2>2, <2>3, <2>5, CheckBooked DEF Steps
<1>6. CASE At(r, "confirm", "summed")
  <2>0. PICK w \in Warehouse : w = req[r].saw[1] /\ depot[w] # "absent"
    BY <1>1, <1>3, <1>6 DEF Knows, Placed
  <2>1. /\ status' = [status EXCEPT ![d] = "CONFIRMED"]
        /\ stock' = Moved(w, Lines[d], -1)
        /\ Commits(r)
        /\ UNCHANGED <<plain, received, lists, shipments, recipe, used, adminVars>>
    BY <1>2, <1>6, <2>0 DEF ConfirmSalesOrder, At
  <2>2. Moves(r) /\ req'[r] = Idle BY <1>1, <2>1, Committed DEF TypeInv
  <2>3. UNCHANGED <<plain, used, depot>> /\ received' = received BY <2>1 DEF adminVars
  <2>4. d \notin PurchaseOrder /\ d \notin ManufacturingOrder BY <1>3, DocAssumption
  <2>5. /\ IsFiniteSet(DOMAIN Lines[d])
        /\ \A i \in DOMAIN Lines[d] : Lines[d][i].quantity \in Int /\ Lines[d][i].product \in Posts(d)
    BY <1>3, <2>4, LinesTyped DEF Posts
  <2>6. DOMAIN status = Doc BY DEF TypeInv, TablesTyped, DocsTyped
  <2>7. ASSUME d \notin clashed, NEW p \in Product
        PROVE  Entry(d, p)' - Entry(d, p) = 0 - QuantityOf(Lines[d], p)
    <3>1. status[d] = "DRAFT" /\ status'[d] = "CONFIRMED"
      BY <1>1, <1>2, <1>3, <1>6, <2>1, <2>6, <2>7 DEF Ready, Fresh, At
    <3>2. Entry(d, p) = 0 /\ Entry(d, p)' = 0 - QuantityOf(Lines[d], p)
      BY <1>3, <3>1 DEF Entry, SoldOn
    <3>3. QuantityOf(Lines[d], p) \in Int BY <2>5, QuantityInt
    <3> QED BY <3>2, <3>3
  <2>8. ReceivedInv'
    <3>1. \A o \in PurchaseOrder : status'[o] = status[o] BY <2>1, <2>4, <2>6 DEF Doc
    <3> QED BY <2>3, <3>1 DEF BooksInv, ReceivedInv, ReceivedAsSaid
  <2>9. PICK lines, sign, to : lines = Lines[d] /\ sign = -1 /\ to = "CONFIRMED" OBVIOUS
  <2>10. /\ sign \in {1, -1} /\ to \notin {"ABSENT", "DRAFT"}
         /\ status' = [status EXCEPT ![d] = to] /\ stock' = Moved(w, lines, sign)
    BY <2>1, <2>9
  <2>11. d \notin clashed => \A p \in Product :
           Entry(d, p)' - Entry(d, p)
             = IF sign = 1 THEN QuantityOf(lines, p) ELSE 0 - QuantityOf(lines, p)
    BY <2>7, <2>9
  <2>12. /\ IsFiniteSet(DOMAIN lines)
         /\ \A i \in DOMAIN lines : lines[i].quantity \in Int /\ lines[i].product \in Posts(d)
    BY <2>5, <2>9
  <2> QED BY <1>2, <1>3, <2>0, <2>2, <2>3, <2>4, <2>8, <2>10, <2>11, <2>12, LinesBooked
<1> QED BY <1>1, <1>4, <1>5, <1>6

(* An approved return comes back to the default warehouse.                  *)
LEMMA ApproveBooked ==
  ASSUME TypeInv, TypeInv', BooksInv, NEW r \in Request, mode' = mode, mode = "database",
         ApproveSalesReturn(r)
  PROVE  Booked(r)
<1>1. /\ Job(r).op = "approve" /\ Parsed(Job(r)) /\ req[r].at \in Steps /\ req[r] # Idle /\ Knows(r)
      /\ At(r, "approve", "begun") \/ At(r, "approve", "read")
  <2>1. At(r, "approve", "begun") \/ At(r, "approve", "read") BY DEF ApproveSalesReturn
  <2> QED BY <2>1, AtWorks DEF Steps, Idle, Working
<1>2. PICK d : d = Job(r).doc OBVIOUS
<1>3. d \in SalesReturn /\ d \in Doc /\ Placed(r) /\ Ready(r) /\ Job(r).op \in DocOps
  BY <1>1, <1>2, AboutDocs DEF Parsed, BooksInv, Doc, DocOps
<1>4. CASE At(r, "approve", "begun")
  <2>1. PICK ok : /\ IF ok THEN Advance(r, "read", <<Default>>) ELSE Finish(r)
                  /\ ok => status[d] = "DRAFT"
    BY <1>2, <1>4 DEF ApproveSalesReturn, At, Check
  <2>2. UNCHANGED <<stockVars, docVars, adminVars, boundVars>>
    BY <1>4 DEF ApproveSalesReturn, At, Check
  <2>3. ASSUME ok, req'[r].job = req[r].job, req'[r].at = "read", req'[r].saw = <<Default>>
        PROVE  Placed(r)' /\ Ready(r)'
    <3>1. depot' = depot /\ status' = status BY <2>2 DEF adminVars, docVars
    <3>2. \A w \in Default : depot[w] # "absent" BY DEF Default
    <3>3. req'[r].saw[1] = Default BY <2>3
    <3>4. Placed(r)' BY <1>1, <2>3, <3>1, <3>2, <3>3 DEF Placed, At, Job
    <3>5. Fresh(r)'
      BY <1>1, <1>2, <2>1, <2>3, <3>1 DEF Fresh, Job, CreatingOps, ForwardOps
    <3> QED BY <3>4, <3>5 DEF Ready
  <2> QED BY <1>1, <2>1, <2>2, <2>3, CheckBooked DEF Steps
<1>5. CASE At(r, "approve", "read")
  <2>0. PICK w \in req[r].saw[1] : stock' = Moved(w, Lines[d], 1)
    BY <1>2, <1>5 DEF ApproveSalesReturn, At
  <2>1. /\ status' = [status EXCEPT ![d] = "COMPLETED"]
        /\ Commits(r)
        /\ UNCHANGED <<plain, received, lists, shipments, recipe, used, adminVars>>
    BY <1>2, <1>5 DEF ApproveSalesReturn, At
  <2>2. Moves(r) /\ req'[r] = Idle BY <1>1, <2>1, Committed DEF TypeInv
  <2>3. UNCHANGED <<plain, used, depot>> /\ received' = received BY <2>1 DEF adminVars
  <2>4. d \notin PurchaseOrder /\ d \notin ManufacturingOrder /\ d \notin SalesOrder
    BY <1>3, DocAssumption
  <2>5. /\ IsFiniteSet(DOMAIN Lines[d])
        /\ \A i \in DOMAIN Lines[d] : Lines[d][i].quantity \in Int /\ Lines[d][i].product \in Posts(d)
    BY <1>3, <2>4, LinesTyped DEF Posts
  <2>6. DOMAIN status = Doc BY DEF TypeInv, TablesTyped, DocsTyped
  <2>7. ASSUME d \notin clashed, NEW p \in Product
        PROVE  Entry(d, p)' - Entry(d, p) = QuantityOf(Lines[d], p)
    <3>1. status[d] = "DRAFT" /\ status'[d] = "COMPLETED"
      BY <1>1, <1>2, <1>3, <1>5, <2>1, <2>6, <2>7 DEF Ready, Fresh, At
    <3>2. Entry(d, p) = 0 /\ Entry(d, p)' = QuantityOf(Lines[d], p)
      BY <1>3, <2>4, <3>1 DEF Entry, ReturnedOn
    <3>3. QuantityOf(Lines[d], p) \in Int BY <2>5, QuantityInt
    <3> QED BY <3>2, <3>3
  <2>8. ReceivedInv'
    <3>1. \A o \in PurchaseOrder : status'[o] = status[o] BY <2>1, <2>4, <2>6 DEF Doc
    <3> QED BY <2>3, <3>1 DEF BooksInv, ReceivedInv, ReceivedAsSaid
  <2>9. PICK lines, sign, to : lines = Lines[d] /\ sign = 1 /\ to = "COMPLETED" OBVIOUS
  <2>10. /\ sign \in {1, -1} /\ to \notin {"ABSENT", "DRAFT"}
         /\ status' = [status EXCEPT ![d] = to] /\ stock' = Moved(w, lines, sign)
    BY <2>0, <2>1, <2>9
  <2>11. d \notin clashed => \A p \in Product :
           Entry(d, p)' - Entry(d, p)
             = IF sign = 1 THEN QuantityOf(lines, p) ELSE 0 - QuantityOf(lines, p)
    BY <2>7, <2>9
  <2>12. /\ IsFiniteSet(DOMAIN lines)
         /\ \A i \in DOMAIN lines : lines[i].quantity \in Int /\ lines[i].product \in Posts(d)
    BY <2>5, <2>9
  <2>13. w \in Warehouse /\ depot[w] # "absent"
    BY <1>1, <1>3, <1>5, <2>0 DEF Knows, Placed
  <2> QED BY <1>2, <1>3, <2>2, <2>3, <2>4, <2>8, <2>10, <2>11, <2>12, <2>13, LinesBooked
<1> QED BY <1>1, <1>4, <1>5

(* A receipt posts what was outstanding when the order was read.            *)
LEMMA ReceiveBooked ==
  ASSUME TypeInv, TypeInv', BooksInv, NEW r \in Request, mode' = mode, ReceivePurchaseOrder(r)
  PROVE  Booked(r)
<1>1. /\ Job(r).op = "receive" /\ Parsed(Job(r)) /\ req[r].at \in Steps /\ req[r] # Idle /\ Knows(r)
      /\ At(r, "receive", "begun") \/ At(r, "receive", "read")
  <2>1. At(r, "receive", "begun") \/ At(r, "receive", "read")
    BY DEF ReceivePurchaseOrder
  <2> QED BY <2>1, AtWorks DEF Steps, Idle, Working
<1>2. PICK d : d = Job(r).doc OBVIOUS
<1>3. d \in PurchaseOrder /\ d \in Doc /\ Placed(r) /\ Ready(r) /\ Job(r).op \in DocOps
  BY <1>1, <1>2, AboutDocs DEF Parsed, BooksInv, Doc, DocOps
<1>4. CASE At(r, "receive", "begun")
  <2>1. PICK ok : /\ IF ok THEN Advance(r, "read", <<Default, received[d]>>) ELSE Finish(r)
                  /\ ok => status[d] # "ABSENT"
    BY <1>2, <1>4 DEF ReceivePurchaseOrder, At, Check
  <2>2. UNCHANGED <<stockVars, docVars, adminVars, boundVars>>
    BY <1>4 DEF ReceivePurchaseOrder, At, Check
  <2>3. ASSUME ok, req'[r].job = req[r].job, req'[r].at = "read",
               req'[r].saw = <<Default, received[d]>>
        PROVE  Placed(r)' /\ Ready(r)'
    <3>1. depot' = depot /\ status' = status /\ received' = received
      BY <2>2 DEF adminVars, docVars
    <3>2. \A w \in Default : depot[w] # "absent" BY DEF Default
    <3>3. req'[r].saw[1] = Default /\ req'[r].saw[2] = received[d] BY <2>3
    <3>4. Placed(r)' BY <1>1, <2>3, <3>1, <3>2, <3>3 DEF Placed, At, Job
    <3>5. Fresh(r)'
      BY <1>1, <1>2, <2>1, <2>3, <3>1, <3>3 DEF Fresh, Job, CreatingOps, ForwardOps
    <3> QED BY <3>4, <3>5 DEF Ready
  <2> QED BY <1>1, <2>1, <2>2, <2>3, CheckBooked DEF Steps
<1>5. CASE At(r, "receive", "read")
  <2>g. PICK got : got = req[r].saw[2] OBVIOUS
  <2>0. PICK w \in req[r].saw[1] : stock' = Moved(w, Outstanding(d, got), 1)
    BY <1>2, <1>5, <2>g DEF ReceivePurchaseOrder, At
  <2>1. /\ received' = [received EXCEPT ![d] = AllOf(d)]
        /\ status' = [status EXCEPT ![d] = "COMPLETED"]
        /\ Commits(r)
        /\ UNCHANGED <<plain, lists, shipments, recipe, used, adminVars>>
    BY <1>2, <1>5 DEF ReceivePurchaseOrder, At, NowReceived
  <2>2. Moves(r) /\ req'[r] = Idle BY <1>1, <2>1, Committed DEF TypeInv
  <2>3. /\ UNCHANGED <<plain, used, depot>>
        /\ \A x \in PurchaseOrder : x # d => received'[x] = received[x]
    BY <2>1 DEF adminVars, TypeInv, TablesTyped, DocsTyped
  <2>4. d \notin SalesReturn /\ d \notin ManufacturingOrder /\ d \notin SalesOrder
    BY <1>3, DocAssumption
  <2>5. got \in Received(d) BY <1>1, <1>2, <1>5, <2>g DEF Knows
  <2>6. DOMAIN status = Doc /\ DOMAIN received = PurchaseOrder
    BY DEF TypeInv, TablesTyped, DocsTyped
  <2>7. received'[d] \in Received(d) /\ \A i \in DOMAIN Lines[d] : received'[d][i] = Lines[d][i].quantity
    <3>1. received'[d] = AllOf(d) BY <1>3, <2>1, <2>6
    <3>2. received'[d] \in Received(d) BY <1>3 DEF TypeInv, TablesTyped, DocsTyped
    <3> QED BY <3>1, <3>2 DEF AllOf
  <2>9. PICK lines, sign, to : lines = Outstanding(d, got) /\ sign = 1 /\ to = "COMPLETED"
    OBVIOUS
  <2>10. /\ sign \in {1, -1} /\ to \notin {"ABSENT", "DRAFT"}
         /\ status' = [status EXCEPT ![d] = to] /\ stock' = Moved(w, lines, sign)
    BY <2>0, <2>1, <2>9
  <2>12. /\ IsFiniteSet(DOMAIN lines)
         /\ \A i \in DOMAIN lines : lines[i].quantity \in Int /\ lines[i].product \in Posts(d)
    <3>1. /\ DOMAIN lines = DOMAIN Lines[d]
          /\ \A i \in DOMAIN lines : /\ lines[i].quantity = Lines[d][i].quantity - got[i]
                                     /\ lines[i].product = Lines[d][i].product
      BY <2>9 DEF Outstanding
    <3>2. /\ IsFiniteSet(DOMAIN Lines[d])
          /\ \A i \in DOMAIN Lines[d] : Lines[d][i].quantity \in Int /\ got[i] \in Int
      BY <1>3, <2>5, LinesTyped DEF Received
    <3>3. \A i \in DOMAIN Lines[d] : Lines[d][i].product \in Posts(d) BY <2>4 DEF Posts
    <3> QED BY <3>1, <3>2, <3>3
  <2>11. d \notin clashed => \A p \in Product :
           Entry(d, p)' - Entry(d, p)
             = IF sign = 1 THEN QuantityOf(lines, p) ELSE 0 - QuantityOf(lines, p)
    <3> SUFFICES ASSUME d \notin clashed, NEW p \in Product
                 PROVE  Entry(d, p)' - Entry(d, p) = QuantityOf(lines, p)
      BY <2>9
    <3>1. status[d] # "ABSENT" /\ status'[d] = "COMPLETED" /\ received[d] = got
      BY <1>1, <1>2, <1>3, <1>5, <2>1, <2>6, <2>g DEF Ready, Fresh, At
    <3>2. Entry(d, p) = QuantityOf(Lines[d], p) - QuantityOf(lines, p)
      BY <1>3, <2>4, <2>9, <3>1 DEF Entry, BoughtOn
    <3>3. Entry(d, p)' = QuantityOf(Lines[d], p) - QuantityOf(Outstanding(d, received'[d]), p)
      BY <1>3, <2>4, <3>1 DEF Entry, BoughtOn, QuantityOf, Outstanding
    <3>4. QuantityOf(Outstanding(d, received'[d]), p) = 0 BY <1>3, <2>7, OutstandingSums
    <3>5. QuantityOf(Lines[d], p) \in Int BY <1>3, LinesTyped, QuantityInt
    <3>6. QuantityOf(lines, p) \in Int BY <2>12, QuantityInt
    <3> QED BY <3>2, <3>3, <3>4, <3>5, <3>6
  <2>8. ReceivedInv'
    <3> SUFFICES ASSUME NEW o \in PurchaseOrder PROVE ReceivedAsSaid(o)'
      BY DEF ReceivedInv
    <3>1. CASE o = d
      <4>1. status'[o] = "COMPLETED" BY <1>3, <2>1, <2>6, <3>1
      <4> QED BY <2>7, <3>1, <4>1 DEF PurchaseStatus, ReceivedAsSaid
    <3>2. CASE o # d
      <4>1. status'[o] = status[o] /\ received'[o] = received[o]
        BY <2>1, <2>3, <2>6, <3>2 DEF Doc
      <4> QED BY <4>1 DEF BooksInv, ReceivedInv, ReceivedAsSaid
    <3> QED BY <3>1, <3>2
  <2>13. w \in Warehouse /\ depot[w] # "absent"
    BY <1>1, <1>3, <1>5, <2>0 DEF Knows, Placed
  <2> QED BY <1>2, <1>3, <2>2, <2>3, <2>4, <2>8, <2>10, <2>11, <2>12, <2>13, LinesBooked
<1> QED BY <1>1, <1>4, <1>5

(* Completed work adds what was made.                                       *)
LEMMA CompleteBooked ==
  ASSUME TypeInv, TypeInv', BooksInv, NEW r \in Request, mode' = mode,
         CompleteManufacturingOrder(r)
  PROVE  Booked(r)
<1>1. /\ Job(r).op = "complete" /\ Parsed(Job(r)) /\ req[r].at \in Steps /\ req[r] # Idle
      /\ At(r, "complete", "begun") \/ At(r, "complete", "read")
  <2>1. At(r, "complete", "begun") \/ At(r, "complete", "read")
    BY DEF CompleteManufacturingOrder
  <2> QED BY <2>1, AtWorks DEF Steps, Idle
<1>2. PICK d : d = Job(r).doc OBVIOUS
<1>3. d \in ManufacturingOrder /\ d \in Doc /\ Placed(r) /\ Ready(r) /\ Job(r).op \in DocOps
  BY <1>1, <1>2, AboutDocs DEF Parsed, BooksInv, Doc, DocOps
<1>4. CASE At(r, "complete", "begun")
  <2>1. PICK ok : /\ IF ok THEN Advance(r, "read", <<>>) ELSE Finish(r)
                  /\ ok => status[d] = "IN_PROGRESS"
    BY <1>2, <1>4 DEF CompleteManufacturingOrder, At, Check
  <2>2. UNCHANGED <<stockVars, docVars, adminVars, boundVars>>
    BY <1>4 DEF CompleteManufacturingOrder, At, Check
  <2>3. ASSUME ok, req'[r].job = req[r].job, req'[r].at = "read"
        PROVE  Placed(r)' /\ Ready(r)'
    <3>1. depot' = depot /\ status' = status BY <2>2 DEF adminVars, docVars
    <3>2. depot[Build[d].warehouse] # "absent"
      BY <1>3, <2>1, <2>3 DEF BooksInv, NothingNowhere
    <3>4. Placed(r)' BY <1>1, <1>2, <2>3, <3>1, <3>2 DEF Placed, At, Job
    <3>5. Fresh(r)'
      BY <1>1, <1>2, <2>1, <2>3, <3>1 DEF Fresh, Job, CreatingOps, ForwardOps
    <3> QED BY <3>4, <3>5 DEF Ready
  <2> QED BY <1>1, <2>1, <2>2, <2>3, CheckBooked DEF Steps
<1>5. CASE At(r, "complete", "read")
  <2>9. PICK lines, sign, to, w :
          /\ lines = <<[product |-> Build[d].product, quantity |-> Build[d].quantity]>>
          /\ sign = 1 /\ to = "COMPLETED" /\ w = Build[d].warehouse
    OBVIOUS
  <2>1. /\ stock' = Moved(w, lines, sign)
        /\ status' = [status EXCEPT ![d] = to]
        /\ Commits(r)
        /\ UNCHANGED <<plain, received, lists, shipments, recipe, used, adminVars>>
    BY <1>2, <1>5, <2>9 DEF CompleteManufacturingOrder, At
  <2>2. Moves(r) /\ req'[r] = Idle BY <1>1, <2>1, Committed DEF TypeInv
  <2>3. UNCHANGED <<plain, used, depot>> /\ received' = received BY <2>1 DEF adminVars
  <2>4. d \notin SalesReturn /\ d \notin PurchaseOrder /\ d \notin SalesOrder
    BY <1>3, DocAssumption
  <2>5. Build[d].product \in Product /\ Build[d].quantity \in Int /\ w \in Warehouse
    BY <1>3, <2>9, BuildAssumption
  <2>6. DOMAIN status = Doc BY DEF TypeInv, TablesTyped, DocsTyped
  <2>7. /\ DOMAIN lines = {1} /\ lines[1].product = Build[d].product
        /\ lines[1].quantity = Build[d].quantity
    BY <2>9
  <2>8. ReceivedInv'
    <3>1. \A o \in PurchaseOrder : status'[o] = status[o] BY <2>1, <2>4, <2>6 DEF Doc
    <3> QED BY <2>3, <3>1 DEF BooksInv, ReceivedInv, ReceivedAsSaid
  <2>10. depot[w] # "absent" /\ depot[Build[d].warehouse] # "absent"
    BY <1>2, <1>3, <1>5, <2>9 DEF Placed
  <2>12. /\ IsFiniteSet(DOMAIN lines)
         /\ \A i \in DOMAIN lines : lines[i].quantity \in Int /\ lines[i].product \in Posts(d)
    <3>1. IsFiniteSet({1}) BY FS_Singleton
    <3>2. Build[d].product \in Posts(d) BY <1>3 DEF Posts
    <3> QED BY <2>5, <2>7, <3>1, <3>2
  <2>11. d \notin clashed => \A p \in Product :
           Entry(d, p)' - Entry(d, p)
             = IF sign = 1 THEN QuantityOf(lines, p) ELSE 0 - QuantityOf(lines, p)
    <3> SUFFICES ASSUME d \notin clashed, NEW p \in Product
                 PROVE  Entry(d, p)' - Entry(d, p) = QuantityOf(lines, p)
      BY <2>9
    <3>1. status[d] = "IN_PROGRESS" /\ status'[d] = "COMPLETED" /\ used'[d] = used[d]
      BY <1>1, <1>2, <1>3, <1>5, <2>1, <2>6, <2>9 DEF Ready, Fresh, At
    <3>2. /\ Entry(d, p) = MadeOn(d, p) - TakenFor(d, p)
          /\ Entry(d, p)' = MadeOn(d, p)' - TakenFor(d, p)'
      BY <1>3, <2>4 DEF Entry, BuiltOn
    <3>3. TakenFor(d, p)' = TakenFor(d, p) /\ TakenFor(d, p) \in Int
      BY <1>3, <3>1, Entries DEF TakenFor
    <3>4. /\ MadeOn(d, p) = 0
          /\ MadeOn(d, p)' = IF Build[d].product = p THEN Build[d].quantity ELSE 0
      BY <3>1 DEF MadeOn
    <3>5. QuantityOf(lines, p) = IF Build[d].product = p THEN Build[d].quantity ELSE 0
      <4>1. CASE Build[d].product = p
        <5>1. \A i \in DOMAIN lines :
                 lines[i].product = p /\ \A j \in DOMAIN lines : lines[j].product = p => i = j
          BY <2>7, <4>1
        <5>2. \A i \in DOMAIN lines : lines[i].quantity \in Int BY <2>12
        <5>3. QuantityOf(lines, p) = lines[1].quantity
          BY <2>7, <2>12, <5>1, <5>2, QuantityInt
        <5> QED BY <2>7, <4>1, <5>3
      <4>2. CASE Build[d].product # p
        <5>1. \A i \in DOMAIN lines : lines[i].product # p BY <2>7, <4>2
        <5>2. \A i \in DOMAIN lines : lines[i].quantity \in Int BY <2>12
        <5> QED BY <2>12, <4>2, <5>1, <5>2, QuantityInt
      <4> QED BY <4>1, <4>2
    <3> QED BY <2>5, <3>2, <3>3, <3>4, <3>5
  <2>13. to \notin {"ABSENT", "DRAFT"} /\ sign \in {1, -1} BY <2>9
  <2> QED BY <1>2, <1>3, <2>1, <2>2, <2>3, <2>5, <2>8, <2>10, <2>11, <2>12, <2>13, LinesBooked
<1> QED BY <1>1, <1>4, <1>5

(* Started work takes the components that were read with the bill.          *)
LEMMA StartBooked ==
  ASSUME TypeInv, TypeInv', BooksInv, NEW r \in Request, mode' = mode, StartManufacturingOrder(r)
  PROVE  Booked(r)
<1>1. /\ Job(r).op = "start" /\ Parsed(Job(r)) /\ req[r].at \in Steps /\ req[r] # Idle /\ Knows(r)
      /\ At(r, "start", "begun") \/ At(r, "start", "consumed")
  <2>1. At(r, "start", "begun") \/ At(r, "start", "consumed")
    BY DEF StartManufacturingOrder
  <2> QED BY <2>1, AtWorks DEF Steps, Idle, Working
<1>2. PICK d : d = Job(r).doc OBVIOUS
<1>3. d \in ManufacturingOrder /\ d \in Doc /\ Placed(r) /\ Ready(r) /\ Job(r).op \in DocOps
  BY <1>1, <1>2, AboutDocs DEF Parsed, BooksInv, Doc, DocOps
<1>4. CASE At(r, "start", "begun")
  <2>1. PICK ok, saw : /\ IF ok THEN Advance(r, "consumed", saw) ELSE Finish(r)
                       /\ ok => status[d] = "DRAFT"
    BY <1>2, <1>4 DEF StartManufacturingOrder, At, Check
  <2>2. UNCHANGED <<stockVars, docVars, adminVars, boundVars>>
    BY <1>4 DEF StartManufacturingOrder, At, Check
  <2>3. ASSUME ok, req'[r].job = req[r].job, req'[r].at = "consumed"
        PROVE  Placed(r)' /\ Ready(r)'
    <3>1. depot' = depot /\ status' = status BY <2>2 DEF adminVars, docVars
    <3>2. depot[Build[d].warehouse] # "absent"
      BY <1>3, <2>1, <2>3 DEF BooksInv, NothingNowhere
    <3>4. Placed(r)' BY <1>1, <1>2, <2>3, <3>1, <3>2 DEF Placed, At, Job
    <3>5. Fresh(r)'
      BY <1>1, <1>2, <2>1, <2>3, <3>1 DEF Fresh, Job, CreatingOps, ForwardOps
    <3> QED BY <3>4, <3>5 DEF Ready
  <2> QED BY <1>1, <2>1, <2>2, <2>3, CheckBooked DEF Steps
<1>5. CASE At(r, "start", "consumed")
  <2>9. PICK parts, w, n : parts = req[r].saw[1] /\ w = Build[d].warehouse /\ n = Build[d].quantity
    OBVIOUS
  <2>1. /\ stock' = [p \in Product |-> [stock[p] EXCEPT ![w] = @ - Needed(parts, p, n)]]
        /\ status' = [status EXCEPT ![d] = "IN_PROGRESS"]
        /\ used' = [used EXCEPT ![d] = @ \cup parts]
        /\ Commits(r)
        /\ UNCHANGED <<plain, received, lists, shipments, recipe, adminVars>>
    BY <1>2, <1>5, <2>9 DEF StartManufacturingOrder, At
  <2>2. Moves(r) /\ req'[r] = Idle BY <1>1, <2>1, Committed DEF TypeInv
  <2>3. UNCHANGED <<plain, depot>> /\ received' = received BY <2>1 DEF adminVars
  <2>4. d \notin SalesReturn /\ d \notin PurchaseOrder /\ d \notin SalesOrder
    BY <1>3, DocAssumption
  <2>5. n \in Int /\ w \in Warehouse /\ parts \in ComponentRows
    BY <1>1, <1>3, <1>5, <2>9, BuildAssumption DEF Knows
  <2>6. /\ DOMAIN status = Doc /\ DOMAIN used = ManufacturingOrder
        /\ stock \in [Product -> [Warehouse -> Int]] /\ stock' \in [Product -> [Warehouse -> Int]]
    BY DEF TypeInv, TablesTyped, DocsTyped, StockTyped
  <2>7. /\ status'[d] = "IN_PROGRESS" /\ used'[d] = used[d] \cup parts
        /\ \A x \in Doc \ {d} : /\ status'[x] = status[x]
                                /\ x \in PurchaseOrder => received'[x] = received[x]
                                /\ x \in ManufacturingOrder => used'[x] = used[x]
    BY <1>3, <2>1, <2>3, <2>6
  <2>8. ReceivedInv'
    <3>1. \A o \in PurchaseOrder : status'[o] = status[o] BY <2>4, <2>7 DEF Doc
    <3> QED BY <2>3, <3>1 DEF BooksInv, ReceivedInv, ReceivedAsSaid
  <2>10. depot[w] # "absent" BY <1>2, <1>3, <1>5, <2>9 DEF Placed
  <2>11. clashed' = clashed BY <2>2 DEF Moves, boundVars
  <2>12. UsedInv'
    <3> SUFFICES ASSUME NEW m \in ManufacturingOrder, m \notin clashed,
                        status'[m] \in {"ABSENT", "DRAFT"}
                 PROVE  used'[m] = {}
      BY <2>11 DEF UsedInv
    <3>1. m # d BY <2>7
    <3> QED BY <2>7, <3>1 DEF BooksInv, UsedInv, Doc
  <2>13. Somewhere
    <3>1. ASSUME NEW v \in Warehouse, depot'[v] = "absent", NEW p \in Product
          PROVE  stock'[p][v] = stock[p][v]
      <4>1. v # w BY <2>3, <2>10, <3>1
      <4> QED BY <2>1, <2>6, <4>1
    <3>2. ASSUME NEW m \in ManufacturingOrder, status'[m] # "ABSENT", status[m] = "ABSENT"
          PROVE  depot[Build[m].warehouse] # "absent"
      BY <2>7, <2>9, <2>10, <3>2 DEF Doc
    <3> QED BY <3>1, <3>2 DEF Somewhere
  <2>14. ASSUME NEW p \in Product, Clear(p)'
         PROVE  InStock(p)' = InStock(p) + (Entry(d, p)' - Entry(d, p))
    <3>1. PICK k \in Int : k = Needed(parts, p, n) BY <2>5, NeededInt
    <3>2. InStock(p)' = InStock(p) - k
      <4>1. /\ \A v \in Warehouse \ {w} : stock'[p][v] = stock[p][v]
            /\ stock'[p][w] = stock[p][w] + (0 - k)
        BY <2>1, <2>5, <2>6, <3>1
      <4>2. 0 - k \in Int OBVIOUS
      <4>3. InStock(p)' = InStock(p) + (0 - k) BY <2>5, <2>6, <4>1, <4>2, StockChange
      <4>4. InStock(p) \in Int BY InStockInt
      <4> QED BY <4>3, <4>4
    <3>3. CASE d \in clashed
      <4>1. p \notin Posts(d)' BY <1>3, <2>11, <2>14, <3>3 DEF Clear
      <4>2. p \notin Posts(d) /\ \A c \in parts : c.product # p
        BY <1>3, <2>7, <4>1 DEF Posts
      <4>3. Entry(d, p) = 0 /\ Entry(d, p)' = 0
        BY <1>3, <4>1, <4>2, Entries, EntriesNext
      <4>4. k = 0 BY <2>5, <3>1, <4>2, NeededNone
      <4>5. InStock(p) \in Int BY InStockInt
      <4> QED BY <3>2, <4>3, <4>4, <4>5
    <3>4. CASE d \notin clashed
      <4>1. status[d] = "DRAFT" BY <1>1, <1>2, <1>3, <1>5, <3>4 DEF Ready, Fresh, At
      <4>2. used[d] = {} BY <1>3, <3>4, <4>1 DEF BooksInv, UsedInv
      <4>3. used'[d] = parts BY <2>7, <4>2
      <4>4. Entry(d, p) = 0 BY <1>3, <2>4, <4>1 DEF Entry, BuiltOn, MadeOn, TakenFor
      <4>5. Entry(d, p)' = 0 - Needed(used'[d], p, n)
        BY <1>3, <2>4, <2>7, <2>9 DEF Entry, BuiltOn, MadeOn, TakenFor, Needed
      <4>6. Entry(d, p)' = 0 - k BY <3>1, <4>3, <4>5
      <4>7. InStock(p) \in Int BY InStockInt
      <4> QED BY <3>2, <4>4, <4>6, <4>7
    <3> QED BY <3>3, <3>4
  <2>15. used[d] \subseteq used'[d] BY <2>7
  <2> QED BY <1>2, <1>3, <2>2, <2>3, <2>7, <2>8, <2>12, <2>13, <2>14, <2>15, PostingBooked
<1> QED BY <1>1, <1>4, <1>5

(* The requests that are about no document and no stock. *)
LEMMA QuietBooked ==
  ASSUME TypeInv, BooksInv, NEW r \in Request, Moves(r), mode' = mode,
         NEW op, op \notin DocOps \cup {"movement", "transfer", "count"}, Job(r).op = op,
         \/ UNCHANGED <<stockVars, docVars, depot>>
         \/ UNCHANGED <<stockVars, status, received, used, depot>>
         \/ UNCHANGED <<stockVars, docVars>> /\ \A w \in Warehouse :
              depot[w] # "absent" => depot'[w] # "absent"
  PROVE  Booked(r)
<1>1. /\ UNCHANGED <<stock, plain, status, received, used>>
      /\ \A w \in Warehouse : depot[w] # "absent" => depot'[w] # "absent"
  BY DEF stockVars, docVars
<1> QED BY <1>1, ElsewhereBooked

(* The catalogue has no part in the books.                                  *)
LEMMA CatalogueBooked ==
  ASSUME TypeInv, BooksInv, NEW r \in Request, Moves(r), mode' = mode,
         Catalogues(r)
  PROVE  Booked(r)
<1>1. \E op \in Keeping : Job(r).op = op /\ UNCHANGED <<stockVars, docVars, depot>>
  <2>1. \A op, step, table : InsertsAt(r, op, step, table) \/ Inserts(r, op, table)
                                           \/ Rewrites(r, op, table) \/ Deletes(r, op, table)
          => Job(r).op = op /\ UNCHANGED <<stockVars, docVars, depot>>
    BY DEF InsertsAt, Inserts, Rewrites, Deletes, At, Job, Check, adminVars
  <2>2. CASE CreateProduct(r) \/ UpdateProduct(r) \/ CreateSupplier(r) \/ UpdateSupplier(r)
             \/ CreateCustomer(r) \/ CreateVariant(r) \/ UpdateVariant(r) \/ DeleteVariant(r)
             \/ CreateBom(r) \/ CreateWebhookSubscription(r) \/ UpdateWebhookSubscription(r)
             \/ DeleteCustomerPriceTier(r) \/ UpsertCustomField(r)
    BY <2>1, <2>2 DEF CreateProduct, UpdateProduct, CreateSupplier, UpdateSupplier, CreateCustomer,
         CreateVariant, UpdateVariant, DeleteVariant, CreateBom, CreateWebhookSubscription,
         UpdateWebhookSubscription, DeleteCustomerPriceTier, UpsertCustomField,
         Keeping, CatalogueOps
  <2>3. CASE ApiCreateProduct(r) \/ ApiUpdateProduct(r)
             \/ UpdateProductVariant(r) \/ DeleteProductVariant(r)
             \/ ApiCreateSupplier(r) \/ ApiUpdateSupplier(r)
             \/ ApiCreateCustomer(r) \/ UpdateCustomer(r)
    BY <2>1, <2>3 DEF ApiCreateProduct, ApiUpdateProduct, UpdateProductVariant,
         DeleteProductVariant, ApiCreateSupplier, ApiUpdateSupplier, ApiCreateCustomer,
         UpdateCustomer, Keeping, CatalogueOps
  <2>4. CASE UpsertCustomerPriceTier(r)
    BY <2>4 DEF UpsertCustomerPriceTier, At, Job, Check, adminVars, Keeping, CatalogueOps
  <2>5. CASE UpdateOrganizationSettings(r)
    BY <2>5 DEF UpdateOrganizationSettings, At, Job, Keeping, CatalogueOps
  <2>6. CASE RefreshExchangeRates(r)
    BY <2>1, <2>6 DEF RefreshExchangeRates, At, Job, Check, adminVars, Keeping, CatalogueOps
  <2>7. CASE CreateProductVariant(r)
    BY <2>1, <2>7 DEF CreateProductVariant, At, Job, Check, adminVars, Keeping, CatalogueOps
  <2>8. CASE CreateCustomerPriceTier(r)
    BY <2>1, <2>8 DEF CreateCustomerPriceTier, At, Job, Check, adminVars, Keeping, CatalogueOps
  <2> QED BY <2>2, <2>3, <2>4, <2>5, <2>6, <2>7, <2>8 DEF Catalogues
<1>2. \A op \in Keeping : op \notin DocOps \cup {"movement", "transfer", "count"}
  BY DEF Keeping, CatalogueOps, DocOps, CreatingOps, ForwardOps
<1> QED BY <1>1, <1>2, QuietBooked

(* Nor have warehouses, members, invoices, bills and pick lists.            *)
LEMMA AsideBooked ==
  ASSUME TypeInv, BooksInv, NEW r \in Request, Moves(r), mode' = mode,
         \/ CreateWarehouse(r) \/ UpdateWarehouse(r) \/ ApiCreateWarehouse(r) \/ ApiUpdateWarehouse(r)
         \/ CreateUser(r) \/ UpdateUserRole(r) \/ DeleteUser(r)
         \/ SetProductActive(r) \/ DeactivateProduct(r)
         \/ CreateInvoice(r) \/ RecordPayment(r) \/ TransitionInvoiceStatus(r)
         \/ UpdateBom(r) \/ UpdatePickListItem(r)
  PROVE  Booked(r)
<1>1. CASE CreateWarehouse(r) \/ UpdateWarehouse(r) \/ ApiCreateWarehouse(r) \/ ApiUpdateWarehouse(r)
  <2>1. PICK op \in {"createWarehouse", "updateWarehouse", "apiCreateWarehouse",
                     "apiUpdateWarehouse"} : OpensWarehouse(r, op) \/ ChangesWarehouse(r, op)
    BY <1>1 DEF CreateWarehouse, UpdateWarehouse, ApiCreateWarehouse, ApiUpdateWarehouse
  <2>2. Job(r).op = op /\ UNCHANGED <<stockVars, docVars>>
    BY <2>1 DEF OpensWarehouse, ChangesWarehouse, At, Job, Check
  <2>3. DOMAIN depot = Warehouse BY DEF TypeInv, TablesTyped, AdminTyped
  <2>4. \A w \in Warehouse : depot[w] # "absent" => depot'[w] # "absent"
    BY <2>1, <2>3 DEF OpensWarehouse, ChangesWarehouse, Check, adminVars
  <2>5. op \notin DocOps \cup {"movement", "transfer", "count"}
    BY DEF DocOps, CreatingOps, ForwardOps
  <2> QED BY <2>2, <2>4, <2>5, QuietBooked
<1>2. CASE \/ CreateUser(r) \/ UpdateUserRole(r) \/ DeleteUser(r)
           \/ SetProductActive(r) \/ DeactivateProduct(r)
           \/ CreateInvoice(r) \/ RecordPayment(r) \/ TransitionInvoiceStatus(r)
  <2>1. PICK op \in {"createUser", "updateRole", "deleteUser", "setActive", "apiDeactivate",
                     "createInvoice", "pay", "transition"} :
          Job(r).op = op /\ UNCHANGED <<stockVars, docVars, depot>>
    BY <1>2 DEF CreateUser, UpdateUserRole, DeleteUser, SetProductActive, DeactivateProduct,
         CreateInvoice, RecordPayment, TransitionInvoiceStatus, At, Job, Check, adminVars
  <2>2. op \notin DocOps \cup {"movement", "transfer", "count"}
    BY DEF DocOps, CreatingOps, ForwardOps
  <2> QED BY <2>1, <2>2, QuietBooked
<1>3. CASE UpdateBom(r) \/ UpdatePickListItem(r)
  <2>1. PICK op \in {"updateBom", "pick"} :
          Job(r).op = op /\ UNCHANGED <<stockVars, status, received, used, depot>>
    BY <1>3 DEF UpdateBom, UpdatePickListItem, At, Job, Check, adminVars, docVars
  <2>2. op \notin DocOps \cup {"movement", "transfer", "count"}
    BY DEF DocOps, CreatingOps, ForwardOps
  <2> QED BY <2>1, <2>2, QuietBooked
<1> QED BY <1>1, <1>2, <1>3

(* Every step of a request in database mode.                                *)
LEMMA ServedBooked ==
  ASSUME TypeInv, TypeInv', BooksInv, mode = "database", mode' = mode,
         NEW r \in Request, Handle(r) \/ Serve(r) \/ Fail(r)
  PROVE  Booked(r)
<1>1. Moves(r) BY RequestsKept DEF Outcome
<1>2. CASE Fail(r)
  <2>1. Finish(r) /\ UNCHANGED <<stockVars, docVars, adminVars, boundVars>>
    BY <1>2 DEF Fail
  <2>2. req'[r] = Idle BY <2>1 DEF Finish, TypeInv, RequestsTyped
  <2>3. UNCHANGED <<stock, plain, status, received, used, depot>>
    BY <2>1 DEF stockVars, docVars, adminVars
  <2> QED BY <1>1, <2>2, <2>3, QuietStep
<1>3. CASE Serve(r)
  <2>1. CASE Catalogues(r) BY <1>1, <2>1, CatalogueBooked
  <2>2. CASE ApiCreateWarehouse(r) \/ ApiUpdateWarehouse(r) \/ DeactivateProduct(r)
    BY <1>1, <2>2, AsideBooked
  <2>3. CASE Numbers(r) BY <2>3, CreatingBooked
  <2> QED BY <1>3, <2>1, <2>2, <2>3 DEF Serve, Catalogues, Numbers
<1>4. CASE Handle(r)
  <2>1. CASE Catalogues(r) BY <1>1, <2>1, CatalogueBooked
  <2>2. CASE \/ CreateWarehouse(r) \/ UpdateWarehouse(r) \/ SetProductActive(r)
             \/ CreateUser(r) \/ UpdateUserRole(r) \/ DeleteUser(r)
             \/ CreateInvoice(r) \/ RecordPayment(r) \/ TransitionInvoiceStatus(r)
             \/ UpdateBom(r) \/ UpdatePickListItem(r)
    BY <1>1, <2>2, AsideBooked
  <2>3. CASE Numbers(r) BY <2>3, CreatingBooked
  <2>4. CASE StartPicking(r) \/ PackOrder(r) \/ ShipOrder(r) \/ DeliverOrder(r)
    BY <2>4, ForwardBooked
  <2>5. CASE CreateStockMovement(r) \/ CreateStockTransfer(r) \/ RecordStocktakeCount(r)
    BY <2>5, MovementBooked, TransferBooked, CountBooked
  <2>6. CASE \/ ReceivePurchaseOrder(r) \/ StartManufacturingOrder(r)
             \/ CompleteManufacturingOrder(r) \/ ConfirmSalesOrder(r) \/ ApproveSalesReturn(r)
    BY <2>6, ReceiveBooked, StartBooked, CompleteBooked, ConfirmBooked, ApproveBooked
  <2> QED BY <1>4, <2>1, <2>2, <2>3, <2>4, <2>5, <2>6 DEF Handle, Catalogues, Numbers
<1> QED BY <1>2, <1>3, <1>4

(* A request that begins has read nothing; one that it overlaps is noted.   *)
LEMMA BegunBooks ==
  ASSUME OfficeInv, BooksInv, mode = "database", mode' = mode, NEW r \in Request,
         Begin(r) \/ Route(r)
  PROVE  BooksInv'
<1>1. PICK job : (Offered(job) \/ Routed(job)) /\ Enters(r, job) BY DEF Begin, Route
<1>2. UNCHANGED <<stockVars, docVars, adminVars>> BY DEF Begin, Route
<1>3. DOMAIN req = Request BY DEF OfficeInv, TypeInv, RequestsTyped
<1>4. /\ req'[r].job = job /\ req'[r].at = "begun"
      /\ \A q \in Request \ {r} : req'[q] = req[q]
      /\ clashed \subseteq clashed'
  BY <1>1, <1>3 DEF Enters
<1>5. UNCHANGED <<stock, plain, status, received, used, depot>>
  BY <1>2 DEF stockVars, docVars, adminVars
<1>6. Placed(r)' /\ Ready(r)'
  <2>1. Offered(job) \/ job.op \notin {"movement", "transfer", "count", "createBuild"}
    BY <1>1 DEF Routed, ProductsController, VariantsController, SuppliersController,
         CustomersController, StockController, SalesOrdersController, PurchaseOrdersController,
         SalesReturnsController, CreditNotesController, PortalController
  <2>2. Placed(r)' BY <1>4, <1>5, <2>1 DEF Placed, Offered, At, Job
  <2> QED BY <1>4, <2>2 DEF Ready
<1>7. ASSUME NEW q \in Request, q # r, req[q] # Idle PROVE Placed(q)' /\ Ready(q)'
  <2>1. Placed(q) /\ Ready(q) /\ req'[q] = req[q] BY <1>4, <1>7 DEF BooksInv
  <2>2. Placed(q)' BY <1>5, <2>1 DEF Placed, At, Job
  <2>3. Ready(q)' BY <1>4, <1>5, <2>1 DEF Ready, Fresh, At, Job
  <2> QED BY <2>2, <2>3
<1>8. Balanced'
  <2> SUFFICES ASSUME NEW p \in Product, Clear(p)' PROVE InStock(p)' = plain'[p] + OnBooks(p)'
    BY DEF Balanced
  <2>1. Clear(p) BY <1>4, <1>5, ClearStays
  <2>2. InStock(p) = plain[p] + OnBooks(p) BY <2>1 DEF BooksInv, Balanced
  <2>3. InStock(p)' = InStock(p) /\ OnBooks(p)' = OnBooks(p)
    BY <1>5 DEF InStock, OnBooks, SoldOn, BoughtOn, ReturnedOn, BuiltOn, MadeOn, TakenFor
  <2> QED BY <1>5, <2>2, <2>3
<1>9. NothingNowhere' /\ ReceivedInv' /\ UsedInv'
  BY <1>4, <1>5 DEF BooksInv, NothingNowhere, ReceivedInv, ReceivedAsSaid, UsedInv
<1>10. \A q \in Request : req'[q] # Idle => Placed(q)' /\ Ready(q)' BY <1>4, <1>6, <1>7
<1> QED BY <1>8, <1>9, <1>10 DEF BooksInv

(* A step that changes nothing.                                             *)
LEMMA StutterBooks ==
  ASSUME BooksInv, UNCHANGED allVars
  PROVE  BooksInv'
<1>1. UNCHANGED <<stock, plain, status, received, used, depot, req, clashed, mode>>
  BY DEF allVars, vars, stockVars, docVars, adminVars, boundVars
<1>2. \A p \in Product : InStock(p)' = InStock(p) /\ OnBooks(p)' = OnBooks(p)
  BY <1>1 DEF InStock, OnBooks, SoldOn, BoughtOn, ReturnedOn, BuiltOn, MadeOn, TakenFor
<1>3. Balanced'
  <2> SUFFICES ASSUME NEW p \in Product, Clear(p)' PROVE InStock(p)' = plain'[p] + OnBooks(p)'
    BY DEF Balanced
  <2>1. Clear(p) BY <1>1 DEF Clear, Posts
  <2> QED BY <1>1, <1>2, <2>1 DEF BooksInv, Balanced
<1>4. NothingNowhere' /\ ReceivedInv' /\ UsedInv'
  BY <1>1 DEF BooksInv, NothingNowhere, ReceivedInv, ReceivedAsSaid, UsedInv
<1>5. ASSUME NEW q \in Request, req[q] # Idle PROVE Placed(q)' /\ Ready(q)'
  <2>1. Placed(q) /\ Ready(q) BY <1>5 DEF BooksInv
  <2>2. Placed(q)' BY <1>1, <2>1 DEF Placed, At, Job
  <2>3. Ready(q)' BY <1>1, <2>1 DEF Ready, Fresh, Job
  <2> QED BY <2>2, <2>3
<1> QED BY <1>1, <1>3, <1>4, <1>5 DEF BooksInv

------------------------
(* The demo store.  No request is under way there, and every product is     *)
(* clear.                                                                   *)
DemoBooked ==
  /\ \A p \in Product : StaysBalanced(p)
  /\ Forward /\ Somewhere /\ ReceivedInv' /\ UsedInv'

(* An operation of the store that is booked keeps the books.                *)
LEMMA DemoBooksServed ==
  ASSUME TypeInv, BooksInv, mode = "demo", mode' = mode, req' = req, clashed' = clashed, DemoBooked
  PROVE  BooksInv'
<1>1. clashed = {} /\ \A r \in Request : req[r] = Idle
  BY DEF BooksInv, TypeInv, BoundsTyped
<1>2. Forward /\ Somewhere /\ ReceivedInv' /\ UsedInv' /\ \A p \in Product : StaysBalanced(p)
  BY DEF DemoBooked
<1>3. Balanced'
  <2> SUFFICES ASSUME NEW p \in Product PROVE InStock(p)' = plain'[p] + OnBooks(p)'
    BY DEF Balanced
  <2>1. Clear(p) BY <1>1 DEF Clear
  <2> QED BY <1>2, <2>1 DEF StaysBalanced, BooksInv, Balanced
<1>4. NothingNowhere' BY <1>2, EmptyStays DEF BooksInv
<1> QED BY <1>1, <1>2, <1>3, <1>4 DEF BooksInv

(* Stock that moves without a document is noted. *)
LEMMA DemoUnposted ==
  ASSUME TypeInv, TypeInv', mode' = mode, UNCHANGED <<status, received, used>>, NEW p \in Product,
         plain'[p] = plain[p] + SumFunction([w \in Warehouse |-> stock'[p][w] - stock[p][w]])
  PROVE  StaysBalanced(p)
<1>1. PICK f : f = [w \in Warehouse |-> stock[p][w]] OBVIOUS
<1>2. PICK g : g = [w \in Warehouse |-> stock'[p][w]] OBVIOUS
<1>3. PICK h : h = [w \in Warehouse |-> stock'[p][w] - stock[p][w]] OBVIOUS
<1>4. \A w \in Warehouse : stock[p][w] \in Int /\ stock'[p][w] \in Int
  BY DEF TypeInv, TablesTyped, StockTyped
<1>5. \A w \in Warehouse : f[w] \in Int /\ g[w] \in Int /\ h[w] = g[w] - f[w]
  BY <1>1, <1>2, <1>3, <1>4
<1>6. IsFiniteSet(Warehouse) BY FiniteAssumption
<1>7. SumFunctionOnSet(h, Warehouse) = SumFunctionOnSet(g, Warehouse) - SumFunctionOnSet(f, Warehouse)
  BY <1>5, <1>6, SumMinus
<1>8. /\ InStock(p) = SumFunctionOnSet(f, Warehouse)
      /\ InStock(p)' = SumFunctionOnSet(g, Warehouse)
  BY <1>1, <1>2 DEF InStock, SumFunction
<1>9. plain'[p] = plain[p] + SumFunctionOnSet(h, Warehouse) BY <1>3 DEF SumFunction
<1>10. OnBooks(p)' = OnBooks(p)
  BY DEF OnBooks, SoldOn, BoughtOn, ReturnedOn, BuiltOn, MadeOn, TakenFor
<1>11. InStock(p) \in Int /\ InStock(p)' \in Int /\ OnBooks(p) \in Int /\ plain[p] \in Int
  BY InStockInt, InStockIntNext, BooksInt DEF TypeInv, TablesTyped, StockTyped
<1> QED BY <1>7, <1>8, <1>9, <1>10, <1>11 DEF StaysBalanced

(* An operation that posts as much as the entry of its document changes. *)
LEMMA DemoPosting ==
  ASSUME TypeInv, TypeInv', BooksInv, mode' = mode, NEW d \in Doc, UNCHANGED <<plain, depot>>,
         \A x \in Doc \ {d} : /\ status'[x] = status[x]
                              /\ x \in PurchaseOrder => received'[x] = received[x]
                              /\ x \in ManufacturingOrder => used'[x] = used[x],
         d \in ManufacturingOrder => used[d] \subseteq used'[d],
         \A p \in Product : InStock(p)' = InStock(p) + (Entry(d, p)' - Entry(d, p)),
         Somewhere, ReceivedInv', UsedInv'
  PROVE  DemoBooked
<1>1. ASSUME NEW p \in Product PROVE StaysBalanced(p)
  <2>1. \A x \in Doc \ {d} : Entry(x, p)' = Entry(x, p) BY EntrySame
  <2> QED BY <2>1, EntryBooked
<1>2. Forward BY DEF Forward, Doc
<1> QED BY <1>1, <1>2 DEF DemoBooked

(* The posting of lines. *)
LEMMA DemoLines ==
  ASSUME TypeInv, TypeInv', BooksInv, mode' = mode, clashed' = clashed, NEW d \in Doc,
         NEW to, to \notin {"ABSENT", "DRAFT"}, status' = [status EXCEPT ![d] = to],
         UNCHANGED <<plain, used, depot>>,
         \A x \in PurchaseOrder : x # d => received'[x] = received[x],
         d \in ManufacturingOrder => depot[Build[d].warehouse] # "absent",
         NEW w \in Warehouse, depot[w] # "absent", NEW lines, IsFiniteSet(DOMAIN lines),
         \A i \in DOMAIN lines : lines[i].quantity \in Int,
         NEW sign \in {1, -1}, stock' = Moved(w, lines, sign),
         \A p \in Product :
           Entry(d, p)' - Entry(d, p)
             = IF sign = 1 THEN QuantityOf(lines, p) ELSE 0 - QuantityOf(lines, p),
         ReceivedInv'
  PROVE  DemoBooked
<1>1. DOMAIN status = Doc /\ stock \in [Product -> [Warehouse -> Int]]
      /\ stock' \in [Product -> [Warehouse -> Int]]
  BY DEF TypeInv, TablesTyped, DocsTyped, StockTyped
<1>2. \A x \in Doc \ {d} : /\ status'[x] = status[x]
                           /\ x \in PurchaseOrder => received'[x] = received[x]
                           /\ x \in ManufacturingOrder => used'[x] = used[x]
  BY <1>1
<1>3. status'[d] = to BY <1>1
<1>4. ASSUME NEW p \in Product
      PROVE  InStock(p)' = InStock(p) + (Entry(d, p)' - Entry(d, p))
  <2>1. QuantityOf(lines, p) \in Int /\ InStock(p) \in Int BY QuantityInt, InStockInt
  <2>2. /\ sign = 1 => InStock(p)' = InStock(p) + QuantityOf(lines, p)
        /\ sign = -1 => InStock(p)' = InStock(p) - QuantityOf(lines, p)
    BY <1>1, MovedSum
  <2>3. Entry(d, p)' - Entry(d, p)
          = IF sign = 1 THEN QuantityOf(lines, p) ELSE 0 - QuantityOf(lines, p)
    OBVIOUS
  <2> QED BY <2>1, <2>2, <2>3
<1>5. Somewhere
  <2>1. ASSUME NEW v \in Warehouse, depot'[v] = "absent", NEW p \in Product
        PROVE  stock'[p][v] = stock[p][v]
    <3>1. v # w BY <2>1
    <3>2. stock[p][v] \in Int BY <1>1
    <3>3. Moved(w, lines, sign)[p][v] = stock[p][v] + 0 BY <3>1 DEF Moved
    <3> QED BY <3>2, <3>3
  <2>2. ASSUME NEW m \in ManufacturingOrder, status'[m] # "ABSENT", status[m] = "ABSENT"
        PROVE  depot[Build[m].warehouse] # "absent"
    BY <1>2, <2>2 DEF Doc
  <2> QED BY <2>1, <2>2 DEF Somewhere
<1>6. UsedInv'
  <2> SUFFICES ASSUME NEW m \in ManufacturingOrder, m \notin clashed,
                      status'[m] \in {"ABSENT", "DRAFT"}
               PROVE  used[m] = {}
    BY DEF UsedInv
  <2>1. status'[m] = status[m] BY <1>2, <1>3 DEF Doc
  <2> QED BY <2>1 DEF BooksInv, UsedInv
<1>7. d \in ManufacturingOrder => used[d] \subseteq used'[d] OBVIOUS
<1> QED BY <1>2, <1>4, <1>5, <1>6, <1>7, DemoPosting

(* What the store notes beside the tables. *)
LEMMA DemoNotes ==
  ASSUME TypeInv, NEW job, InDemoMode(job)
  PROVE  /\ job.op \notin {"movement", "count", "start"} => plain' = plain /\ used' = used
         /\ job.op = "start" /\ status' # status =>
              /\ plain' = plain
              /\ used' = [used EXCEPT ![job.doc] = recipe[Build[job.doc].product]]
         /\ job.op \in {"movement", "count"} \/ (job.op = "start" /\ status' = status) =>
              /\ used' = used
              /\ \A p \in Product : plain'[p] =
                   plain[p] + SumFunction([w \in Warehouse |-> stock'[p][w] - stock[p][w]])
         /\ req' = req /\ clashed' = clashed
<1>1. plain = [p \in Product |-> plain[p]] BY DEF TypeInv, TablesTyped, StockTyped
<1>2. plain' = [p \in Product |->
                 IF job.op \in {"movement", "count"} \/ (job.op = "start" /\ status' = status)
                 THEN plain[p] + SumFunction([w \in Warehouse |-> stock'[p][w] - stock[p][w]])
                 ELSE plain[p]]
  BY DEF InDemoMode
<1>3. /\ used' = IF job.op = "start" /\ status' # status
                 THEN [used EXCEPT ![job.doc] = recipe[Build[job.doc].product]] ELSE used
      /\ req' = req /\ clashed' = clashed
  BY DEF InDemoMode
<1>4. CASE job.op \in {"movement", "count"} \/ (job.op = "start" /\ status' = status)
  BY <1>2, <1>3, <1>4
<1>5. CASE ~ (job.op \in {"movement", "count"} \/ (job.op = "start" /\ status' = status))
  <2>1. plain' = [p \in Product |-> plain[p]] BY <1>2, <1>5
  <2>2. plain' = plain BY <1>1, <2>1
  <2> QED BY <1>3, <1>5, <2>2
<1> QED BY <1>4, <1>5

(* An operation that leaves the books alone is booked.                      *)
LEMMA DemoQuiet ==
  ASSUME TypeInv, BooksInv, mode' = mode, clashed' = clashed,
         UNCHANGED <<stock, plain, status, received, used>>,
         \A w \in Warehouse : depot[w] # "absent" => depot'[w] # "absent"
  PROVE  DemoBooked
<1>1. \A p \in Product : StaysBalanced(p)
  BY DEF StaysBalanced, InStock, OnBooks, SoldOn, BoughtOn, ReturnedOn, BuiltOn, MadeOn, TakenFor
<1>2. Forward /\ Somewhere BY DEF Forward, Somewhere
<1>3. ReceivedInv' /\ UsedInv' BY DEF BooksInv, ReceivedInv, ReceivedAsSaid, UsedInv
<1> QED BY <1>1, <1>2, <1>3 DEF DemoBooked

DemoAside(job) ==
  \/ Demo!CreateInvoice(job) \/ Demo!RecordDemoPayment(job)
  \/ Demo!TransitionDemoInvoiceStatus(job) \/ Demo!UpdateBom(job)
  \/ Demo!CreateWarehouse(job) \/ Demo!UpdateWarehouse(job)
  \/ Demo!CreateUser(job) \/ Demo!UpdateUserRole(job) \/ Demo!DeleteUser(job)
  \/ Demo!CreateProduct(job) \/ Demo!UpdateProduct(job) \/ Demo!SetProductActive(job)
  \/ Demo!CreateSupplier(job) \/ Demo!UpdateSupplier(job) \/ Demo!CreateCustomer(job)
  \/ Demo!CreateBom(job) \/ Demo!UpsertCustomField(job) \/ Demo!UpdateOrganizationSettings(job)
  \/ Demo!CreateWebhookSubscription(job) \/ Demo!UpdateWebhookSubscription(job)

(* The operations of the store that the books know nothing of.              *)
LEMMA DemoAsideBooked ==
  ASSUME TypeInv, BooksInv, mode' = mode, NEW job, Parsed(job), InDemoMode(job), DemoAside(job)
  PROVE  DemoBooked
<1>1. /\ job.op \notin {"movement", "count", "start"}
      /\ UNCHANGED <<stock, status, received>>
      /\ depot' = depot \/ Demo!CreateWarehouse(job) \/ Demo!UpdateWarehouse(job)
  <2>1. CASE \/ Demo!CreateInvoice(job) \/ Demo!RecordDemoPayment(job)
             \/ Demo!TransitionDemoInvoiceStatus(job) \/ Demo!UpdateBom(job)
             \/ Demo!SetProductActive(job)
    BY <2>1 DEF Demo!CreateInvoice, Demo!RecordDemoPayment, Demo!TransitionDemoInvoiceStatus,
         Demo!UpdateBom, Demo!SetProductActive
  <2>2. CASE Demo!CreateWarehouse(job) \/ Demo!UpdateWarehouse(job)
    BY <2>2 DEF Demo!CreateWarehouse, Demo!UpdateWarehouse
  <2>3. CASE Demo!CreateUser(job) \/ Demo!UpdateUserRole(job) \/ Demo!DeleteUser(job)
    BY <2>3 DEF Demo!CreateUser, Demo!UpdateUserRole, Demo!DeleteUser, Demo!SetsRole
  <2>4. CASE \/ Demo!CreateProduct(job) \/ Demo!UpdateProduct(job)
             \/ Demo!CreateSupplier(job) \/ Demo!UpdateSupplier(job) \/ Demo!CreateCustomer(job)
             \/ Demo!CreateBom(job) \/ Demo!UpsertCustomField(job)
    BY <2>4 DEF Demo!CreateProduct, Demo!UpdateProduct, Demo!CreateSupplier, Demo!UpdateSupplier,
         Demo!CreateCustomer, Demo!CreateBom, Demo!UpsertCustomField, Demo!Adds, Demo!Changes
  <2>5. CASE \/ Demo!UpdateOrganizationSettings(job) \/ Demo!CreateWebhookSubscription(job)
             \/ Demo!UpdateWebhookSubscription(job)
    BY <2>5 DEF Demo!UpdateOrganizationSettings, Demo!CreateWebhookSubscription,
         Demo!UpdateWebhookSubscription
  <2> QED BY <2>1, <2>2, <2>3, <2>4, <2>5 DEF DemoAside
<1>2. UNCHANGED <<plain, used, clashed>> BY <1>1, DemoNotes
<1>3. \A w \in Warehouse : depot[w] # "absent" => depot'[w] # "absent"
  <2>1. CASE Demo!CreateWarehouse(job) \/ Demo!UpdateWarehouse(job)
    BY <2>1, DemoTyped
       DEF Demo!CreateWarehouse, Demo!UpdateWarehouse, Demo!TakeDefaultFrom, AdminTyped
  <2> QED BY <1>1, <2>1
<1> QED BY <1>1, <1>2, <1>3, DemoQuiet

(* Only the status of a new document changes. *)
LEMMA DemoCreatingBooked ==
  ASSUME TypeInv, TypeInv', BooksInv, mode' = mode, NEW job, Parsed(job), InDemoMode(job),
         \/ Demo!CreateSalesOrder(job) \/ Demo!CreateCreditNote(job)
         \/ Demo!CreatePurchaseOrder(job) \/ Demo!CreateManufacturingOrder(job)
  PROVE  DemoBooked
<1>1. PICK d : d = job.doc OBVIOUS
<1>2. PICK to \in {"DRAFT", "SENT"} :
        /\ status[d] = "ABSENT" /\ status' = [status EXCEPT ![d] = to]
        /\ to = "SENT" => d \in PurchaseOrder
        /\ d \in Doc
        /\ d \in ManufacturingOrder => depot[Build[d].warehouse] # "absent"
  BY <1>1, DocAssumption DEF Demo!CreateSalesOrder, Demo!CreateCreditNote, Demo!CreatePurchaseOrder,
       Demo!CreateManufacturingOrder, Demo!Creates, Demo!SetsStatus, Doc
<1>3. /\ UNCHANGED <<stock, received, depot>>
      /\ job.op \notin {"movement", "count", "start"}
  BY DEF Demo!CreateSalesOrder, Demo!CreateCreditNote, Demo!CreatePurchaseOrder,
       Demo!CreateManufacturingOrder, Demo!Creates
<1>4. UNCHANGED <<plain, used, clashed>> BY <1>3, DemoNotes
<1>5. DOMAIN status = Doc BY DEF TypeInv, TablesTyped, DocsTyped
<1>6. status'[d] = to /\ \A x \in Doc \ {d} : status'[x] = status[x] BY <1>2, <1>5
<1>7. ASSUME NEW p \in Product PROVE InStock(p)' = InStock(p) + (Entry(d, p)' - Entry(d, p))
  <2>1. Entry(d, p)' = Entry(d, p) /\ Entry(d, p) \in Int
    <3>1. ReceivedInv BY DEF BooksInv
    <3>2. status'[d] = "SENT" => d \in PurchaseOrder BY <1>2, <1>6
    <3>3. d \in PurchaseOrder => received'[d] = received[d] BY <1>3
    <3>4. status[d] = "ABSENT" /\ status'[d] \in {"ABSENT", "DRAFT", "SENT"} /\ d \in Doc
      BY <1>2, <1>6
    <3> QED BY <3>1, <3>2, <3>3, <3>4, CreatedEntry, EntryInt
  <2>2. InStock(p)' = InStock(p) /\ InStock(p) \in Int BY <1>3, StockSame, InStockInt
  <2> QED BY <2>1, <2>2
<1>8. Somewhere
  <2>1. ASSUME NEW m \in ManufacturingOrder, status'[m] # "ABSENT", status[m] = "ABSENT"
        PROVE  depot[Build[m].warehouse] # "absent"
    BY <1>2, <1>6, <2>1 DEF Doc
  <2> QED BY <1>3, <2>1 DEF Somewhere
<1>9. ReceivedInv'
  <2>1. \A o \in PurchaseOrder : status'[o] = status[o] \/ status'[o] \in {"DRAFT", "SENT"}
    BY <1>6 DEF Doc
  <2> QED BY <1>3, <2>1, UnfinishedReceived DEF BooksInv
<1>10. UsedInv'
  <2> SUFFICES ASSUME NEW m \in ManufacturingOrder, m \notin clashed,
                      status'[m] \in {"ABSENT", "DRAFT"}
               PROVE  used[m] = {}
    BY <1>4 DEF UsedInv
  <2>1. status[m] \in {"ABSENT", "DRAFT"} BY <1>2, <1>6 DEF Doc
  <2> QED BY <2>1 DEF BooksInv, UsedInv
<1>11. \A x \in Doc \ {d} : /\ status'[x] = status[x]
                            /\ x \in PurchaseOrder => received'[x] = received[x]
                            /\ x \in ManufacturingOrder => used'[x] = used[x]
  BY <1>3, <1>4, <1>6
<1>12. d \in ManufacturingOrder => used[d] \subseteq used'[d] BY <1>4
<1>13. UNCHANGED <<plain, depot>> BY <1>3, <1>4
<1> QED BY <1>2, <1>7, <1>8, <1>9, <1>10, <1>11, <1>12, <1>13, DemoPosting

(* Movements, transfers and counts. *)
LEMMA DemoStockBooked ==
  ASSUME TypeInv, TypeInv', BooksInv, mode' = mode, NEW job, Parsed(job), InDemoMode(job),
         \/ Demo!CreateStockMovement(job) \/ Demo!CreateStockTransfer(job)
         \/ Demo!RecordStocktakeCount(job)
  PROVE  DemoBooked
<1>1. PICK p1, w : p1 = job.product /\ w = job.warehouse OBVIOUS
<1>2. /\ p1 \in Product /\ w \in Warehouse
      /\ job.op \in {"movement", "transfer"} => job.quantity \in Int /\ job.quantity > 0
      /\ job.op = "transfer" => job.to \in Warehouse
      /\ job.op = "count" => job.counted \in Int
      /\ job.op \in {"movement", "transfer", "count"}
      /\ UNCHANGED <<status, received, depot>>
  BY <1>1, StockForms, Schemas
     DEF Parsed, Demo!CreateStockMovement, Demo!CreateStockTransfer, Demo!RecordStocktakeCount
<1>3. depot[w] # "absent" /\ (job.op = "transfer" => depot[job.to] # "absent")
  BY <1>1, <1>2 DEF InDemoMode, Offered
<1>4. used' = used /\ clashed' = clashed BY <1>2, DemoNotes
<1>5. stock \in [Product -> [Warehouse -> Int]] /\ stock' \in [Product -> [Warehouse -> Int]]
  BY DEF TypeInv, TablesTyped, StockTyped
<1>6. ReceivedInv' /\ UsedInv' /\ Forward
  BY <1>2, <1>4 DEF BooksInv, ReceivedInv, ReceivedAsSaid, UsedInv, Forward
<1>7. ASSUME \A v \in Warehouse : depot[v] = "absent" =>
               \A p \in Product : stock'[p][v] = stock[p][v]
      PROVE  Somewhere
  BY <1>2, <1>7 DEF Somewhere
<1>8. ASSUME job.op \in {"movement", "count"}, NEW p \in Product PROVE StaysBalanced(p)
  <2>1. plain'[p] = plain[p] + SumFunction([v \in Warehouse |-> stock'[p][v] - stock[p][v]])
    BY <1>8, DemoNotes
  <2>2. UNCHANGED <<status, received, used>> BY <1>2, <1>4
  <2> QED BY <2>1, <2>2, DemoUnposted
<1>9. CASE Demo!CreateStockMovement(job)
  <2>1. PICK line, sign : /\ line = <<[product |-> p1, quantity |-> job.quantity]>>
                          /\ sign = IF job.type = "OUTBOUND" THEN -1 ELSE 1
    OBVIOUS
  <2>2. job.op = "movement" /\ stock' = Demo!Posted(w, line, sign)
    BY <1>1, <1>9, <2>1 DEF Demo!CreateStockMovement
  <2>3. sign \in {1, -1} /\ DOMAIN line = {1} /\ line[1].quantity \in Int
    BY <1>2, <2>1, <2>2
  <2>4. IsFiniteSet(DOMAIN line) /\ \A i \in DOMAIN line : line[i].quantity \in Int
    BY <2>3, FS_Singleton
  <2>5. stock' = Moved(w, line, sign) BY <1>2, <1>5, <2>2, <2>3, <2>4, PostedIsMoved
  <2>6. ASSUME NEW v \in Warehouse, depot[v] = "absent", NEW p \in Product
        PROVE  stock'[p][v] = stock[p][v]
    <3>1. v # w BY <1>3, <2>6
    <3>2. stock[p][v] \in Int BY <1>5
    <3>3. Moved(w, line, sign)[p][v] = stock[p][v] + 0 BY <3>1 DEF Moved
    <3> QED BY <2>5, <3>2, <3>3
  <2> QED BY <1>6, <1>7, <1>8, <2>2, <2>6 DEF DemoBooked
<1>10. CASE Demo!RecordStocktakeCount(job)
  <2>1. job.op = "count" /\ stock' = [stock EXCEPT ![p1][w] = job.counted]
    BY <1>1, <1>10 DEF Demo!RecordStocktakeCount
  <2>2. ASSUME NEW v \in Warehouse, depot[v] = "absent", NEW p \in Product
        PROVE  stock'[p][v] = stock[p][v]
    BY <1>2, <1>3, <1>5, <2>1, <2>2
  <2> QED BY <1>6, <1>7, <1>8, <2>1, <2>2 DEF DemoBooked
<1>11. CASE Demo!CreateStockTransfer(job)
  <2>1. PICK to, n : to = job.to /\ n = job.quantity OBVIOUS
  <2>2. /\ job.op = "transfer"
        /\ stock' = [stock EXCEPT ![p1] = [v \in Warehouse |->
                       stock[p1][v] + (IF v = to THEN n ELSE 0) - (IF v = w THEN n ELSE 0)]]
    BY <1>1, <1>11, <2>1 DEF Demo!CreateStockTransfer
  <2>3. /\ to \in Warehouse /\ n \in Int /\ depot[to] # "absent"
        /\ plain' = plain
    BY <1>2, <1>3, <2>1, <2>2, DemoNotes
  <2>4. /\ stock'[p1] = [v \in Warehouse |->
             stock[p1][v] + (IF v = to THEN n ELSE 0) - (IF v = w THEN n ELSE 0)]
        /\ \A p \in Product : p # p1 => stock'[p] = stock[p]
    BY <1>2, <1>5, <2>2
  <2>9. /\ \A p \in Product : p # p1 => stock'[p] = stock[p]
        /\ \A v \in Warehouse :
             /\ v # w /\ v # to => stock'[p1][v] = stock[p1][v]
             /\ v = w /\ v # to => stock'[p1][v] = stock[p1][v] - n
             /\ v # w /\ v = to => stock'[p1][v] = stock[p1][v] + n
             /\ v = w /\ v = to => stock'[p1][v] = stock[p1][v]
    <3>1. \A v \in Warehouse : stock[p1][v] \in Int BY <1>2, <1>5
    <3>2. \A v \in Warehouse :
            stock'[p1][v] = stock[p1][v] + (IF v = to THEN n ELSE 0) - (IF v = w THEN n ELSE 0)
      BY <2>4
    <3> QED BY <2>3, <2>4, <3>1, <3>2
  <2>5. ASSUME NEW v \in Warehouse, depot[v] = "absent", NEW p \in Product
        PROVE  stock'[p][v] = stock[p][v]
    BY <1>3, <2>3, <2>9, <2>5
  <2>6. ASSUME NEW p \in Product PROVE InStock(p)' = InStock(p)
    <3>1. CASE p # p1 BY <2>9, <3>1, StockSame
    <3>2. CASE p = p1 /\ w = to
      <4>1. \A v \in Warehouse : stock'[p][v] = stock[p][v] BY <2>9, <3>2
      <4>2. stock'[p] \in [Warehouse -> Int] /\ stock[p] \in [Warehouse -> Int] BY <1>5
      <4>3. stock'[p] = stock[p] BY <4>1, <4>2
      <4> QED BY <4>3, StockSame
    <3>3. CASE p = p1 /\ w # to
      <4>1. /\ \A v \in Warehouse \ {w, to} : stock'[p][v] = stock[p][v]
            /\ stock'[p][w] = stock[p][w] - n /\ stock'[p][to] = stock[p][to] + n
        BY <1>2, <2>3, <2>9, <3>3
      <4> QED BY <1>2, <1>5, <2>3, <3>3, <4>1, TransferSum
    <3> QED BY <3>1, <3>2, <3>3
  <2>7. ASSUME NEW p \in Product PROVE StaysBalanced(p)
    <3>1. OnBooks(p)' = OnBooks(p)
      BY <1>2, <1>4 DEF OnBooks, SoldOn, BoughtOn, ReturnedOn, BuiltOn, MadeOn, TakenFor
    <3> QED BY <2>3, <2>6, <3>1 DEF StaysBalanced
  <2> QED BY <1>6, <1>7, <2>5, <2>7 DEF DemoBooked
<1> QED BY <1>9, <1>10, <1>11

(* A confirmed order is taken from the default warehouse. *)
LEMMA DemoConfirmBooked ==
  ASSUME TypeInv, TypeInv', BooksInv, mode' = mode, NEW job, Parsed(job), InDemoMode(job),
         Demo!ConfirmSalesOrder(job)
  PROVE  DemoBooked
<1>1. PICK d : d = job.doc OBVIOUS
<1>2. job.op = "confirm" /\ d \in SalesOrder /\ d \in Doc
  BY <1>1, AboutDocs DEF Demo!ConfirmSalesOrder, Parsed, Doc
<1>3. d \notin PurchaseOrder /\ d \notin ManufacturingOrder BY <1>2, DocAssumption
<1>4. PICK lines, sign, to : lines = Lines[d] /\ sign = -1 /\ to = "CONFIRMED" OBVIOUS
<1>5. PICK w \in Warehouse : depot[w] = "default" /\ stock' = Demo!Posted(w, lines, sign)
  BY <1>1, <1>4 DEF Demo!ConfirmSalesOrder
<1>6. /\ status[d] = "DRAFT" /\ status' = [status EXCEPT ![d] = to]
      /\ UNCHANGED <<received, depot>>
  BY <1>1, <1>4 DEF Demo!ConfirmSalesOrder, Demo!SetsStatus
<1>7. UNCHANGED <<plain, used, clashed>> BY <1>2, DemoNotes
<1>8. IsFiniteSet(DOMAIN lines) /\ \A i \in DOMAIN lines : lines[i].quantity \in Int
  BY <1>2, <1>4, LinesTyped
<1>9. sign \in {1, -1} /\ to \notin {"ABSENT", "DRAFT"} /\ depot[w] # "absent"
  BY <1>4, <1>5
<1>10. stock' = Moved(w, lines, sign)
  <2>1. stock \in [Product -> [Warehouse -> Int]]
    BY DEF TypeInv, TablesTyped, StockTyped
  <2> QED BY <1>5, <1>8, <1>9, <2>1, PostedIsMoved
<1>11. DOMAIN status = Doc BY DEF TypeInv, TablesTyped, DocsTyped
<1>12. \A p \in Product :
         Entry(d, p)' - Entry(d, p)
           = IF sign = 1 THEN QuantityOf(lines, p) ELSE 0 - QuantityOf(lines, p)
  <2> SUFFICES ASSUME NEW p \in Product
               PROVE  Entry(d, p)' - Entry(d, p) = 0 - QuantityOf(lines, p)
    BY <1>4
  <2>1. status'[d] = "CONFIRMED" BY <1>2, <1>4, <1>6, <1>11
  <2>2. Entry(d, p) = 0 /\ Entry(d, p)' = 0 - QuantityOf(lines, p)
    BY <1>2, <1>4, <1>6, <2>1 DEF Entry, SoldOn
  <2>3. QuantityOf(lines, p) \in Int BY <1>8, QuantityInt
  <2> QED BY <2>2, <2>3
<1>13. ReceivedInv'
  <2>1. \A o \in PurchaseOrder : status'[o] = status[o] BY <1>3, <1>6, <1>11 DEF Doc
  <2> QED BY <1>6, <2>1 DEF BooksInv, ReceivedInv, ReceivedAsSaid
<1> QED BY <1>2, <1>3, <1>6, <1>7, <1>8, <1>9, <1>10, <1>12, <1>13, DemoLines

(* What is left of an order is received, whatever the order's status. *)
LEMMA DemoReceiveBooked ==
  ASSUME TypeInv, TypeInv', BooksInv, mode' = mode, NEW job, Parsed(job), InDemoMode(job),
         Demo!ReceivePurchaseOrder(job)
  PROVE  DemoBooked
<1>1. PICK d, got : d = job.doc /\ got = received[d] OBVIOUS
<1>2. job.op = "receive" /\ d \in PurchaseOrder /\ d \in Doc /\ status[d] # "ABSENT"
  BY <1>1, AboutDocs DEF Demo!ReceivePurchaseOrder, Parsed, Doc
<1>3. d \notin SalesOrder /\ d \notin SalesReturn /\ d \notin ManufacturingOrder
  BY <1>2, DocAssumption
<1>4. PICK lines, sign, to : lines = Outstanding(d, got) /\ sign = 1 /\ to = "COMPLETED"
  OBVIOUS
<1>5. PICK w \in Warehouse : depot[w] = "default" /\ stock' = Demo!Posted(w, lines, sign)
  BY <1>1, <1>4 DEF Demo!ReceivePurchaseOrder, Outstanding
<1>6. /\ status' = [status EXCEPT ![d] = to] /\ UNCHANGED depot
      /\ received' = [received EXCEPT ![d] = [i \in DOMAIN @ |-> Lines[d][i].quantity]]
  BY <1>1, <1>4 DEF Demo!ReceivePurchaseOrder
<1>7. UNCHANGED <<plain, used, clashed>> BY <1>2, DemoNotes
<1>8. got \in Received(d) /\ DOMAIN received = PurchaseOrder /\ DOMAIN status = Doc
  BY <1>1, <1>2 DEF TypeInv, TablesTyped, DocsTyped
<1>9. /\ received'[d] \in Received(d)
      /\ \A i \in DOMAIN Lines[d] : received'[d][i] = Lines[d][i].quantity
      /\ \A x \in PurchaseOrder : x # d => received'[x] = received[x]
  <2>1. received'[d] \in Received(d) BY <1>2 DEF TypeInv, TablesTyped, DocsTyped
  <2>2. received'[d] = [i \in DOMAIN got |-> Lines[d][i].quantity]
    BY <1>1, <1>2, <1>6, <1>8
  <2>3. DOMAIN got = DOMAIN Lines[d] BY <1>8 DEF Received
  <2> QED BY <1>6, <1>8, <2>1, <2>2, <2>3
<1>10. IsFiniteSet(DOMAIN lines) /\ \A i \in DOMAIN lines : lines[i].quantity \in Int
  <2>1. /\ DOMAIN lines = DOMAIN Lines[d]
        /\ \A i \in DOMAIN lines : lines[i].quantity = Lines[d][i].quantity - got[i]
    BY <1>4 DEF Outstanding
  <2>2. /\ IsFiniteSet(DOMAIN Lines[d])
        /\ \A i \in DOMAIN Lines[d] : Lines[d][i].quantity \in Int /\ got[i] \in Int
    BY <1>2, <1>8, LinesTyped DEF Received
  <2> QED BY <2>1, <2>2
<1>11. sign \in {1, -1} /\ to \notin {"ABSENT", "DRAFT"} /\ depot[w] # "absent"
  BY <1>4, <1>5
<1>12. stock' = Moved(w, lines, sign)
  <2>1. stock \in [Product -> [Warehouse -> Int]]
    BY DEF TypeInv, TablesTyped, StockTyped
  <2> QED BY <1>5, <1>10, <1>11, <2>1, PostedIsMoved
<1>13. status'[d] = "COMPLETED" /\ \A o \in Doc \ {d} : status'[o] = status[o]
  BY <1>2, <1>4, <1>6, <1>8
<1>14. \A p \in Product :
         Entry(d, p)' - Entry(d, p)
           = IF sign = 1 THEN QuantityOf(lines, p) ELSE 0 - QuantityOf(lines, p)
  <2> SUFFICES ASSUME NEW p \in Product
               PROVE  Entry(d, p)' - Entry(d, p) = QuantityOf(lines, p)
    BY <1>4
  <2>1. Entry(d, p) = QuantityOf(Lines[d], p) - QuantityOf(lines, p)
    BY <1>1, <1>2, <1>3, <1>4 DEF Entry, BoughtOn
  <2>2. Entry(d, p)' = QuantityOf(Lines[d], p) - QuantityOf(Outstanding(d, received'[d]), p)
    BY <1>2, <1>3, <1>13 DEF Entry, BoughtOn, QuantityOf, Outstanding
  <2>3. QuantityOf(Outstanding(d, received'[d]), p) = 0 BY <1>2, <1>9, OutstandingSums
  <2>4. QuantityOf(Lines[d], p) \in Int BY <1>2, LinesTyped, QuantityInt
  <2>5. QuantityOf(lines, p) \in Int BY <1>10, QuantityInt
  <2> QED BY <2>1, <2>2, <2>3, <2>4, <2>5
<1>15. ReceivedInv'
  <2> SUFFICES ASSUME NEW o \in PurchaseOrder PROVE ReceivedAsSaid(o)'
    BY DEF ReceivedInv
  <2>1. CASE o = d BY <1>9, <1>13, <2>1 DEF PurchaseStatus, ReceivedAsSaid
  <2>2. CASE o # d
    <3>1. status'[o] = status[o] /\ received'[o] = received[o]
      BY <1>9, <1>13, <2>2 DEF Doc
    <3> QED BY <3>1 DEF BooksInv, ReceivedInv, ReceivedAsSaid
  <2> QED BY <2>1, <2>2
<1>16. /\ d \in Doc /\ clashed' = clashed /\ UNCHANGED <<plain, used, depot>>
       /\ status' = [status EXCEPT ![d] = to]
  BY <1>2, <1>6, <1>7
<1>17. \A x \in PurchaseOrder : x # d => received'[x] = received[x] BY <1>9
<1> QED BY <1>3, <1>10, <1>11, <1>12, <1>14, <1>15, <1>16, <1>17, DemoLines

(* Work that starts takes the bill's components; when one of them is short, *)
(* those before it are gone all the same, and noted as moved by hand.       *)
LEMMA DemoStartBooked ==
  ASSUME TypeInv, TypeInv', BooksInv, mode' = mode, mode = "demo", NEW job, Parsed(job),
         InDemoMode(job), Demo!StartManufacturingOrder(job)
  PROVE  DemoBooked
<1>1. PICK d, w, n, parts : /\ d = job.doc /\ w = Build[d].warehouse /\ n = Build[d].quantity
                            /\ parts = recipe[Build[d].product]
  OBVIOUS
<1>2. job.op = "start" /\ d \in ManufacturingOrder /\ d \in Doc /\ status[d] = "DRAFT"
  BY <1>1, AboutDocs DEF Demo!StartManufacturingOrder, Parsed, Doc
<1>3. d \notin PurchaseOrder /\ d \notin SalesOrder /\ d \notin SalesReturn
  BY <1>2, DocAssumption
<1>4. w \in Warehouse /\ n \in Int /\ parts \in ComponentRows
  BY <1>1, <1>2, BuildAssumption, DemoTyped
<1>5. UNCHANGED <<received, depot, clashed>>
  <2>1. UNCHANGED <<received, depot>> BY DEF Demo!StartManufacturingOrder
  <2> QED BY <2>1, DemoNotes
<1>6. depot[w] # "absent" BY <1>1, <1>2 DEF BooksInv, NothingNowhere
<1>7. /\ stock \in [Product -> [Warehouse -> Int]] /\ stock' \in [Product -> [Warehouse -> Int]]
      /\ DOMAIN status = Doc /\ DOMAIN used = ManufacturingOrder
  BY DEF TypeInv, TablesTyped, StockTyped, DocsTyped
<1>8. ASSUME NEW some, stock' = Demo!Consumed(some, d)
      PROVE  stock' = [p \in Product |-> [stock[p] EXCEPT ![w] = @ - Needed(some, p, n)]]
  BY <1>1, <1>8, DemoSums DEF Demo!Consumed
<1>9. ASSUME NEW some, stock' = Demo!Consumed(some, d), NEW v \in Warehouse, v # w,
             NEW p \in Product
      PROVE  stock'[p][v] = stock[p][v]
  <2>1. stock' = [q \in Product |-> [stock[q] EXCEPT ![w] = @ - Needed(some, q, n)]]
    BY <1>8, <1>9
  <2> QED BY <1>7, <1>9, <2>1
<1>10. CASE stock' = Demo!Consumed(parts, d) /\ status' = [status EXCEPT ![d] = "IN_PROGRESS"]
  <2>1. /\ status'[d] = "IN_PROGRESS" /\ status' # status
        /\ \A x \in Doc \ {d} : status'[x] = status[x]
    BY <1>2, <1>7, <1>10
  <2>2. plain' = plain /\ used' = [used EXCEPT ![d] = parts]
    BY <1>1, <1>2, <2>1, DemoNotes
  <2>3. used[d] = {} BY <1>2 DEF BooksInv, UsedInv
  <2>4. used'[d] = parts /\ \A x \in ManufacturingOrder : x # d => used'[x] = used[x]
    BY <1>2, <1>7, <2>2
  <2>5. ReceivedInv'
    <3>1. \A o \in PurchaseOrder : status'[o] = status[o] BY <1>3, <2>1 DEF Doc
    <3> QED BY <1>5, <3>1 DEF BooksInv, ReceivedInv, ReceivedAsSaid
  <2>6. UsedInv'
    <3> SUFFICES ASSUME NEW m \in ManufacturingOrder, m \notin clashed,
                        status'[m] \in {"ABSENT", "DRAFT"}
                 PROVE  used'[m] = {}
      BY <1>5 DEF UsedInv
    <3>1. m # d BY <2>1
    <3> QED BY <2>1, <2>4, <3>1 DEF BooksInv, UsedInv, Doc
  <2>7. Somewhere
    <3>1. ASSUME NEW v \in Warehouse, depot'[v] = "absent", NEW p \in Product
          PROVE  stock'[p][v] = stock[p][v]
      <4>1. v # w BY <1>5, <1>6, <3>1
      <4> QED BY <1>9, <1>10, <4>1
    <3>2. ASSUME NEW m \in ManufacturingOrder, status'[m] # "ABSENT", status[m] = "ABSENT"
          PROVE  depot[Build[m].warehouse] # "absent"
      BY <1>2, <2>1, <3>2 DEF Doc
    <3> QED BY <3>1, <3>2 DEF Somewhere
  <2>8. ASSUME NEW p \in Product
        PROVE  InStock(p)' = InStock(p) + (Entry(d, p)' - Entry(d, p))
    <3>1. PICK k \in Int : k = Needed(parts, p, n) BY <1>4, NeededInt
    <3>2. InStock(p)' = InStock(p) + (0 - k)
      <4>1. stock' = [q \in Product |-> [stock[q] EXCEPT ![w] = @ - Needed(parts, q, n)]]
        BY <1>8, <1>10
      <4>2. /\ \A v \in Warehouse \ {w} : stock'[p][v] = stock[p][v]
            /\ stock'[p][w] = stock[p][w] + (0 - k)
        BY <1>4, <1>7, <3>1, <4>1
      <4>3. 0 - k \in Int OBVIOUS
      <4> QED BY <1>4, <1>7, <4>2, <4>3, StockChange
    <3>3. Entry(d, p) = 0 BY <1>2, <1>3 DEF Entry, BuiltOn, MadeOn, TakenFor
    <3>4. Entry(d, p)' = 0 - Needed(used'[d], p, n)
      BY <1>1, <1>2, <1>3, <2>1 DEF Entry, BuiltOn, MadeOn, TakenFor, Needed
    <3>5. Entry(d, p)' = 0 - k BY <2>4, <3>1, <3>4
    <3>6. InStock(p) \in Int BY InStockInt
    <3> QED BY <3>2, <3>3, <3>5, <3>6
  <2>9. d \in ManufacturingOrder => used[d] \subseteq used'[d] BY <2>3
  <2>10. \A x \in Doc \ {d} : /\ status'[x] = status[x]
                              /\ x \in PurchaseOrder => received'[x] = received[x]
                              /\ x \in ManufacturingOrder => used'[x] = used[x]
    BY <1>5, <2>1, <2>4
  <2>11. UNCHANGED <<plain, depot>> /\ d \in Doc BY <1>2, <1>5, <2>2
  <2> QED BY <2>5, <2>6, <2>7, <2>8, <2>9, <2>10, <2>11, DemoPosting
<1>11. ASSUME NEW taken, stock' = Demo!Consumed(taken, d), status' = status PROVE DemoBooked
  <2>1. /\ used' = used
        /\ \A p \in Product : plain'[p] =
             plain[p] + SumFunction([v \in Warehouse |-> stock'[p][v] - stock[p][v]])
    BY <1>2, <1>11, DemoNotes
  <2>2. ASSUME NEW p \in Product PROVE StaysBalanced(p)
    <3>1. UNCHANGED <<status, received, used>> BY <1>5, <1>11, <2>1
    <3> QED BY <2>1, <3>1, DemoUnposted
  <2>3. Somewhere
    <3>1. ASSUME NEW v \in Warehouse, depot'[v] = "absent", NEW p \in Product
          PROVE  stock'[p][v] = stock[p][v]
      <4>1. v # w BY <1>5, <1>6, <3>1
      <4> QED BY <1>9, <1>11, <4>1
    <3> QED BY <1>11, <3>1 DEF Somewhere
  <2>4. ReceivedInv' /\ UsedInv' /\ Forward
    BY <1>5, <1>11, <2>1 DEF BooksInv, ReceivedInv, ReceivedAsSaid, UsedInv, Forward
  <2> QED BY <2>2, <2>3, <2>4 DEF DemoBooked
<1>12. \/ stock' = Demo!Consumed(parts, d) /\ status' = [status EXCEPT ![d] = "IN_PROGRESS"]
       \/ \E taken : stock' = Demo!Consumed(taken, d) /\ status' = status
  BY <1>1 DEF Demo!StartManufacturingOrder
<1> QED BY <1>10, <1>11, <1>12

(* Completed work puts what was made where it was made. *)
LEMMA DemoCompleteBooked ==
  ASSUME TypeInv, TypeInv', BooksInv, mode' = mode, NEW job, Parsed(job), InDemoMode(job),
         Demo!CompleteManufacturingOrder(job)
  PROVE  DemoBooked
<1>1. PICK d, b, w, n : /\ d = job.doc /\ b = Build[d].product
                        /\ w = Build[d].warehouse /\ n = Build[d].quantity
  OBVIOUS
<1>2. job.op = "complete" /\ d \in ManufacturingOrder /\ d \in Doc /\ status[d] = "IN_PROGRESS"
  BY <1>1, AboutDocs DEF Demo!CompleteManufacturingOrder, Demo!SetsStatus, Parsed, Doc
<1>3. d \notin PurchaseOrder /\ d \notin SalesOrder /\ d \notin SalesReturn
  BY <1>2, DocAssumption
<1>4. b \in Product /\ w \in Warehouse /\ n \in Int BY <1>1, <1>2, BuildAssumption
<1>5. /\ status' = [status EXCEPT ![d] = "COMPLETED"]
      /\ stock' = [stock EXCEPT ![b][w] = @ + n]
      /\ UNCHANGED <<received, depot>>
  BY <1>1 DEF Demo!CompleteManufacturingOrder, Demo!SetsStatus
<1>6. UNCHANGED <<plain, used, clashed>> BY <1>2, DemoNotes
<1>7. /\ stock \in [Product -> [Warehouse -> Int]] /\ stock' \in [Product -> [Warehouse -> Int]]
      /\ DOMAIN status = Doc
  BY DEF TypeInv, TablesTyped, StockTyped, DocsTyped
<1>8. status'[d] = "COMPLETED" /\ \A x \in Doc \ {d} : status'[x] = status[x]
  BY <1>2, <1>5, <1>7
<1>9. /\ \A p \in Product : p # b => stock'[p] = stock[p]
      /\ \A v \in Warehouse \ {w} : stock'[b][v] = stock[b][v]
      /\ stock'[b][w] = stock[b][w] + n
  BY <1>4, <1>5, <1>7
<1>10. depot[w] # "absent" BY <1>1, <1>2 DEF BooksInv, NothingNowhere
<1>11. ReceivedInv'
  <2>1. \A o \in PurchaseOrder : status'[o] = status[o] BY <1>3, <1>8 DEF Doc
  <2> QED BY <1>5, <2>1 DEF BooksInv, ReceivedInv, ReceivedAsSaid
<1>12. UsedInv'
  <2> SUFFICES ASSUME NEW m \in ManufacturingOrder, m \notin clashed,
                      status'[m] \in {"ABSENT", "DRAFT"}
               PROVE  used[m] = {}
    BY <1>6 DEF UsedInv
  <2>1. m # d BY <1>8
  <2> QED BY <1>8, <2>1 DEF BooksInv, UsedInv, Doc
<1>13. Somewhere
  <2>1. ASSUME NEW v \in Warehouse, depot'[v] = "absent", NEW p \in Product
        PROVE  stock'[p][v] = stock[p][v]
    <3>1. v # w BY <1>5, <1>10, <2>1
    <3> QED BY <1>9, <3>1
  <2>2. ASSUME NEW m \in ManufacturingOrder, status'[m] # "ABSENT", status[m] = "ABSENT"
        PROVE  depot[Build[m].warehouse] # "absent"
    BY <1>2, <1>8, <2>2 DEF Doc
  <2> QED BY <2>1, <2>2 DEF Somewhere
<1>14. ASSUME NEW p \in Product
       PROVE  InStock(p)' = InStock(p) + (Entry(d, p)' - Entry(d, p))
  <2>1. /\ Entry(d, p) = MadeOn(d, p) - TakenFor(d, p)
        /\ Entry(d, p)' = MadeOn(d, p)' - TakenFor(d, p)'
    BY <1>2, <1>3 DEF Entry, BuiltOn
  <2>2. TakenFor(d, p)' = TakenFor(d, p) /\ TakenFor(d, p) \in Int
    BY <1>2, <1>6, <1>8, Entries DEF TakenFor
  <2>3. MadeOn(d, p) = 0 /\ MadeOn(d, p)' = IF b = p THEN n ELSE 0
    BY <1>1, <1>2, <1>8 DEF MadeOn
  <2>4. Entry(d, p)' - Entry(d, p) = IF b = p THEN n ELSE 0 BY <1>4, <2>1, <2>2, <2>3
  <2>5. InStock(p) \in Int BY InStockInt
  <2>6. CASE p = b
    <3>1. InStock(p)' = InStock(p) + n BY <1>4, <1>7, <1>9, <2>6, StockChange
    <3> QED BY <2>4, <2>6, <3>1
  <2>7. CASE p # b
    <3>1. InStock(p)' = InStock(p) BY <1>9, <2>7, StockSame
    <3> QED BY <2>4, <2>5, <2>7, <3>1
  <2> QED BY <2>6, <2>7
<1>15. d \in ManufacturingOrder => used[d] \subseteq used'[d] BY <1>6
<1>16. \A x \in Doc \ {d} : /\ status'[x] = status[x]
                            /\ x \in PurchaseOrder => received'[x] = received[x]
                            /\ x \in ManufacturingOrder => used'[x] = used[x]
  BY <1>5, <1>6, <1>8
<1>17. UNCHANGED <<plain, depot>> /\ d \in Doc BY <1>2, <1>5, <1>6
<1> QED BY <1>11, <1>12, <1>13, <1>14, <1>15, <1>16, <1>17, DemoPosting

(* Every operation of the store.                                            *)
LEMMA DemoBooksKept ==
  ASSUME OfficeInv, OfficeInv', BooksInv, mode = "demo", mode' = mode, NEW job \in Menu[desk],
         InDemoMode(job)
  PROVE  BooksInv'
<1>1. /\ TypeInv /\ TypeInv' /\ Accepted(job) /\ Demo!Does(job)
      /\ UNCHANGED <<req, clashed>>
  BY DEF OfficeInv, InDemoMode
<1>2. Parsed(job) BY <1>1, MenuAssumption DEF Parsed, TypeInv, BoundsTyped
<1>3. DemoBooked
  <2>1. CASE DemoAside(job) BY <1>1, <1>2, <2>1, DemoAsideBooked
  <2>2. CASE \/ Demo!CreateSalesOrder(job) \/ Demo!CreateCreditNote(job)
             \/ Demo!CreatePurchaseOrder(job) \/ Demo!CreateManufacturingOrder(job)
    BY <1>1, <1>2, <2>2, DemoCreatingBooked
  <2>3. CASE \/ Demo!CreateStockMovement(job) \/ Demo!CreateStockTransfer(job)
             \/ Demo!RecordStocktakeCount(job)
    BY <1>1, <1>2, <2>3, DemoStockBooked
  <2>4. CASE Demo!ConfirmSalesOrder(job) \/ Demo!ReceivePurchaseOrder(job)
    BY <1>1, <1>2, <2>4, DemoConfirmBooked, DemoReceiveBooked
  <2>5. CASE Demo!StartManufacturingOrder(job) \/ Demo!CompleteManufacturingOrder(job)
    BY <1>1, <1>2, <2>5, DemoStartBooked, DemoCompleteBooked
  <2> QED BY <1>1, <2>1, <2>2, <2>3, <2>4, <2>5 DEF Demo!Does, DemoAside
<1> QED BY <1>1, <1>3, DemoBooksServed

(* The inductive step.                                                      *)
LEMMA BooksKept == OfficeInv /\ BooksInv /\ [Next]_allVars => BooksInv'
<1> SUFFICES ASSUME OfficeInv, BooksInv, [Next]_allVars PROVE BooksInv' OBVIOUS
<1>1. OfficeInv' BY OfficeKept
<1>2. TypeInv /\ TypeInv' BY <1>1 DEF OfficeInv
<1>3. CASE UNCHANGED allVars BY <1>3, StutterBooks
<1>4. CASE mode = "database" /\ mode' = mode
           /\ \E r \in Request : Begin(r) \/ Handle(r) \/ Route(r) \/ Serve(r) \/ Fail(r)
  <2>1. PICK r \in Request : Begin(r) \/ Handle(r) \/ Route(r) \/ Serve(r) \/ Fail(r)
    BY <1>4
  <2>2. CASE Begin(r) \/ Route(r) BY <1>4, <2>2, BegunBooks
  <2>3. CASE Handle(r) \/ Serve(r) \/ Fail(r)
    <3>1. Moves(r) BY <1>2, <1>4, <2>3, RequestsKept DEF Outcome
    <3>2. Booked(r) BY <1>2, <1>4, <2>3, ServedBooked
    <3> QED BY <1>4, <3>1, <3>2, BooksServed
  <2> QED BY <2>1, <2>2, <2>3
<1>5. CASE mode = "demo" /\ mode' = mode /\ \E job \in Menu[desk] : InDemoMode(job)
  <2>1. PICK job \in Menu[desk] : InDemoMode(job) BY <1>5
  <2> QED BY <1>1, <1>5, <2>1, DemoBooksKept
<1> QED BY <1>3, <1>4, <1>5 DEF Next

------------------------

(* The pages.  A page's sum over the rows it shows is the sum over all      *)
(* documents, for those it does not show add nothing.                       *)
LEMMA PageSum ==
  ASSUME NEW S, IsFiniteSet(S), NEW T \in SUBSET S, NEW f, NEW g, NEW m,
         \A x \in S : f[x] \in Int,
         \A x \in S \ T : f[x] = 0,
         \A x \in T : g[m[x]] = f[x],
         \A x, y \in T : m[x] = m[y] => x = y
  PROVE  SumFunctionOnSet(g, {m[x] : x \in T}) = SumFunctionOnSet(f, S)
<1>1. IsFiniteSet(T) BY FS_Subset
<1>2. SumFunctionOnSet(g, {m[x] : x \in T}) = SumFunctionOnSet(f, T) BY <1>1, SumRenamed
<1>3. SumFunctionOnSet(f, T) = SumFunctionOnSet(f, S) BY SumWithin
<1> QED BY <1>2, <1>3

(* The rows, whatever the mode: of every document that there is.            *)
There(docs) == {d \in docs : status[d] # "ABSENT"}

(* The rows of the pages, as images of the documents.                       *)
LEMMA RowForms ==
  /\ \A S \in SUBSET SalesOrder :
       {[id |-> o, status |-> status[o], lines |-> Lines[o]] : o \in S} = {SaleRow[o] : o \in S}
  /\ \A S \in SUBSET PurchaseOrder :
       {[id |-> o, status |-> status[o], lines |-> Lines[o], received |-> received[o]] : o \in S}
         = {PurchaseRow[o] : o \in S}
  /\ \A S \in SUBSET SalesReturn :
       {[id |-> d, status |-> status[d], lines |-> Lines[d]] : d \in S} = {ReturnRow[d] : d \in S}
  /\ \A S \in SUBSET ManufacturingOrder :
       {[id |-> m, status |-> status[m]] : m \in S} = {BuildRow[m] : m \in S}
<1>1. \A o \in SalesOrder :
        SaleRow[o] = [id |-> o, status |-> status[o], lines |-> Lines[o]]
  BY DEF SaleRow
<1>2. \A o \in PurchaseOrder :
        PurchaseRow[o]
          = [id |-> o, status |-> status[o], lines |-> Lines[o], received |-> received[o]]
  BY DEF PurchaseRow
<1>3. \A d \in SalesReturn :
        ReturnRow[d] = [id |-> d, status |-> status[d], lines |-> Lines[d]]
  BY DEF ReturnRow
<1>4. \A m \in ManufacturingOrder : BuildRow[m] = [id |-> m, status |-> status[m]]
  BY DEF BuildRow
<1>5. \A S \in SUBSET SalesOrder :
        {[id |-> o, status |-> status[o], lines |-> Lines[o]] : o \in S} = {SaleRow[o] : o \in S}
  BY <1>1
<1>6. \A S \in SUBSET PurchaseOrder :
        {[id |-> o, status |-> status[o], lines |-> Lines[o], received |-> received[o]] : o \in S}
          = {PurchaseRow[o] : o \in S}
  BY <1>2
<1>7. \A S \in SUBSET SalesReturn :
        {[id |-> d, status |-> status[d], lines |-> Lines[d]] : d \in S} = {ReturnRow[d] : d \in S}
  BY <1>3
<1>8. \A S \in SUBSET ManufacturingOrder :
        {[id |-> m, status |-> status[m]] : m \in S} = {BuildRow[m] : m \in S}
  BY <1>4
<1> QED BY <1>5, <1>6, <1>7, <1>8

(* What is on the page, in either mode.                                     *)
LEMMA PageRows ==
  ASSUME active \subseteq Product, mode \in {"database", "demo"}
  PROVE  /\ Shown.salesOrders = {SaleRow[o] : o \in There(SalesOrder)}
         /\ Shown.openSalesOrders = {x \in Shown.salesOrders : x.status = "DRAFT"}
         /\ Shown.purchaseOrders = {PurchaseRow[o] : o \in There(PurchaseOrder)}
         /\ Shown.openPurchaseOrders = {x \in Shown.purchaseOrders :
                                          x.status \in {"DRAFT", "SENT", "PARTIALLY_RECEIVED"}}
         /\ Shown.salesReturns
              = {ReturnRow[d] : d \in {d \in There(SalesReturn) : mode = "database"}}
         /\ Shown.manufacturingOrders = {BuildRow[m] : m \in There(ManufacturingOrder)}
<1>0. /\ There(SalesOrder) \subseteq SalesOrder /\ There(PurchaseOrder) \subseteq PurchaseOrder
      /\ There(SalesReturn) \subseteq SalesReturn
      /\ There(ManufacturingOrder) \subseteq ManufacturingOrder
  BY DEF There
<1>1. CASE mode = "demo"
  <2>1. Shown = Demo!GetDemoSnapshot BY <1>1 DEF Shown
  <2>2. Shown.salesOrders = {SaleRow[o] : o \in There(SalesOrder)}
    <3>1. Shown.salesOrders
            = {[id |-> o, status |-> status[o], lines |-> Lines[o]] : o \in There(SalesOrder)}
      BY <2>1 DEF Demo!GetDemoSnapshot, There
    <3> QED BY <1>0, <3>1, RowForms
  <2>3. Shown.purchaseOrders = {PurchaseRow[o] : o \in There(PurchaseOrder)}
    <3>1. Shown.purchaseOrders
            = {[id |-> o, status |-> status[o], lines |-> Lines[o], received |-> received[o]] :
                 o \in There(PurchaseOrder)}
      BY <2>1 DEF Demo!GetDemoSnapshot, There
    <3> QED BY <1>0, <3>1, RowForms
  <2>4. Shown.manufacturingOrders = {BuildRow[m] : m \in There(ManufacturingOrder)}
    <3>1. Shown.manufacturingOrders
            = {[id |-> m, status |-> status[m]] : m \in There(ManufacturingOrder)}
      BY <2>1 DEF Demo!GetDemoSnapshot, There
    <3> QED BY <1>0, <3>1, RowForms
  <2>5. Shown.salesReturns = {ReturnRow[d] : d \in {d \in There(SalesReturn) : mode = "database"}}
    <3>1. Shown.salesReturns = {} BY <2>1 DEF Demo!GetDemoSnapshot
    <3> QED BY <1>1, <3>1
  <2>7. Shown.openPurchaseOrders = {x \in Shown.purchaseOrders :
                                      x.status \in {"DRAFT", "SENT", "PARTIALLY_RECEIVED"}}
    BY <2>1 DEF Demo!GetDemoSnapshot
  <2>8. Shown.openSalesOrders = {x \in Shown.salesOrders : x.status = "DRAFT"}
    <3> DEFINE sold == There(SalesOrder)
               row(o) == [id |-> o, status |-> status[o], lines |-> Lines[o]]
    <3>1. /\ Shown.openSalesOrders = {row(o) : o \in {o \in sold : status[o] = "DRAFT"}}
          /\ Shown.salesOrders = {row(o) : o \in sold}
      BY <2>1 DEF Demo!GetDemoSnapshot, There
    <3>2. \A o \in sold : row(o).status = status[o] OBVIOUS
    <3> HIDE DEF sold, row
    <3> QED BY <3>1, <3>2
  <2> QED BY <2>2, <2>3, <2>4, <2>5, <2>7, <2>8
<1>2. CASE mode = "database"
  <2>1. Shown = GetAppSnapshot BY <1>2 DEF Shown
  <2>2. /\ Shown.salesOrders = MappedSalesOrders /\ Shown.purchaseOrders = MappedPurchaseOrders
        /\ Shown.openSalesOrders = {o \in MappedSalesOrders : o.status = "DRAFT"}
        /\ Shown.openPurchaseOrders = {o \in MappedPurchaseOrders :
                                         o.status \in {"DRAFT", "SENT", "PARTIALLY_RECEIVED"}}
        /\ Shown.salesReturns = {[id |-> d, status |-> status[d], lines |-> Lines[d]] :
                                    d \in SalesReturn \cap Fetched.documents}
        /\ Shown.manufacturingOrders = {[id |-> m, status |-> status[m]] :
                                           m \in ManufacturingOrder \cap Fetched.documents}
    BY <2>1, Zenon DEF GetAppSnapshot
  <2>3. /\ SalesOrder \cap Fetched.documents = There(SalesOrder)
        /\ PurchaseOrder \cap Fetched.documents = There(PurchaseOrder)
        /\ SalesReturn \cap Fetched.documents = There(SalesReturn)
        /\ ManufacturingOrder \cap Fetched.documents = There(ManufacturingOrder)
    BY DEF Fetched, There, Doc
  <2>4. Shown.salesOrders = {SaleRow[o] : o \in There(SalesOrder)}
    BY <1>0, <2>2, <2>3, RowForms DEF MappedSalesOrders
  <2>5. Shown.purchaseOrders = {PurchaseRow[o] : o \in There(PurchaseOrder)}
    BY <1>0, <2>2, <2>3, RowForms DEF MappedPurchaseOrders
  <2>6. Shown.salesReturns = {ReturnRow[d] : d \in {d \in There(SalesReturn) : mode = "database"}}
    <3>1. {d \in There(SalesReturn) : mode = "database"} = There(SalesReturn) BY <1>2
    <3>2. Shown.salesReturns = {ReturnRow[d] : d \in There(SalesReturn)}
      BY <1>0, <2>2, <2>3, RowForms
    <3> QED BY <3>1, <3>2
  <2>7. Shown.manufacturingOrders = {BuildRow[m] : m \in There(ManufacturingOrder)}
    BY <1>0, <2>2, <2>3, RowForms
  <2> QED BY <2>2, <2>4, <2>5, <2>6, <2>7
<1> QED BY <1>1, <1>2

(* Sales: an order that is not open is sold.                                *)
LEMMA PageSold ==
  ASSUME TypeInv, NEW p \in Product
  PROVE  Sold(Shown, p) = SumFunction([o \in SalesOrder |-> SoldOn(o, p)])
<1>1. PICK X : X = Shown.salesOrders \ Shown.openSalesOrders OBVIOUS
<1>2. PICK T : T = {o \in There(SalesOrder) : status[o] # "DRAFT"} OBVIOUS
<1>3. PICK f : f = [o \in SalesOrder |-> SoldOn(o, p)] OBVIOUS
<1>4. PICK g : g = [x \in X |-> QuantityOf(x.lines, p)] OBVIOUS
<1>5. \A o \in SalesOrder : /\ SaleRow[o].id = o /\ SaleRow[o].status = status[o]
                            /\ SaleRow[o].lines = Lines[o]
  BY DEF SaleRow
<1>6. T \in SUBSET SalesOrder /\ There(SalesOrder) \subseteq SalesOrder
  BY <1>2 DEF There
<1>7. X = {SaleRow[o] : o \in T}
  <2>1. /\ Shown.salesOrders = {SaleRow[o] : o \in There(SalesOrder)}
        /\ Shown.openSalesOrders = {x \in Shown.salesOrders : x.status = "DRAFT"}
    BY PageRows DEF TypeInv, TablesTyped, AdminTyped, BoundsTyped
  <2>2. X = {x \in Shown.salesOrders : x.status # "DRAFT"} BY <1>1, <2>1
  <2> QED BY <1>2, <1>5, <1>6, <2>1, <2>2
<1>8. \A o \in SalesOrder : f[o] \in Int
  <2>1. \A o \in SalesOrder : SoldOn(o, p) \in Int BY Entries DEF Doc
  <2> QED BY <1>3, <2>1
<1>9. \A o \in SalesOrder \ T : f[o] = 0 BY <1>2, <1>3 DEF SoldOn, There
<1>10. \A o \in T : g[SaleRow[o]] = f[o]
  <2> SUFFICES ASSUME NEW o \in T PROVE g[SaleRow[o]] = f[o] OBVIOUS
  <2>1. g[SaleRow[o]] = QuantityOf(Lines[o], p) BY <1>4, <1>5, <1>6, <1>7
  <2>2. f[o] = QuantityOf(Lines[o], p) BY <1>2, <1>3, <1>6 DEF SoldOn, There
  <2> QED BY <2>1, <2>2
<1>11. \A x, y \in T : SaleRow[x] = SaleRow[y] => x = y BY <1>5, <1>6
<1>12. IsFiniteSet(SalesOrder) BY FiniteAssumption
<1>13. SumFunctionOnSet(g, {SaleRow[o] : o \in T}) = SumFunctionOnSet(f, SalesOrder)
  BY <1>6, <1>8, <1>9, <1>10, <1>11, <1>12, PageSum
<1>14. Sold(Shown, p) = SumFunction(g) BY <1>1, <1>4 DEF Sold
<1>15. DOMAIN g = X /\ DOMAIN f = SalesOrder BY <1>3, <1>4
<1> QED BY <1>3, <1>7, <1>13, <1>14, <1>15 DEF SumFunction

(* Purchases: what was received of every order.                             *)
LEMMA PageBought ==
  ASSUME TypeInv, NEW p \in Product
  PROVE  Bought(Shown, p) = SumFunction([o \in PurchaseOrder |-> BoughtOn(o, p)])
<1>1. PICK X : X = Shown.purchaseOrders OBVIOUS
<1>2. PICK T : T = There(PurchaseOrder) OBVIOUS
<1>3. PICK f : f = [o \in PurchaseOrder |-> BoughtOn(o, p)] OBVIOUS
<1>4. PICK g : g = [x \in X |->
                     QuantityOf(x.lines, p) - QuantityOf(Outstanding(x.id, x.received), p)]
  OBVIOUS
<1>5. \A o \in PurchaseOrder : /\ PurchaseRow[o].id = o /\ PurchaseRow[o].lines = Lines[o]
                               /\ PurchaseRow[o].received = received[o]
  BY DEF PurchaseRow
<1>6. T \in SUBSET PurchaseOrder BY <1>2 DEF There
<1>7. X = {PurchaseRow[o] : o \in T}
  BY <1>1, <1>2, PageRows DEF TypeInv, TablesTyped, AdminTyped, BoundsTyped
<1>8. \A o \in PurchaseOrder : f[o] \in Int
  <2>1. \A o \in PurchaseOrder : BoughtOn(o, p) \in Int BY Entries DEF Doc
  <2> QED BY <1>3, <2>1
<1>9. \A o \in PurchaseOrder \ T : f[o] = 0 BY <1>2, <1>3 DEF BoughtOn, There
<1>10. \A o \in T : g[PurchaseRow[o]] = f[o]
  <2> SUFFICES ASSUME NEW o \in T PROVE g[PurchaseRow[o]] = f[o] OBVIOUS
  <2>0. o \in PurchaseOrder /\ PurchaseRow[o] \in X BY <1>6, <1>7
  <2>3. PurchaseRow[o].id = o /\ PurchaseRow[o].lines = Lines[o] /\ PurchaseRow[o].received = received[o]
    BY <1>5, <2>0
  <2>1. g[PurchaseRow[o]] = QuantityOf(Lines[o], p) - QuantityOf(Outstanding(o, received[o]), p)
    BY <1>4, <2>0, <2>3
  <2>2. f[o] = QuantityOf(Lines[o], p) - QuantityOf(Outstanding(o, received[o]), p)
    BY <1>2, <1>3, <1>6 DEF BoughtOn, There
  <2> QED BY <2>1, <2>2
<1>11. \A x, y \in T : PurchaseRow[x] = PurchaseRow[y] => x = y BY <1>5, <1>6
<1>12. IsFiniteSet(PurchaseOrder) BY FiniteAssumption
<1>13. SumFunctionOnSet(g, {PurchaseRow[o] : o \in T}) = SumFunctionOnSet(f, PurchaseOrder)
  BY <1>6, <1>8, <1>9, <1>10, <1>11, <1>12, PageSum
<1>14. Bought(Shown, p) = SumFunction(g) BY <1>1, <1>4 DEF Bought
<1>15. DOMAIN g = X /\ DOMAIN f = PurchaseOrder BY <1>3, <1>4
<1> QED BY <1>3, <1>7, <1>13, <1>14, <1>15 DEF SumFunction

(* Returns, which the store has none of.                                    *)
LEMMA PageReturned ==
  ASSUME TypeInv, NEW p \in Product
  PROVE  Returned(Shown, p) = SumFunction([d \in SalesReturn |-> ReturnedOn(d, p)])
<1>1. PICK X : X = Shown.salesReturns OBVIOUS
<1>2. PICK T : T = {d \in There(SalesReturn) : mode = "database"} OBVIOUS
<1>3. PICK f : f = [d \in SalesReturn |-> ReturnedOn(d, p)] OBVIOUS
<1>4. PICK g : g = [x \in X |-> IF x.status = "COMPLETED" THEN QuantityOf(x.lines, p) ELSE 0]
  OBVIOUS
<1>5. \A d \in SalesReturn : /\ ReturnRow[d].id = d /\ ReturnRow[d].status = status[d]
                             /\ ReturnRow[d].lines = Lines[d]
  BY DEF ReturnRow
<1>6. T \in SUBSET SalesReturn BY <1>2 DEF There
<1>7. X = {ReturnRow[d] : d \in T}
  BY <1>1, <1>2, PageRows DEF TypeInv, TablesTyped, AdminTyped, BoundsTyped
<1>8. \A d \in SalesReturn : f[d] \in Int
  <2>1. \A d \in SalesReturn : ReturnedOn(d, p) \in Int BY Entries DEF Doc
  <2> QED BY <1>3, <2>1
<1>9. \A d \in SalesReturn \ T : f[d] = 0 BY <1>2, <1>3 DEF ReturnedOn, There
<1>10. \A d \in T : g[ReturnRow[d]] = f[d]
  <2> SUFFICES ASSUME NEW d \in T PROVE g[ReturnRow[d]] = f[d] OBVIOUS
  <2>1. d \in SalesReturn /\ ReturnRow[d] \in X /\ mode = "database" BY <1>2, <1>6, <1>7
  <2>2. ReturnRow[d].status = status[d] /\ ReturnRow[d].lines = Lines[d] BY <1>5, <2>1
  <2>3. g[ReturnRow[d]] = IF status[d] = "COMPLETED" THEN QuantityOf(Lines[d], p) ELSE 0
    BY <1>4, <2>1, <2>2
  <2> QED BY <1>3, <2>1, <2>3 DEF ReturnedOn
<1>11. \A x, y \in T : ReturnRow[x] = ReturnRow[y] => x = y BY <1>5, <1>6
<1>12. IsFiniteSet(SalesReturn) BY FiniteAssumption
<1>13. SumFunctionOnSet(g, {ReturnRow[d] : d \in T}) = SumFunctionOnSet(f, SalesReturn)
  BY <1>6, <1>8, <1>9, <1>10, <1>11, <1>12, PageSum
<1>14. Returned(Shown, p) = SumFunction(g) BY <1>1, <1>4 DEF Returned
<1>15. DOMAIN g = X /\ DOMAIN f = SalesReturn BY <1>3, <1>4
<1> QED BY <1>3, <1>7, <1>13, <1>14, <1>15 DEF SumFunction

(* Work: what was made, less what it took.                                  *)
LEMMA PageBuilt ==
  ASSUME TypeInv, NEW p \in Product
  PROVE  Built(Shown, p) = SumFunction([m \in ManufacturingOrder |-> BuiltOn(m, p)])
<1>1. PICK X : X = Shown.manufacturingOrders OBVIOUS
<1>2. PICK T : T = There(ManufacturingOrder) OBVIOUS
<1>3. PICK f : f = [m \in ManufacturingOrder |-> BuiltOn(m, p)] OBVIOUS
<1>4. PICK g : g = [m \in X |->
                     (IF m.status = "COMPLETED" /\ Build[m.id].product = p
                      THEN Build[m.id].quantity ELSE 0)
                     - (IF m.status \in {"IN_PROGRESS", "COMPLETED"}
                        THEN Needed(used[m.id], p, Build[m.id].quantity) ELSE 0)]
  OBVIOUS
<1>5. \A m \in ManufacturingOrder : BuildRow[m].id = m /\ BuildRow[m].status = status[m]
  BY DEF BuildRow
<1>6. T \in SUBSET ManufacturingOrder BY <1>2 DEF There
<1>7. X = {BuildRow[m] : m \in T}
  BY <1>1, <1>2, PageRows DEF TypeInv, TablesTyped, AdminTyped, BoundsTyped
<1>8. \A m \in ManufacturingOrder : f[m] \in Int
  <2>1. \A m \in ManufacturingOrder : BuiltOn(m, p) \in Int BY EntryInt DEF Doc
  <2> QED BY <1>3, <2>1
<1>9. \A m \in ManufacturingOrder \ T : f[m] = 0
  BY <1>2, <1>3 DEF BuiltOn, MadeOn, TakenFor, There
<1>10. \A m \in T : g[BuildRow[m]] = f[m]
  <2> SUFFICES ASSUME NEW m \in T PROVE g[BuildRow[m]] = f[m] OBVIOUS
  <2>1. m \in ManufacturingOrder /\ BuildRow[m] \in X BY <1>6, <1>7
  <2>2. BuildRow[m].id = m /\ BuildRow[m].status = status[m] BY <1>5, <2>1
  <2>3. g[BuildRow[m]] =
          (IF status[m] = "COMPLETED" /\ Build[m].product = p THEN Build[m].quantity ELSE 0)
          - (IF status[m] \in {"IN_PROGRESS", "COMPLETED"}
             THEN Needed(used[m], p, Build[m].quantity) ELSE 0)
    BY <1>4, <2>1, <2>2
  <2>4. f[m] = MadeOn(m, p) - TakenFor(m, p) BY <1>3, <2>1 DEF BuiltOn
  <2> QED BY <2>3, <2>4 DEF MadeOn, TakenFor
<1>11. \A x, y \in T : BuildRow[x] = BuildRow[y] => x = y BY <1>5, <1>6
<1>12. IsFiniteSet(ManufacturingOrder) BY FiniteAssumption
<1>13. SumFunctionOnSet(g, {BuildRow[m] : m \in T}) = SumFunctionOnSet(f, ManufacturingOrder)
  BY <1>6, <1>8, <1>9, <1>10, <1>11, <1>12, PageSum
<1>14. Built(Shown, p) = SumFunction(g) BY <1>1, <1>4 DEF Built
<1>15. DOMAIN g = X /\ DOMAIN f = ManufacturingOrder BY <1>3, <1>4
<1> QED BY <1>3, <1>7, <1>13, <1>14, <1>15 DEF SumFunction

(* The page is right when the books are.                                    *)
LEMMA PageBooks ==
  ASSUME TypeInv, NEW p \in Product
  PROVE  OnDocuments(Shown, p) = OnBooks(p)
<1>2. /\ Bought(Shown, p) = SumFunction([o \in PurchaseOrder |-> BoughtOn(o, p)])
      /\ Sold(Shown, p) = SumFunction([o \in SalesOrder |-> SoldOn(o, p)])
      /\ Returned(Shown, p) = SumFunction([d \in SalesReturn |-> ReturnedOn(d, p)])
      /\ Built(Shown, p) = SumFunction([m \in ManufacturingOrder |-> BuiltOn(m, p)])
  BY PageBought, PageSold, PageReturned, PageBuilt
<1> QED BY <1>2 DEF OnDocuments, OnBooks

------------------------

(* The invariant at the beginning: what was not posted by the documents     *)
(* there are was posted without one.                                        *)
LEMMA InitBooks == Init => BooksInv
<1> SUFFICES ASSUME Init PROVE BooksInv OBVIOUS
<1>1. TypeInv BY InitOffice DEF OfficeInv
<1>2. PICK start \in Starts : status = start.status /\ depot = start.depot BY DEF Init
<1>3. /\ \A o \in PurchaseOrder : status[o] \in {"ABSENT"} \cup PurchaseStatus
      /\ \A w \in Warehouse : depot[w] = "absent" =>
           /\ \A p \in Product : Opening[p][w] = 0
           /\ \A m \in ManufacturingOrder : Build[m].warehouse = w => status[m] = "ABSENT"
  BY <1>2, StartsAssumption
<1>4. /\ stock = Opening /\ active = Product /\ clashed = {} /\ req = [r \in Request |-> Idle]
      /\ used = [m \in ManufacturingOrder |-> {}]
      /\ plain = [p \in Product |-> InStock(p) - OnDocuments(Shown, p)]
  BY DEF Init
<1>5. NothingNowhere
  <2>1. \A m \in ManufacturingOrder : Build[m].warehouse \in Warehouse
    BY BuildAssumption
  <2> QED BY <1>3, <1>4, <2>1 DEF NothingNowhere
<1>6. Balanced
  <2> SUFFICES ASSUME NEW p \in Product PROVE InStock(p) = plain[p] + OnBooks(p)
    BY DEF Balanced
  <2>1. OnDocuments(Shown, p) = OnBooks(p) BY <1>1, PageBooks
  <2>2. plain[p] = InStock(p) - OnBooks(p) BY <1>4, <2>1
  <2>3. InStock(p) \in Int /\ OnBooks(p) \in Int
    BY <1>1, InStockInt, BooksInt DEF TypeInv, TablesTyped, StockTyped
  <2> QED BY <2>2, <2>3
<1>7. ReceivedInv
  <2>1. received = [o \in PurchaseOrder |-> [i \in DOMAIN Lines[o] |->
                      IF status[o] = "COMPLETED" THEN Lines[o][i].quantity
                      ELSE IF status[o] = "PARTIALLY_RECEIVED" /\ i = 1 THEN 1 ELSE 0]]
    BY DEF Init
  <2> QED BY <1>3, <2>1 DEF ReceivedInv, ReceivedAsSaid
<1>8. UsedInv /\ \A r \in Request : req[r] = Idle BY <1>4 DEF UsedInv
<1> QED BY <1>4, <1>5, <1>6, <1>7, <1>8 DEF BooksInv

(* A product that no clashed document touches is clear.                     *)
LEMMA TouchesPosts ==
  \A d \in Doc : Posts(d) \subseteq Touches(d)
<1> SUFFICES ASSUME NEW d \in Doc PROVE Posts(d) \subseteq Touches(d) OBVIOUS
<1>1. CASE d \in ManufacturingOrder
  <2>1. d \notin DOMAIN Lines BY <1>1, DocAssumption, LinesAssumption
  <2> QED BY <1>1, <2>1 DEF Posts, Touches
<1>2. CASE d \notin ManufacturingOrder
  <2>1. d \in DOMAIN Lines BY <1>2, LinesAssumption DEF Doc
  <2> QED BY <1>2, <2>1 DEF Posts, Touches
<1> QED BY <1>1, <1>2

(* The movements of a product, over all warehouses, come to what the        *)
(* documents on the pages say and to what was posted without one, for every *)
(* set of products, warehouses, documents, forms and concurrent requests,   *)
(* in database mode and in the demo store, wherever a request failed,       *)
(* unless a document of the product was worked on by two requests at a      *)
(* time; and nothing is outstanding on a purchase that is not listed as     *)
(* open, even then.                                                         *)
THEOREM BooksAgree == Spec => []BooksBalance
<1>1. OfficeInv /\ BooksInv => BooksBalance
  <2> SUFFICES ASSUME OfficeInv, BooksInv PROVE BooksBalance OBVIOUS
  <2>1. TypeInv /\ NothingNowhere /\ Balanced /\ ReceivedInv BY DEF OfficeInv, BooksInv
  <2>2. ASSUME NEW p \in Product, \A d \in Doc : d \in clashed => p \notin Touches(d)
        PROVE  InStock(p) = plain[p] + OnDocuments(Shown, p)
    <3>2. Clear(p) BY <2>2, TouchesPosts DEF Clear
    <3>3. InStock(p) = plain[p] + OnBooks(p) BY <2>1, <3>2 DEF Balanced
    <3>4. OnDocuments(Shown, p) = OnBooks(p) BY <2>1, PageBooks
    <3> QED BY <3>3, <3>4
  <2>3. ASSUME NEW x \in Shown.purchaseOrders \ Shown.openPurchaseOrders
        PROVE  \A i \in DOMAIN x.lines : x.received[i] = x.lines[i].quantity
    <3>1. /\ Shown.purchaseOrders = {PurchaseRow[o] : o \in There(PurchaseOrder)}
          /\ Shown.openPurchaseOrders = {y \in Shown.purchaseOrders :
                                           y.status \in {"DRAFT", "SENT", "PARTIALLY_RECEIVED"}}
      BY <2>1, PageRows DEF TypeInv, TablesTyped, AdminTyped, BoundsTyped
    <3>2. PICK o \in There(PurchaseOrder) : x = PurchaseRow[o] BY <2>3, <3>1
    <3>3. o \in PurchaseOrder /\ status[o] # "ABSENT" BY DEF There
    <3>4. x.status = status[o] /\ x.lines = Lines[o] /\ x.received = received[o]
      BY <3>2, <3>3 DEF PurchaseRow
    <3>5. status[o] = "COMPLETED"
      BY <2>1, <2>3, <3>1, <3>3, <3>4 DEF ReceivedInv, ReceivedAsSaid, PurchaseStatus
    <3> QED BY <2>1, <3>3, <3>4, <3>5 DEF ReceivedInv, ReceivedAsSaid
  <2> QED BY <2>2, <2>3 DEF BooksBalance
<1> QED BY <1>1, InitOffice, InitBooks, OfficeKept, BooksKept, PTL DEF Spec

------------------------
(***************************************************************************)
(* The repository and the demo store.  Where no two requests overlap, a    *)
(* request finds everything as it has read it (Recalls), so that what it   *)
(* commits is what the store does at once.                                 *)
(***************************************************************************)
Recalls(r) ==
  LET job == Job(r)
      saw == req[r].saw
      d == job.doc
      t == job.target
  IN
  /\ At(r, "movement", "checked") /\ ChangeOf(job) < 0 =>
       EnoughStock(job.warehouse, OneLine(job))
  /\ At(r, "transfer", "checked") =>
       job.product \in active /\ stock[job.product][job.warehouse] >= job.quantity
  /\ At(r, "count", "checked") => saw[1] = job.counted - stock[job.product][job.warehouse]
  /\ At(r, "receive", "read") => saw[1] = Default
  /\ At(r, "updateBom", "deleted") => recipe[job.recipe] # {} /\ saw[1] = recipe[job.recipe]
  /\ At(r, "createBuild", "counted") => recipe[Build[d].product] # {}
  /\ At(r, "start", "consumed") =>
       /\ saw[1] = recipe[Build[d].product]
       /\ \A p \in Product : Needed(saw[1], p, Build[d].quantity) <= stock[p][Build[d].warehouse]
                             \/ Needed(saw[1], p, Build[d].quantity) = 0
  /\ At(r, "confirm", "read") => saw[1] = Default
  /\ At(r, "confirm", "summed") => saw[1] \in Default /\ EnoughStock(saw[1], Lines[d])
  /\ At(r, "startPicking", "read") => status[d] = "CONFIRMED"
  /\ At(r, "pack", "read") => status[d] = "PICKING"
  /\ At(r, "ship", "counted") => status[d] = "PACKED"
  /\ At(r, "deliver", "read") => status[d] = "SHIPPED"
  /\ At(r, "createInvoice", "counted") => bill[t].status = "ABSENT"
  /\ At(r, "pay", "read") => bill[t].status # "ABSENT" /\ saw[1] = bill[t]
  /\ At(r, "transition", "read") => bill[t].status # "ABSENT"
  /\ job.op \in {"createWarehouse", "apiCreateWarehouse"} /\ req[r].at = "cleared" =>
       /\ depot[t] = "absent" /\ saw[2] = Default
       /\ saw[1] = (job.default \/ \A v \in Warehouse : depot[v] = "absent")
  /\ job.op \in {"updateWarehouse", "apiUpdateWarehouse"} /\ req[r].at = "cleared" =>
       depot[t] # "absent" /\ saw[1] = job.default /\ saw[2] = Default
  /\ At(r, "createUser", "read") => job.actor \in Managers /\ role[job.user] = "none"
  /\ job.op \in {"updateRole", "deleteUser"} /\ req[r].at = "read" =>
       job.actor \in Managers /\ OfSomebodyElse(job)

\* It is under way with nobody beside it, about a form that was offered.
Undisturbed ==
  /\ "application" \notin clashed => clashed = {} /\ \A r \in Request : Recalls(r)
  /\ \A r \in Request : req[r] # Idle => Job(r) \in Submitted

Attentive(r) ==
  /\ TypeInv /\ clashed = {}
  /\ Recalls(r) /\ Placed(r) /\ Ready(r) /\ Job(r) \in Submitted

Alike == Twin!Next \/ OnlyInDatabase \/ UNCHANGED Twin!demoVars

Tables == <<stock, status, received, recipe, depot, active, role, rows, bill>>

\* The status of a document as the store has it.
AsSeen(s) == IF s \in {"PICKING", "PACKED", "SHIPPED", "DELIVERED"} THEN "CONFIRMED" ELSE s

LEMMA SeenStatus ==
  /\ Seen.status = [d \in Doc |-> AsSeen(status[d])]
  /\ (Seen.status)' = [d \in Doc |-> AsSeen(status'[d])]
BY DEF Seen, AsSeen

LEMMA SeenSame ==
  ASSUME UNCHANGED status
  PROVE  (Seen.status)' = Seen.status
BY SeenStatus

LEMMA SeenSet ==
  ASSUME status \in [Doc -> DocStatus], NEW d \in Doc, NEW to,
         status' = [status EXCEPT ![d] = to]
  PROVE  (Seen.status)' = [Seen.status EXCEPT ![d] = AsSeen(to)]
<1>1. (Seen.status)' = [e \in Doc |-> IF e = d THEN AsSeen(to) ELSE AsSeen(status[e])]
  BY SeenStatus
<1> QED BY <1>1, SeenStatus

LEMMA UnchangedAlike ==
  ASSUME UNCHANGED <<stockVars, docVars, adminVars>>
  PROVE  UNCHANGED Twin!demoVars
<1>1. UNCHANGED Tables BY DEF stockVars, docVars, adminVars, Tables
<1>2. (Seen.status)' = Seen.status BY <1>1, SeenSame DEF Tables
<1> QED BY <1>1, <1>2 DEF Twin!demoVars, Tables

LEMMA IdleRecalls ==
  ASSUME NEW r, req'[r] = Idle
  PROVE  Recalls(r)'
BY DEF Recalls, At, Idle, NoJob, Job

LEMMA CheckAlike ==
  ASSUME TypeInv, NEW r \in Request, req[r].at \in Steps, NEW ok, NEW step \in Steps, NEW saw,
         IF ok THEN Advance(r, step, saw) ELSE Finish(r),
         UNCHANGED <<stockVars, docVars, adminVars, boundVars>>,
         ok /\ req'[r].job = req[r].job /\ req'[r].at = step /\ req'[r].saw = saw
           => Recalls(r)'
  PROVE  Alike /\ Recalls(r)'
<1>1. Alike BY UnchangedAlike DEF Alike
<1>2. CASE ok BY <1>1, <1>2, Checked DEF TypeInv
<1>3. CASE ~ok BY <1>1, <1>3, Checked, IdleRecalls DEF TypeInv
<1> QED BY <1>1, <1>2, <1>3

LEMMA CommitAlike ==
  ASSUME TypeInv, NEW r \in Request, req[r].at \in Steps, Commits(r)
  PROVE  Recalls(r)'
BY Committed, IdleRecalls DEF TypeInv

LEMMA TwinStep ==
  ASSUME NEW job \in Submitted, Twin!Does(AsForm(job))
  PROVE  Alike
BY DEF Twin!Next, Alike

LEMMA TwinSums ==
  /\ \A lines, p : Twin!ProductSum(lines, p) = QuantityOf(lines, p)
  /\ \A rowset, p, o : Twin!Takes(rowset, p, o) = Needed(rowset, p, Build[o].quantity)
<1>1. ASSUME NEW f PROVE Twin!SumFunction(f) = SumFunction(f)
  BY Zenon DEF Twin!SumFunction, SumFunction, Twin!SumFunctionOnSet, SumFunctionOnSet,
               Twin!FoldFunctionOnSet, FoldFunctionOnSet, Twin!MapThenFoldSet, MapThenFoldSet
<1>2. ASSUME NEW lines, NEW p PROVE Twin!ProductSum(lines, p) = QuantityOf(lines, p)
  BY <1>1, Zenon DEF Twin!ProductSum, QuantityOf
<1>3. ASSUME NEW rowset, NEW p, NEW o
      PROVE  Twin!Takes(rowset, p, o) = Needed(rowset, p, Build[o].quantity)
  BY <1>1, Zenon DEF Twin!Takes, Needed
<1> QED BY <1>2, <1>3

LEMMA TwinPosts ==
  ASSUME stock \in [Product -> [Warehouse -> Int]], NEW w \in Warehouse, NEW lines,
         IsFiniteSet(DOMAIN lines), \A i \in DOMAIN lines : lines[i].quantity \in Int,
         NEW sign \in {1, -1}
  PROVE  Twin!Posted(w, lines, sign) = Moved(w, lines, sign)
<1>1. Twin!Posted(w, lines, sign) = Demo!Posted(w, lines, sign)
  BY TwinSums, DemoSums, Zenon DEF Twin!Posted, Demo!Posted
<1> QED BY <1>1, PostedIsMoved

(* The form that stands for an endpoint has its fields.                     *)
LEMMA Renamed ==
  ASSUME NEW job \in Form
  PROVE  /\ job.op \notin {"apiCreateOrder", "portalOrder", "apiCreatePurchase", "apiCreateCredit",
                           "apiCreateProduct", "apiUpdateProduct", "apiCreateSupplier",
                           "apiUpdateSupplier", "apiCreateCustomer", "apiCreateWarehouse",
                           "apiUpdateWarehouse", "apiDeactivate"} => AsForm(job) = job
         /\ job.op \in {"apiCreateOrder", "portalOrder"} => AsForm(job).op = "createOrder"
         /\ job.op = "apiCreatePurchase" => AsForm(job).op = "createPurchase"
         /\ job.op = "apiCreateCredit" => AsForm(job).op = "createCredit"
         /\ job.op = "apiCreateProduct" => AsForm(job).op = "createProduct"
         /\ job.op = "apiUpdateProduct" => AsForm(job).op = "updateProduct"
         /\ job.op = "apiCreateSupplier" => AsForm(job).op = "createSupplier"
         /\ job.op = "apiUpdateSupplier" => AsForm(job).op = "updateSupplier"
         /\ job.op = "apiCreateCustomer" => AsForm(job).op = "createCustomer"
         /\ job.op = "apiCreateWarehouse" => AsForm(job).op = "createWarehouse"
         /\ job.op = "apiUpdateWarehouse" => AsForm(job).op = "updateWarehouse"
         /\ job.op \in CreatingOps => AsForm(job).doc = job.doc
         /\ job.op \in CatalogueOps => AsForm(job).target = job.target /\ AsForm(job).key = job.key
         /\ job.op \in {"createWarehouse", "updateWarehouse", "apiCreateWarehouse",
                        "apiUpdateWarehouse"} =>
              AsForm(job).target = job.target /\ AsForm(job).default = job.default
<1> DEFINE Api == {"apiCreateOrder", "portalOrder", "apiCreatePurchase", "apiCreateCredit",
                   "apiCreateProduct", "apiUpdateProduct", "apiCreateSupplier",
                   "apiUpdateSupplier", "apiCreateCustomer", "apiCreateWarehouse",
                   "apiUpdateWarehouse"}
<1>1. /\ DOMAIN WebForm = Api
      /\ WebForm["apiCreateOrder"] = "createOrder" /\ WebForm["portalOrder"] = "createOrder"
      /\ WebForm["apiCreatePurchase"] = "createPurchase"
      /\ WebForm["apiCreateCredit"] = "createCredit"
      /\ WebForm["apiCreateProduct"] = "createProduct"
      /\ WebForm["apiUpdateProduct"] = "updateProduct"
      /\ WebForm["apiCreateSupplier"] = "createSupplier"
      /\ WebForm["apiUpdateSupplier"] = "updateSupplier"
      /\ WebForm["apiCreateCustomer"] = "createCustomer"
      /\ WebForm["apiCreateWarehouse"] = "createWarehouse"
      /\ WebForm["apiUpdateWarehouse"] = "updateWarehouse"
  BY DEF WebForm
<1>2. job.op \notin Api \cup {"apiDeactivate"} => AsForm(job) = job BY <1>1 DEF AsForm
<1>3. "op" \in DOMAIN job
  BY DEF Form, OnStock, OnOrders, OnInvoices, OnMembers, OnWarehouses, OnCatalogue
<1>4. job.op \in Api =>
        /\ AsForm(job) = [job EXCEPT !.op = WebForm[job.op]]
        /\ AsForm(job).op = WebForm[job.op]
  BY <1>1, <1>3 DEF AsForm
<1>5. job.op \in CreatingOps => "doc" \in DOMAIN job
  BY DEF CreatingOps, Form, OnStock, OnOrders, OnInvoices, OnMembers, OnWarehouses, OnCatalogue
<1>6. job.op \in CatalogueOps => "target" \in DOMAIN job /\ "key" \in DOMAIN job
  BY DEF CatalogueOps, Form, OnStock, OnOrders, OnInvoices, OnMembers, OnWarehouses, OnCatalogue
<1>7. job.op \in {"createWarehouse", "updateWarehouse", "apiCreateWarehouse", "apiUpdateWarehouse"}
        => "target" \in DOMAIN job /\ "default" \in DOMAIN job
  BY DEF Form, OnStock, OnOrders, OnInvoices, OnMembers, OnWarehouses, OnCatalogue
<1>8. job.op \in CreatingOps => AsForm(job).doc = job.doc
  BY <1>2, <1>4, <1>5 DEF CreatingOps
<1>9. job.op \in CatalogueOps => AsForm(job).target = job.target /\ AsForm(job).key = job.key
  BY <1>2, <1>4, <1>6 DEF CatalogueOps
<1>10. job.op \in {"createWarehouse", "updateWarehouse", "apiCreateWarehouse", "apiUpdateWarehouse"}
         => AsForm(job).target = job.target /\ AsForm(job).default = job.default
  BY <1>2, <1>4, <1>7
<1> QED BY <1>1, <1>2, <1>4, <1>8, <1>9, <1>10

(* What the request has read, or tested, while it is about one kind of job. *)
LEMMA NothingRecalled ==
  ASSUME NEW r, req'[r].job = req[r].job,
         Job(r).op \notin {"movement", "transfer", "count", "receive", "updateBom", "createBuild",
                           "start", "confirm", "startPicking", "pack", "ship", "deliver",
                           "createInvoice", "pay", "transition", "createWarehouse",
                           "apiCreateWarehouse", "updateWarehouse", "apiUpdateWarehouse",
                           "createUser", "updateRole", "deleteUser"}
  PROVE  Recalls(r)'
BY DEF Recalls, At, Job

LEMMA AttentiveTyped ==
  ASSUME NEW r, Attentive(r)
  PROVE  /\ TypeInv /\ clashed = {} /\ Recalls(r) /\ Placed(r) /\ Job(r) \in Submitted
         /\ stock \in [Product -> [Warehouse -> Int]]
         /\ status \in [Doc -> DocStatus]
         /\ DOMAIN received = PurchaseOrder /\ \A o \in PurchaseOrder : received[o] \in Received(o)
         /\ recipe \in [Product -> ComponentRows]
         /\ depot \in [Warehouse -> {"absent", "plain", "default"}]
         /\ role \in [User -> {"none"} \cup Role]
         /\ bill \in [Invoice -> InvoiceRow]
         /\ rows \in SUBSET CatalogueRow
         /\ Job(r).op \in DocOps /\ req[r].at # "begun" => Fresh(r)
BY DEF Attentive, TypeInv, TablesTyped, StockTyped, DocsTyped, AdminTyped, Ready

(* Of the tables that only the documents' functions write, and of the rest. *)
LEMMA TablesSame ==
  /\ UNCHANGED docVars => UNCHANGED <<received, recipe>> /\ (Seen.status)' = Seen.status
  /\ UNCHANGED stockVars => UNCHANGED stock
  /\ UNCHANGED adminVars => UNCHANGED <<depot, active, role, rows, bill>>
BY SeenSame DEF stockVars, docVars, adminVars

LEMMA MovementAlike ==
  ASSUME NEW r \in Request, Attentive(r), CreateStockMovement(r)
  PROVE  Alike /\ Recalls(r)'
<1>1. /\ Job(r).op = "movement" /\ Parsed(Job(r)) /\ req[r].at \in Steps
      /\ At(r, "movement", "begun") \/ At(r, "movement", "checked")
  BY AttentiveTyped, AtWorks DEF CreateStockMovement, Steps
<1>0. PICK job : job = Job(r) OBVIOUS
<1>2. /\ job.product \in Product /\ job.warehouse \in Warehouse
      /\ job.quantity \in Int /\ job.quantity > 0 /\ job \in Form
  BY <1>0, <1>1, StockForms, Schemas DEF Parsed
<1>3. CASE At(r, "movement", "begun")
  <2> DEFINE ok == ChangeOf(job) < 0 => EnoughStock(job.warehouse, OneLine(job))
  <2>1. IF ok THEN Advance(r, "checked", <<>>) ELSE Finish(r)
    BY <1>0, <1>3 DEF CreateStockMovement, At, Check
  <2>2. UNCHANGED <<stockVars, docVars, adminVars, boundVars>>
    BY <1>3 DEF CreateStockMovement, At, Check
  <2>3. ASSUME ok, req'[r].job = req[r].job PROVE Recalls(r)'
    <3>1. stock' = stock BY <2>2 DEF stockVars
    <3>2. req'[r].job = job /\ job.op = "movement" BY <1>0, <1>1, <2>3 DEF Job
    <3> QED BY <2>3, <3>1, <3>2 DEF Recalls, At, Job, EnoughStock
  <2> HIDE DEF ok
  <2> QED BY <1>1, <2>1, <2>2, <2>3, AttentiveTyped, CheckAlike DEF Steps
<1>4. CASE At(r, "movement", "checked")
  <2> DEFINE sign == IF job.type = "OUTBOUND" THEN -1 ELSE 1
             line == OneLine(job)
  <2>1. /\ stock' = Moved(job.warehouse, line, sign)
        /\ Commits(r) /\ UNCHANGED <<docVars, adminVars>>
    BY <1>0, <1>4 DEF CreateStockMovement, At
  <2>2. stock' = Twin!Posted(job.warehouse, line, sign)
    <3>1. sign \in {1, -1} OBVIOUS
    <3>2. IsFiniteSet(DOMAIN line) /\ \A i \in DOMAIN line : line[i].quantity \in Int
      BY <1>2, OneLineQuantity
    <3> HIDE DEF sign, line
    <3> QED BY <1>2, <2>1, <3>1, <3>2, AttentiveTyped, TwinPosts
  <2>3. job.type = "OUTBOUND" => Twin!OnHand(job.warehouse, line)
    <3>1. job.type = "OUTBOUND" => ChangeOf(job) < 0 BY <1>2 DEF ChangeOf
    <3>2. ChangeOf(job) < 0 => EnoughStock(job.warehouse, line)
      BY <1>0, <1>4, AttentiveTyped DEF Recalls
    <3> QED BY <3>1, <3>2 DEF EnoughStock, Twin!OnHand
  <2>4. Twin!CreateStockMovement(job)
    BY <1>0, <1>1, <2>1, <2>2, <2>3, TablesSame DEF Twin!CreateStockMovement, OneLine
  <2>5. AsForm(job) = job /\ job \in Submitted
    BY <1>0, <1>1, <1>2, Renamed, AttentiveTyped
  <2>6. Alike BY <2>4, <2>5, TwinStep DEF Twin!Does
  <2> QED BY <1>1, <2>1, <2>6, AttentiveTyped, CommitAlike
<1> QED BY <1>1, <1>3, <1>4

LEMMA TransferAlike ==
  ASSUME NEW r \in Request, Attentive(r), CreateStockTransfer(r)
  PROVE  Alike /\ Recalls(r)'
<1>1. /\ Job(r).op = "transfer" /\ Parsed(Job(r)) /\ req[r].at \in Steps
      /\ At(r, "transfer", "begun") \/ At(r, "transfer", "checked")
  BY AttentiveTyped, AtWorks DEF CreateStockTransfer, Steps
<1>0. PICK job : job = Job(r) OBVIOUS
<1>2. /\ job.product \in Product /\ job.warehouse \in Warehouse /\ job.to \in Warehouse
      /\ job.quantity \in Int /\ job \in Form
  BY <1>0, <1>1, StockForms DEF Parsed
<1>3. CASE At(r, "transfer", "begun")
  <2> DEFINE ok == /\ job.product \in active
                   /\ depot[job.warehouse] # "absent"
                   /\ depot[job.to] # "absent"
                   /\ EnoughStock(job.warehouse, OneLine(job))
  <2>1. IF ok THEN Advance(r, "checked", <<>>) ELSE Finish(r)
    BY <1>0, <1>3 DEF CreateStockTransfer, At, Check
  <2>2. UNCHANGED <<stockVars, docVars, adminVars, boundVars>>
    BY <1>3 DEF CreateStockTransfer, At, Check
  <2>3. ASSUME ok, req'[r].job = req[r].job PROVE Recalls(r)'
    <3>1. stock' = stock /\ active' = active BY <2>2 DEF stockVars, adminVars
    <3>2. req'[r].job = job /\ job.op = "transfer" BY <1>0, <1>1, <2>3 DEF Job
    <3>3. stock[job.product][job.warehouse] >= job.quantity
      BY <1>2, <2>3, OneLineQuantity
    <3> QED BY <2>3, <3>1, <3>2, <3>3 DEF Recalls, At, Job
  <2> HIDE DEF ok
  <2> QED BY <1>1, <2>1, <2>2, <2>3, AttentiveTyped, CheckAlike DEF Steps
<1>4. CASE At(r, "transfer", "checked")
  <2>1. /\ stock' = [stock EXCEPT ![job.product] = [v \in Warehouse |->
                       stock[job.product][v] + (IF v = job.to THEN job.quantity ELSE 0)
                                             - (IF v = job.warehouse THEN job.quantity ELSE 0)]]
        /\ Commits(r) /\ UNCHANGED <<docVars, adminVars>>
    BY <1>0, <1>4 DEF CreateStockTransfer, At
  <2>2. job.product \in active /\ stock[job.product][job.warehouse] >= job.quantity
    BY <1>0, <1>4, AttentiveTyped DEF Recalls
  <2>3. depot[job.warehouse] # "absent" /\ depot[job.to] # "absent"
    BY <1>0, <1>1, AttentiveTyped DEF Placed
  <2>4. Twin!CreateStockTransfer(job)
    BY <1>0, <1>1, <2>1, <2>2, <2>3, TablesSame DEF Twin!CreateStockTransfer
  <2>5. AsForm(job) = job /\ job \in Submitted
    BY <1>0, <1>1, <1>2, Renamed, AttentiveTyped
  <2>6. Alike BY <2>4, <2>5, TwinStep DEF Twin!Does
  <2> QED BY <1>1, <2>1, <2>6, AttentiveTyped, CommitAlike
<1> QED BY <1>1, <1>3, <1>4

LEMMA CountAlike ==
  ASSUME NEW r \in Request, Attentive(r), RecordStocktakeCount(r)
  PROVE  Alike /\ Recalls(r)'
<1>1. /\ Job(r).op = "count" /\ Parsed(Job(r)) /\ req[r].at \in Steps
      /\ At(r, "count", "begun") \/ At(r, "count", "checked")
  BY AttentiveTyped, AtWorks DEF RecordStocktakeCount, Steps
<1>0. PICK job : job = Job(r) OBVIOUS
<1>2. /\ job.product \in Product /\ job.warehouse \in Warehouse /\ job.counted \in Int
      /\ job \in Form
  BY <1>0, <1>1, StockForms DEF Parsed
<1>3. CASE At(r, "count", "begun")
  <2> DEFINE saw == <<job.counted - stock[job.product][job.warehouse]>>
  <2>1. PICK ok : IF ok THEN Advance(r, "checked", saw) ELSE Finish(r)
    BY <1>0, <1>3 DEF RecordStocktakeCount, At, Check
  <2>2. UNCHANGED <<stockVars, docVars, adminVars, boundVars>>
    BY <1>3 DEF RecordStocktakeCount, At, Check
  <2>3. ASSUME req'[r].job = req[r].job, req'[r].saw = saw PROVE Recalls(r)'
    <3>1. stock' = stock BY <2>2 DEF stockVars
    <3>2. req'[r].job = job /\ job.op = "count" BY <1>0, <1>1, <2>3 DEF Job
    <3> QED BY <2>3, <3>1, <3>2 DEF Recalls, At, Job
  <2> HIDE DEF saw
  <2> QED BY <1>1, <2>1, <2>2, <2>3, AttentiveTyped, CheckAlike DEF Steps
<1>4. CASE At(r, "count", "checked")
  <2> DEFINE p == job.product
             w == job.warehouse
  <2>1. /\ stock' = [stock EXCEPT ![p][w] = @ + req[r].saw[1]]
        /\ Commits(r) /\ UNCHANGED <<docVars, adminVars>>
    BY <1>0, <1>4 DEF RecordStocktakeCount, At
  <2>2. req[r].saw[1] = job.counted - stock[p][w]
    BY <1>0, <1>4, AttentiveTyped DEF Recalls
  <2>3. stock[p][w] \in Int BY <1>2, AttentiveTyped
  <2>4. stock[p][w] + req[r].saw[1] = job.counted BY <1>2, <2>2, <2>3
  <2>5. stock' = [stock EXCEPT ![p][w] = job.counted] BY <2>1, <2>4
  <2>6. Twin!RecordStocktakeCount(job)
    BY <1>0, <1>1, <2>1, <2>5, TablesSame DEF Twin!RecordStocktakeCount
  <2>7. AsForm(job) = job /\ job \in Submitted
    BY <1>0, <1>1, <1>2, Renamed, AttentiveTyped
  <2>8. Alike BY <2>6, <2>7, TwinStep DEF Twin!Does
  <2> QED BY <1>1, <2>1, <2>8, AttentiveTyped, CommitAlike
<1> QED BY <1>1, <1>3, <1>4

(* The creation of documents.  The store creates the same one; it has no    *)
(* returns and suggests no purchases.                                       *)
LEMMA CreatingAlike ==
  ASSUME NEW r \in Request, Attentive(r),
         \/ CreateSalesOrder(r) \/ CreatePurchaseOrder(r) \/ GenerateSmartPurchaseOrders(r)
         \/ CreateSalesReturn(r) \/ CreateCreditNote(r)
         \/ ApiCreateSalesOrder(r) \/ PortalPlaceOrder(r) \/ ApiCreatePurchaseOrder(r)
         \/ ApiCreateSalesReturn(r) \/ ApiCreateCreditNote(r)
  PROVE  Alike /\ Recalls(r)'
<1>1. PICK op \in CreatingOps \ {"createBuild"} :
        \/ /\ At(r, op, "begun") \/ At(r, op, "read")
           /\ \E ok, saw : \E step \in {"read", "counted"} :
                IF ok THEN Advance(r, step, saw) ELSE Finish(r)
           /\ UNCHANGED <<stockVars, docVars, adminVars, boundVars>>
        \/ /\ At(r, op, "counted")
           /\ \E to \in {"DRAFT", "SENT"} :
                /\ status' = status \/ status' = [status EXCEPT ![Job(r).doc] = to]
                /\ to = "SENT" <=> op \in {"createPurchase", "apiCreatePurchase"}
           /\ Commits(r)
           /\ UNCHANGED <<stockVars, received, lists, shipments, recipe, used, adminVars>>
  BY DEF CreateSalesOrder, CreatePurchaseOrder, GenerateSmartPurchaseOrders,
       CreateSalesReturn, CreateCreditNote, ApiCreateSalesOrder,
       PortalPlaceOrder, ApiCreatePurchaseOrder, ApiCreateSalesReturn, ApiCreateCreditNote,
       Numbered, Check, CreatingOps
<1>2. Job(r).op = op /\ req[r].at \in Steps /\ Parsed(Job(r)) /\ op \in DocOps
  BY <1>1, AttentiveTyped, AtWorks DEF Steps, DocOps
<1>0. PICK job : job = Job(r) OBVIOUS
<1>3. job \in Form /\ job \in Submitted BY <1>0, <1>2, AttentiveTyped DEF Parsed
<1>4. CASE At(r, op, "begun") \/ At(r, op, "read")
  <2>1. PICK ok, saw : \E step \in {"read", "counted"} :
               IF ok THEN Advance(r, step, saw) ELSE Finish(r)
    BY <1>1, <1>4 DEF At
  <2>2. PICK step \in {"read", "counted"} : IF ok THEN Advance(r, step, saw) ELSE Finish(r)
    BY <2>1
  <2>3. UNCHANGED <<stockVars, docVars, adminVars, boundVars>> BY <1>1, <1>4 DEF At
  <2>4. req'[r].job = req[r].job => Recalls(r)' BY <1>2, NothingRecalled DEF CreatingOps
  <2> QED BY <1>2, <2>2, <2>3, <2>4, AttentiveTyped, CheckAlike DEF Steps
<1>5. CASE At(r, op, "counted")
  <2>1. PICK to \in {"DRAFT", "SENT"} :
           /\ status' = status \/ status' = [status EXCEPT ![job.doc] = to]
           /\ to = "SENT" <=> op \in {"createPurchase", "apiCreatePurchase"}
    BY <1>0, <1>1, <1>5 DEF At
  <2>2. /\ Commits(r)
        /\ UNCHANGED <<stockVars, received, lists, shipments, recipe, used, adminVars>>
    BY <1>1, <1>5 DEF At
  <2>3. UNCHANGED <<stock, received, recipe, depot, active, role, rows, bill>>
    BY <2>2 DEF stockVars, adminVars
  <2>4. status[job.doc] = "ABSENT" /\ job.doc \in Doc
    <3>1. Fresh(r) BY <1>2, <1>5, AttentiveTyped DEF At
    <3> QED BY <1>0, <1>2, <1>3, <3>1, AboutDocs DEF Fresh, CreatingOps
  <2>5. Alike
    <3>1. CASE status' = status
      <4>1. UNCHANGED Twin!demoVars BY <2>3, <3>1, SeenSame DEF Twin!demoVars
      <4> QED BY <4>1 DEF Alike
    <3>2. CASE status' = [status EXCEPT ![job.doc] = to] /\ op \in {"createReturn", "apiCreateReturn"}
      <4>1. job.doc \in SalesReturn BY <1>0, <1>2, <1>3, <3>2, AboutDocs
      <4>2. status'[job.doc] # status[job.doc] BY <2>1, <2>4, <3>2, AttentiveTyped
      <4> QED BY <4>1, <4>2 DEF Alike, OnlyInDatabase
    <3>3. CASE status' = [status EXCEPT ![job.doc] = to] /\ op = "suggest"
      <4>1. job.doc \in PurchaseOrder /\ to = "DRAFT"
        BY <1>0, <1>2, <1>3, <2>1, <3>3, AboutDocs
      <4>2. status'[job.doc] = "DRAFT" BY <2>4, <3>3, <4>1, AttentiveTyped
      <4> QED BY <2>4, <4>1, <4>2 DEF Alike, OnlyInDatabase
    <3>4. CASE /\ status' = [status EXCEPT ![job.doc] = to]
               /\ op \notin {"createReturn", "apiCreateReturn", "suggest"}
      <4>1. PICK form : form = AsForm(job) OBVIOUS
      <4>2. /\ op \in {"createOrder", "apiCreateOrder", "portalOrder"} =>
                 form.op = "createOrder" /\ job.doc \in SalesOrder
            /\ op \in {"createPurchase", "apiCreatePurchase"} =>
                 form.op = "createPurchase" /\ job.doc \in PurchaseOrder
            /\ op \in {"createCredit", "apiCreateCredit"} =>
                 form.op = "createCredit" /\ job.doc \in CreditNote
            /\ form.doc = job.doc
        BY <1>0, <1>2, <1>3, <4>1, Renamed, AboutDocs
      <4>3. AsSeen(to) = to /\ Seen.status[job.doc] = "ABSENT"
        BY <2>1, <2>4, SeenStatus DEF AsSeen
      <4>4. (Seen.status)' = [Seen.status EXCEPT ![job.doc] = to]
        <5>1. (Seen.status)' = [Seen.status EXCEPT ![job.doc] = AsSeen(to)]
          BY <2>4, <3>4, SeenSet, AttentiveTyped
        <5> QED BY <4>3, <5>1
      <4>5. Twin!SetsStatus(form.doc, {"ABSENT"}, to)
        BY <4>2, <4>3, <4>4 DEF Twin!SetsStatus
      <4>6. \/ Twin!CreateSalesOrder(form) \/ Twin!CreatePurchaseOrder(form)
            \/ Twin!CreateCreditNote(form)
        BY <2>1, <2>3, <3>4, <4>2, <4>5
           DEF Twin!CreateSalesOrder, Twin!CreatePurchaseOrder, Twin!CreateCreditNote,
               Twin!Creates, CreatingOps
      <4> QED BY <1>3, <4>1, <4>6, TwinStep DEF Twin!Does
    <3> QED BY <2>1, <3>1, <3>2, <3>3, <3>4
  <2> QED BY <1>2, <2>2, <2>5, AttentiveTyped, CommitAlike
<1> QED BY <1>1, <1>4, <1>5

LEMMA BuildAlike ==
  ASSUME NEW r \in Request, Attentive(r), CreateManufacturingOrder(r)
  PROVE  Alike /\ Recalls(r)'
<1>1. /\ Job(r).op = "createBuild" /\ Parsed(Job(r)) /\ req[r].at \in Steps
      /\ At(r, "createBuild", "begun") \/ At(r, "createBuild", "counted")
  BY AttentiveTyped, AtWorks DEF CreateManufacturingOrder, Steps
<1>0. PICK job : job = Job(r) OBVIOUS
<1>2. job.doc \in ManufacturingOrder /\ job.doc \in Doc /\ job \in Form
  BY <1>0, <1>1, AboutDocs DEF Parsed, DocOps, CreatingOps
<1>3. CASE At(r, "createBuild", "begun")
  <2> DEFINE ok == status[job.doc] = "ABSENT" /\ recipe[Build[job.doc].product] # {}
  <2>1. PICK saw : IF ok THEN Advance(r, "counted", saw) ELSE Finish(r)
    BY <1>0, <1>3 DEF CreateManufacturingOrder, At, Check
  <2>2. UNCHANGED <<stockVars, docVars, adminVars, boundVars>>
    BY <1>3 DEF CreateManufacturingOrder, At, Check
  <2>3. ASSUME ok, req'[r].job = req[r].job PROVE Recalls(r)'
    <3>1. recipe' = recipe BY <2>2 DEF docVars
    <3>2. req'[r].job = job /\ job.op = "createBuild" BY <1>0, <1>1, <2>3 DEF Job
    <3> QED BY <2>3, <3>1, <3>2 DEF Recalls, At, Job
  <2> HIDE DEF ok
  <2> QED BY <1>1, <2>1, <2>2, <2>3, AttentiveTyped, CheckAlike DEF Steps
<1>4. CASE At(r, "createBuild", "counted")
  <2>1. /\ status' = status \/ status' = [status EXCEPT ![job.doc] = "DRAFT"]
        /\ Commits(r)
        /\ UNCHANGED <<stockVars, received, lists, shipments, recipe, used, adminVars>>
    BY <1>0, <1>4 DEF CreateManufacturingOrder, At
  <2>2. UNCHANGED <<stock, received, recipe, depot, active, role, rows, bill>>
    BY <2>1 DEF stockVars, adminVars
  <2>3. /\ status[job.doc] = "ABSENT" /\ recipe[Build[job.doc].product] # {}
        /\ depot[Build[job.doc].warehouse] # "absent"
    <3>1. Fresh(r) BY <1>1, <1>4, AttentiveTyped DEF At, DocOps, CreatingOps
    <3> QED BY <1>0, <1>1, <1>4, <3>1, AttentiveTyped DEF Fresh, Recalls, Placed, CreatingOps
  <2>4. Alike
    <3>1. CASE status' = status
      <4>1. UNCHANGED Twin!demoVars BY <2>2, <3>1, SeenSame DEF Twin!demoVars
      <4> QED BY <4>1 DEF Alike
    <3>2. CASE status' = [status EXCEPT ![job.doc] = "DRAFT"]
      <4>1. AsSeen("DRAFT") = "DRAFT" /\ Seen.status[job.doc] = "ABSENT"
        BY <1>2, <2>3, SeenStatus DEF AsSeen
      <4>2. (Seen.status)' = [Seen.status EXCEPT ![job.doc] = "DRAFT"]
        BY <1>2, <3>2, <4>1, SeenSet, AttentiveTyped
      <4>3. Twin!CreateManufacturingOrder(job)
        BY <1>0, <1>1, <1>2, <2>2, <2>3, <4>1, <4>2
           DEF Twin!CreateManufacturingOrder, Twin!Creates, Twin!SetsStatus
      <4>4. AsForm(job) = job /\ job \in Submitted
        BY <1>0, <1>1, <1>2, Renamed, AttentiveTyped
      <4> QED BY <4>3, <4>4, TwinStep DEF Twin!Does
    <3> QED BY <2>1, <3>1, <3>2
  <2> QED BY <1>1, <2>1, <2>4, AttentiveTyped, CommitAlike
<1> QED BY <1>1, <1>3, <1>4

LEMMA ReceiveAlike ==
  ASSUME NEW r \in Request, Attentive(r), ReceivePurchaseOrder(r)
  PROVE  Alike /\ Recalls(r)'
<1>1. /\ Job(r).op = "receive" /\ Parsed(Job(r)) /\ req[r].at \in Steps
      /\ At(r, "receive", "begun") \/ At(r, "receive", "read")
  BY AttentiveTyped, AtWorks DEF ReceivePurchaseOrder, Steps
<1>0. PICK job : job = Job(r) OBVIOUS
<1> DEFINE o == job.doc
<1>2. o \in PurchaseOrder /\ o \in Doc /\ job \in Form
  BY <1>0, <1>1, AboutDocs DEF Parsed, DocOps
<1>3. CASE At(r, "receive", "begun")
  <2> DEFINE saw == <<Default, received[o]>>
  <2>1. PICK ok : IF ok THEN Advance(r, "read", saw) ELSE Finish(r)
    BY <1>0, <1>3 DEF ReceivePurchaseOrder, At, Check
  <2>2. UNCHANGED <<stockVars, docVars, adminVars, boundVars>>
    BY <1>3 DEF ReceivePurchaseOrder, At, Check
  <2>3. ASSUME req'[r].job = req[r].job, req'[r].saw = saw PROVE Recalls(r)'
    <3>1. Default' = Default BY <2>2 DEF adminVars, Default
    <3>2. req'[r].job = job /\ job.op = "receive" /\ req'[r].saw[1] = Default
      BY <1>0, <1>1, <2>3 DEF Job
    <3> QED BY <3>1, <3>2 DEF Recalls, At, Job
  <2> HIDE DEF saw
  <2> QED BY <1>1, <2>1, <2>2, <2>3, AttentiveTyped, CheckAlike DEF Steps
<1>4. CASE At(r, "receive", "read")
  <2>1. /\ \E w \in req[r].saw[1] : stock' = Moved(w, Outstanding(o, req[r].saw[2]), 1)
        /\ received' = [received EXCEPT ![o] = AllOf(o)]
        /\ status' = [status EXCEPT ![o] = "COMPLETED"]
        /\ Commits(r)
        /\ UNCHANGED <<plain, lists, shipments, recipe, used, adminVars>>
    BY <1>0, <1>4 DEF ReceivePurchaseOrder, At, NowReceived
  <2>2. req[r].saw[1] = Default /\ status[o] # "ABSENT" /\ req[r].saw[2] = received[o]
    <3>1. Fresh(r) BY <1>1, <1>4, AttentiveTyped DEF At, DocOps
    <3> QED BY <1>0, <1>1, <1>4, <3>1, AttentiveTyped DEF Fresh, Recalls
  <2>3. PICK w \in Warehouse : depot[w] = "default" /\ stock' = Moved(w, Outstanding(o, received[o]), 1)
    BY <2>1, <2>2 DEF Default
  <2> DEFINE rest == [i \in DOMAIN Lines[o] |->
                        [product |-> Lines[o][i].product,
                         quantity |-> Lines[o][i].quantity - received[o][i]]]
  <2>4. Outstanding(o, received[o]) = rest BY DEF Outstanding
  <2>5. /\ IsFiniteSet(DOMAIN Lines[o])
        /\ \A i \in DOMAIN Lines[o] : Lines[o][i].quantity \in Int
    BY <1>2, LinesTyped
  <2>6. /\ received[o] \in [DOMAIN Lines[o] -> Int]
        /\ \A i \in DOMAIN Lines[o] : received[o][i] \in 0..Lines[o][i].quantity
    BY <1>2, AttentiveTyped DEF Received
  <2>7. DOMAIN rest = DOMAIN Lines[o] /\ \A i \in DOMAIN rest : rest[i].quantity \in Int
    BY <2>5, <2>6
  <2>8. stock' = Twin!Posted(w, rest, 1)
    <3> HIDE DEF rest, o
    <3> QED BY <2>3, <2>4, <2>5, <2>7, AttentiveTyped, TwinPosts
  <2>9. AllOf(o) = [i \in DOMAIN received[o] |-> Lines[o][i].quantity] BY <2>6 DEF AllOf
  <2>10. /\ Seen.status[o] # "ABSENT"
         /\ (Seen.status)' = [Seen.status EXCEPT ![o] = "COMPLETED"]
    <3>1. AsSeen("COMPLETED") = "COMPLETED" /\ AsSeen(status[o]) # "ABSENT"
      BY <2>2 DEF AsSeen
    <3>2. Seen.status[o] = AsSeen(status[o]) BY <1>2, SeenStatus
    <3>3. (Seen.status)' = [Seen.status EXCEPT ![o] = AsSeen("COMPLETED")]
      BY <1>2, <2>1, SeenSet, AttentiveTyped
    <3> QED BY <3>1, <3>2, <3>3
  <2>11. UNCHANGED <<recipe, depot, active, role, rows, bill>> BY <2>1 DEF adminVars
  <2>12. Twin!ReceivePurchaseOrder(job)
    BY <1>0, <1>1, <2>1, <2>3, <2>8, <2>9, <2>10, <2>11 DEF Twin!ReceivePurchaseOrder
  <2>13. AsForm(job) = job /\ job \in Submitted
    BY <1>0, <1>1, <1>2, Renamed, AttentiveTyped
  <2>14. Alike BY <2>12, <2>13, TwinStep DEF Twin!Does
  <2> QED BY <1>1, <2>1, <2>14, AttentiveTyped, CommitAlike
<1> QED BY <1>1, <1>3, <1>4

LEMMA RecipeAlike ==
  ASSUME NEW r \in Request, Attentive(r), UpdateBom(r)
  PROVE  Alike /\ Recalls(r)'
<1>1. /\ Job(r).op = "updateBom" /\ Parsed(Job(r)) /\ req[r].at \in Steps
      /\ At(r, "updateBom", "begun") \/ At(r, "updateBom", "deleted")
  BY AttentiveTyped, AtWorks DEF UpdateBom, Steps
<1>0. PICK job : job = Job(r) OBVIOUS
<1>2. job.recipe \in Product /\ job \in Form BY <1>0, <1>1, OrderForms DEF Parsed
<1>3. CASE At(r, "updateBom", "begun")
  <2> DEFINE ok == recipe[job.recipe] # {}
             saw == <<recipe[job.recipe]>>
  <2>1. IF ok THEN Advance(r, "deleted", saw) ELSE Finish(r)
    BY <1>0, <1>3 DEF UpdateBom, At, Check
  <2>2. UNCHANGED <<stockVars, docVars, adminVars, boundVars>>
    BY <1>3 DEF UpdateBom, At, Check
  <2>3. ASSUME ok, req'[r].job = req[r].job, req'[r].saw = saw PROVE Recalls(r)'
    <3>1. recipe' = recipe BY <2>2 DEF docVars
    <3>2. req'[r].job = job /\ job.op = "updateBom" BY <1>0, <1>1, <2>3 DEF Job
    <3> QED BY <2>3, <3>1, <3>2 DEF Recalls, At, Job
  <2> HIDE DEF ok, saw
  <2> QED BY <1>1, <2>1, <2>2, <2>3, AttentiveTyped, CheckAlike DEF Steps
<1>4. CASE At(r, "updateBom", "deleted")
  <2> DEFINE before == recipe[job.recipe]
  <2>1. /\ recipe' = [recipe EXCEPT ![job.recipe] =
                        IF job.components = {} THEN before
                        ELSE (before \ req[r].saw[1]) \cup job.components]
        /\ Commits(r)
        /\ UNCHANGED <<stockVars, status, received, lists, shipments, used, adminVars>>
    BY <1>0, <1>2, <1>4, AttentiveTyped DEF UpdateBom, At
  <2>2. before # {} /\ req[r].saw[1] = before BY <1>0, <1>4, AttentiveTyped DEF Recalls
  <2>3. recipe' = IF job.components = {} THEN recipe
                  ELSE [recipe EXCEPT ![job.recipe] = job.components]
    <3>1. (before \ before) \cup job.components = job.components OBVIOUS
    <3>2. job.components # {} => recipe' = [recipe EXCEPT ![job.recipe] = job.components]
      BY <2>1, <2>2, <3>1
    <3>3. job.components = {} => recipe' = [recipe EXCEPT ![job.recipe] = recipe[job.recipe]]
      BY <2>1
    <3>4. [recipe EXCEPT ![job.recipe] = recipe[job.recipe]] = recipe BY AttentiveTyped
    <3> QED BY <3>2, <3>3, <3>4
  <2>4. UNCHANGED <<stock, received, depot, active, role, rows, bill>> /\ (Seen.status)' = Seen.status
    BY <2>1, SeenSame DEF stockVars, adminVars
  <2>5. Twin!UpdateBom(job) BY <1>0, <1>1, <2>2, <2>3, <2>4 DEF Twin!UpdateBom
  <2>6. AsForm(job) = job /\ job \in Submitted
    BY <1>0, <1>1, <1>2, Renamed, AttentiveTyped
  <2>7. Alike BY <2>5, <2>6, TwinStep DEF Twin!Does
  <2> QED BY <1>1, <2>1, <2>7, AttentiveTyped, CommitAlike
<1> QED BY <1>1, <1>3, <1>4

LEMMA StartAlike ==
  ASSUME NEW r \in Request, Attentive(r), StartManufacturingOrder(r)
  PROVE  Alike /\ Recalls(r)'
<1>1. /\ Job(r).op = "start" /\ Parsed(Job(r)) /\ req[r].at \in Steps
      /\ At(r, "start", "begun") \/ At(r, "start", "consumed")
  BY AttentiveTyped, AtWorks DEF StartManufacturingOrder, Steps
<1>0. PICK job : job = Job(r) OBVIOUS
<1> DEFINE o == job.doc
           w == Build[o].warehouse
           n == Build[o].quantity
           parts == recipe[Build[o].product]
<1>2. /\ o \in ManufacturingOrder /\ o \in Doc /\ job \in Form
      /\ w \in Warehouse /\ n \in Nat /\ parts \in ComponentRows
  <2>1. o \in ManufacturingOrder /\ o \in Doc /\ job \in Form
    BY <1>0, <1>1, AboutDocs DEF Parsed, DocOps
  <2> QED BY <2>1, BuildAssumption, AttentiveTyped
<1>3. CASE At(r, "start", "begun")
  <2> DEFINE ok == /\ status[o] = "DRAFT"
                   /\ \A p \in Product : Needed(parts, p, n) <= stock[p][w] \/ Needed(parts, p, n) = 0
             saw == <<parts>>
  <2>1. IF ok THEN Advance(r, "consumed", saw) ELSE Finish(r)
    BY <1>0, <1>3 DEF StartManufacturingOrder, At, Check
  <2>2. UNCHANGED <<stockVars, docVars, adminVars, boundVars>>
    BY <1>3 DEF StartManufacturingOrder, At, Check
  <2>3. ASSUME ok, req'[r].job = req[r].job, req'[r].saw = saw PROVE Recalls(r)'
    <3>1. recipe' = recipe /\ stock' = stock BY <2>2 DEF docVars, stockVars
    <3>2. req'[r].job = job /\ job.op = "start" /\ req'[r].saw[1] = parts
      BY <1>0, <1>1, <2>3 DEF Job
    <3> QED BY <2>3, <3>1, <3>2 DEF Recalls, At, Job, Needed
  <2> HIDE DEF ok, saw
  <2> QED BY <1>1, <2>1, <2>2, <2>3, AttentiveTyped, CheckAlike DEF Steps
<1>4. CASE At(r, "start", "consumed")
  <2>1. /\ stock' = [p \in Product |-> [stock[p] EXCEPT ![w] = @ - Needed(req[r].saw[1], p, n)]]
        /\ status' = [status EXCEPT ![o] = "IN_PROGRESS"]
        /\ Commits(r)
        /\ UNCHANGED <<plain, received, lists, shipments, recipe, adminVars>>
    BY <1>0, <1>4 DEF StartManufacturingOrder, At
  <2>2. /\ req[r].saw[1] = parts
        /\ \A p \in Product : Needed(parts, p, n) <= stock[p][w] \/ Needed(parts, p, n) = 0
    BY <1>0, <1>4, AttentiveTyped DEF Recalls
  <2>3. status[o] = "DRAFT"
    <3>1. Fresh(r) BY <1>1, <1>4, AttentiveTyped DEF At, DocOps
    <3> QED BY <1>0, <1>1, <3>1 DEF Fresh
  <2>4. stock' = Twin!Consumed(parts, o) BY <2>1, <2>2, TwinSums DEF Twin!Consumed
  <2>5. Twin!Covered(parts, o)
    <3> SUFFICES ASSUME NEW p \in Product, Needed(parts, p, n) > 0 PROVE stock[p][w] >= Needed(parts, p, n)
      BY TwinSums DEF Twin!Covered
    <3> DEFINE need == Needed(parts, p, n)
    <3>1. need \in Int /\ stock[p][w] \in Int BY <1>2, NeededInt, AttentiveTyped
    <3>2. need <= stock[p][w] \/ need = 0 BY <2>2
    <3>3. need > 0 OBVIOUS
    <3> HIDE DEF need
    <3>4. stock[p][w] >= need BY <3>1, <3>2, <3>3
    <3> QED BY <3>4 DEF need
  <2>6. Seen.status[o] = "DRAFT" /\ (Seen.status)' = [Seen.status EXCEPT ![o] = "IN_PROGRESS"]
    <3>1. AsSeen("IN_PROGRESS") = "IN_PROGRESS" /\ AsSeen(status[o]) = "DRAFT"
      BY <2>3 DEF AsSeen
    <3>2. Seen.status[o] = AsSeen(status[o]) BY <1>2, SeenStatus
    <3>3. (Seen.status)' = [Seen.status EXCEPT ![o] = AsSeen("IN_PROGRESS")]
      BY <1>2, <2>1, SeenSet, AttentiveTyped
    <3> QED BY <3>1, <3>2, <3>3
  <2>7. UNCHANGED <<received, recipe, depot, active, role, rows, bill>>
    BY <2>1 DEF adminVars
  <2>8. Twin!StartManufacturingOrder(job)
    BY <1>0, <1>1, <2>4, <2>5, <2>6, <2>7 DEF Twin!StartManufacturingOrder
  <2>9. AsForm(job) = job /\ job \in Submitted
    BY <1>0, <1>1, <1>2, Renamed, AttentiveTyped
  <2>10. Alike BY <2>8, <2>9, TwinStep DEF Twin!Does
  <2> QED BY <1>1, <2>1, <2>10, AttentiveTyped, CommitAlike
<1> QED BY <1>1, <1>3, <1>4

LEMMA CompleteAlike ==
  ASSUME NEW r \in Request, Attentive(r), CompleteManufacturingOrder(r)
  PROVE  Alike /\ Recalls(r)'
<1>1. /\ Job(r).op = "complete" /\ Parsed(Job(r)) /\ req[r].at \in Steps
      /\ At(r, "complete", "begun") \/ At(r, "complete", "read")
  BY AttentiveTyped, AtWorks DEF CompleteManufacturingOrder, Steps
<1>0. PICK job : job = Job(r) OBVIOUS
<1> DEFINE o == job.doc
<1>2. o \in ManufacturingOrder /\ o \in Doc /\ job \in Form
  BY <1>0, <1>1, AboutDocs DEF Parsed, DocOps
<1>3. CASE At(r, "complete", "begun")
  <2>1. PICK ok : IF ok THEN Advance(r, "read", <<>>) ELSE Finish(r)
    BY <1>3 DEF CompleteManufacturingOrder, At, Check
  <2>2. UNCHANGED <<stockVars, docVars, adminVars, boundVars>>
    BY <1>3 DEF CompleteManufacturingOrder, At, Check
  <2>3. req'[r].job = req[r].job => Recalls(r)' BY <1>1, NothingRecalled
  <2> QED BY <1>1, <2>1, <2>2, <2>3, AttentiveTyped, CheckAlike DEF Steps
<1>4. CASE At(r, "complete", "read")
  <2> DEFINE p1 == Build[o].product
             w == Build[o].warehouse
             n == Build[o].quantity
             made == <<[product |-> p1, quantity |-> n]>>
  <2>1. /\ stock' = Moved(w, made, 1)
        /\ status' = [status EXCEPT ![o] = "COMPLETED"]
        /\ Commits(r)
        /\ UNCHANGED <<plain, received, lists, shipments, recipe, used, adminVars>>
    BY <1>0, <1>4 DEF CompleteManufacturingOrder, At
  <2>2. p1 \in Product /\ w \in Warehouse /\ n \in Int BY <1>2, BuildAssumption
  <2>3. /\ IsFiniteSet(DOMAIN made)
        /\ \A i \in DOMAIN made : made[i].quantity \in Int /\ made[i].product = p1
        /\ QuantityOf(made, p1) = n
    <3>1. made = OneLine([product |-> p1, quantity |-> n]) BY DEF OneLine
    <3> DEFINE line == [product |-> p1, quantity |-> n]
    <3>2. line.product = p1 /\ line.quantity = n OBVIOUS
    <3> HIDE DEF line
    <3>3. /\ IsFiniteSet(DOMAIN OneLine(line))
          /\ \A i \in DOMAIN OneLine(line) :
               OneLine(line)[i].quantity \in Int /\ OneLine(line)[i].product = line.product
          /\ QuantityOf(OneLine(line), line.product) = line.quantity
      BY <2>2, <3>2, OneLineQuantity
    <3> HIDE DEF made, p1, n
    <3> QED BY <3>1, <3>2, <3>3 DEF line
  <2> HIDE DEF made, p1, w, n
  <2>4. /\ stock' \in [Product -> [Warehouse -> Int]]
        /\ \A p \in Product : p # p1 => stock'[p] = stock[p]
        /\ \A v \in Warehouse : v # w => stock'[p1][v] = stock[p1][v]
        /\ stock'[p1][w] = stock[p1][w] + n
    <3>1. /\ Moved(w, made, 1) \in [Product -> [Warehouse -> Int]]
          /\ \A p \in Product : (\A i \in DOMAIN made : made[i].product # p)
               => Moved(w, made, 1)[p] = stock[p]
          /\ \A p \in Product, v \in Warehouse :
               /\ v # w => Moved(w, made, 1)[p][v] = stock[p][v]
               /\ v = w => Moved(w, made, 1)[p][v] = stock[p][v] + QuantityOf(made, p)
      BY <2>3, AttentiveTyped, MovedStock
    <3> QED BY <2>1, <2>2, <2>3, <3>1
  <2>5. stock' = [stock EXCEPT ![p1][w] = stock[p1][w] + n]
    <3> DEFINE s == [stock EXCEPT ![p1][w] = stock[p1][w] + n]
    <3>1. /\ s \in [Product -> [Warehouse -> Int]]
          /\ \A p \in Product, v \in Warehouse :
               s[p][v] = IF p = p1 /\ v = w THEN stock[p1][w] + n ELSE stock[p][v]
      BY <2>2, AttentiveTyped
    <3> HIDE DEF s
    <3>2. \A p \in Product, v \in Warehouse : stock'[p][v] = s[p][v] BY <2>2, <2>4, <3>1
    <3>3. stock' = s
      <4>1. \A p \in Product : stock'[p] \in [Warehouse -> Int] /\ s[p] \in [Warehouse -> Int]
        BY <2>4, <3>1
      <4>2. \A p \in Product : stock'[p] = s[p] BY <3>2, <4>1
      <4> QED BY <2>4, <3>1, <4>2
    <3> QED BY <3>3 DEF s
  <2>6. status[o] = "IN_PROGRESS"
    <3>1. Fresh(r) BY <1>1, <1>4, AttentiveTyped DEF At, DocOps
    <3> QED BY <1>0, <1>1, <3>1 DEF Fresh, CreatingOps, ForwardOps
  <2>7. Seen.status[o] = "IN_PROGRESS" /\ (Seen.status)' = [Seen.status EXCEPT ![o] = "COMPLETED"]
    <3>1. AsSeen("COMPLETED") = "COMPLETED" /\ AsSeen(status[o]) = "IN_PROGRESS"
      BY <2>6 DEF AsSeen
    <3>2. Seen.status[o] = AsSeen(status[o]) BY <1>2, SeenStatus
    <3>3. (Seen.status)' = [Seen.status EXCEPT ![o] = AsSeen("COMPLETED")]
      BY <1>2, <2>1, SeenSet, AttentiveTyped
    <3> QED BY <3>1, <3>2, <3>3
  <2>8. UNCHANGED <<received, recipe, depot, active, role, rows, bill>>
    BY <2>1 DEF adminVars
  <2>9. Twin!CompleteManufacturingOrder(job)
    BY <1>0, <1>1, <2>5, <2>7, <2>8
       DEF Twin!CompleteManufacturingOrder, Twin!SetsStatus, p1, w, n
  <2>10. AsForm(job) = job /\ job \in Submitted
    BY <1>0, <1>1, <1>2, Renamed, AttentiveTyped
  <2>11. Alike BY <2>9, <2>10, TwinStep DEF Twin!Does
  <2> QED BY <1>1, <2>1, <2>11, AttentiveTyped, CommitAlike
<1> QED BY <1>1, <1>3, <1>4

LEMMA ConfirmAlike ==
  ASSUME NEW r \in Request, Attentive(r), ConfirmSalesOrder(r)
  PROVE  Alike /\ Recalls(r)'
<1>1. /\ Job(r).op = "confirm" /\ Parsed(Job(r)) /\ req[r].at \in Steps
      /\ At(r, "confirm", "begun") \/ At(r, "confirm", "read") \/ At(r, "confirm", "summed")
  BY AttentiveTyped, AtWorks DEF ConfirmSalesOrder, Steps
<1>0. PICK job : job = Job(r) OBVIOUS
<1> DEFINE o == job.doc
<1>2. o \in SalesOrder /\ o \in Doc /\ job \in Form
  BY <1>0, <1>1, AboutDocs DEF Parsed, DocOps
<1>3. CASE At(r, "confirm", "begun")
  <2> DEFINE saw == <<Default>>
  <2>1. PICK ok : IF ok THEN Advance(r, "read", saw) ELSE Finish(r)
    BY <1>0, <1>3 DEF ConfirmSalesOrder, At, Check
  <2>2. UNCHANGED <<stockVars, docVars, adminVars, boundVars>>
    BY <1>3 DEF ConfirmSalesOrder, At, Check
  <2>3. ASSUME req'[r].job = req[r].job, req'[r].at = "read", req'[r].saw = saw PROVE Recalls(r)'
    <3>1. Default' = Default BY <2>2 DEF adminVars, Default
    <3>2. req'[r].job = job /\ job.op = "confirm" /\ req'[r].saw[1] = Default
      BY <1>0, <1>1, <2>3 DEF Job
    <3> QED BY <2>3, <3>1, <3>2 DEF Recalls, At, Job
  <2> HIDE DEF saw
  <2> QED BY <1>1, <2>1, <2>2, <2>3, AttentiveTyped, CheckAlike DEF Steps
<1>4. CASE At(r, "confirm", "read")
  <2>1. PICK w \in req[r].saw[1] :
               IF EnoughStock(w, Lines[o]) THEN Advance(r, "summed", <<w>>) ELSE Finish(r)
    BY <1>0, <1>4 DEF ConfirmSalesOrder, At, Check
  <2>2. UNCHANGED <<stockVars, docVars, adminVars, boundVars>>
    BY <1>4 DEF ConfirmSalesOrder, At, Check
  <2>3. req[r].saw[1] = Default BY <1>4, AttentiveTyped DEF Recalls
  <2>4. ASSUME EnoughStock(w, Lines[o]),
               req'[r].job = req[r].job, req'[r].at = "summed", req'[r].saw = <<w>>
        PROVE  Recalls(r)'
    <3>1. Default' = Default /\ stock' = stock BY <2>2 DEF adminVars, stockVars, Default
    <3>2. req'[r].job = job /\ job.op = "confirm" /\ req'[r].saw[1] = w /\ w \in Default
      BY <1>0, <1>1, <2>1, <2>3, <2>4 DEF Job
    <3> QED BY <2>4, <3>1, <3>2 DEF Recalls, At, Job, EnoughStock
  <2> QED BY <1>1, <2>1, <2>2, <2>4, AttentiveTyped, CheckAlike DEF Steps
<1>5. CASE At(r, "confirm", "summed")
  <2> DEFINE w == req[r].saw[1]
  <2>1. /\ status' = [status EXCEPT ![o] = "CONFIRMED"]
        /\ stock' = Moved(w, Lines[o], -1)
        /\ Commits(r)
        /\ UNCHANGED <<plain, received, lists, shipments, recipe, used, adminVars>>
    BY <1>0, <1>5 DEF ConfirmSalesOrder, At
  <2>2. /\ w \in Default /\ EnoughStock(w, Lines[o]) /\ status[o] = "DRAFT"
    <3>1. Fresh(r) BY <1>1, <1>5, AttentiveTyped DEF At, DocOps
    <3> QED BY <1>0, <1>1, <1>5, <3>1, AttentiveTyped DEF Fresh, Recalls
  <2>3. w \in Warehouse /\ depot[w] = "default" BY <2>2 DEF Default
  <2>4. /\ IsFiniteSet(DOMAIN Lines[o])
        /\ \A i \in DOMAIN Lines[o] : Lines[o][i].quantity \in Int
    BY <1>2, LinesTyped
  <2>5. stock' = Twin!Posted(w, Lines[o], -1)
    <3>1. -1 \in {1, -1} OBVIOUS
    <3> HIDE DEF w, o
    <3> QED BY <2>1, <2>3, <2>4, <3>1, AttentiveTyped, TwinPosts
  <2>6. Twin!OnHand(w, Lines[o]) BY <2>2 DEF EnoughStock, Twin!OnHand
  <2>7. Seen.status[o] = "DRAFT" /\ (Seen.status)' = [Seen.status EXCEPT ![o] = "CONFIRMED"]
    <3>1. AsSeen("CONFIRMED") = "CONFIRMED" /\ AsSeen(status[o]) = "DRAFT"
      BY <2>2 DEF AsSeen
    <3>2. Seen.status[o] = AsSeen(status[o]) BY <1>2, SeenStatus
    <3>3. (Seen.status)' = [Seen.status EXCEPT ![o] = AsSeen("CONFIRMED")]
      BY <1>2, <2>1, SeenSet, AttentiveTyped
    <3> QED BY <3>1, <3>2, <3>3
  <2>8. UNCHANGED <<received, recipe, depot, active, role, rows, bill>>
    BY <2>1 DEF adminVars
  <2>9. Twin!ConfirmSalesOrder(job)
    <3> HIDE DEF w
    <3> QED BY <1>0, <1>1, <2>3, <2>5, <2>6, <2>7, <2>8
            DEF Twin!ConfirmSalesOrder, Twin!SetsStatus
  <2>10. AsForm(job) = job /\ job \in Submitted
    BY <1>0, <1>1, <1>2, Renamed, AttentiveTyped
  <2>11. Alike BY <2>9, <2>10, TwinStep DEF Twin!Does
  <2> QED BY <1>1, <2>1, <2>11, AttentiveTyped, CommitAlike
<1> QED BY <1>1, <1>3, <1>4, <1>5

(* The store sees nothing of picking, packing, shipping and delivery.       *)
LEMMA ForwardAlike ==
  ASSUME NEW r \in Request, Attentive(r),
         StartPicking(r) \/ PackOrder(r) \/ ShipOrder(r) \/ DeliverOrder(r)
  PROVE  Alike /\ Recalls(r)'
<1> DEFINE From(op) == CASE op = "startPicking" -> "CONFIRMED" [] op = "pack" -> "PICKING"
                         [] op = "ship" -> "PACKED" [] op = "deliver" -> "SHIPPED"
           To(op) == CASE op = "startPicking" -> "PICKING" [] op = "pack" -> "PACKED"
                       [] op = "ship" -> "SHIPPED" [] op = "deliver" -> "DELIVERED"
           Last(op) == IF op = "ship" THEN "counted" ELSE "read"
<1>1. PICK op \in ForwardOps :
        \/ /\ At(r, op, "begun")
           /\ \E ok, saw : /\ ok => status[Job(r).doc] = From(op)
                           /\ IF ok THEN Advance(r, Last(op), saw) ELSE Finish(r)
           /\ UNCHANGED <<stockVars, docVars, adminVars, boundVars>>
        \/ /\ At(r, op, Last(op))
           /\ status' = status \/ status' = [status EXCEPT ![Job(r).doc] = To(op)]
           /\ Commits(r)
           /\ UNCHANGED <<stockVars, received, recipe, used, adminVars>>
  <2>1. CASE StartPicking(r)
    <3>1. "startPicking" \in ForwardOps BY DEF ForwardOps
    <3> QED BY <2>1, <3>1 DEF StartPicking, Check
  <2>2. CASE PackOrder(r)
    <3>1. "pack" \in ForwardOps BY DEF ForwardOps
    <3> QED BY <2>2, <3>1 DEF PackOrder, Check
  <2>3. CASE ShipOrder(r)
    <3>1. "ship" \in ForwardOps BY DEF ForwardOps
    <3> QED BY <2>3, <3>1 DEF ShipOrder, Check, Shippable
  <2>4. CASE DeliverOrder(r)
    <3>1. "deliver" \in ForwardOps BY DEF ForwardOps
    <3> QED BY <2>4, <3>1 DEF DeliverOrder, Check
  <2> QED BY <2>1, <2>2, <2>3, <2>4
<1>2. Job(r).op = op /\ req[r].at \in Steps /\ Parsed(Job(r)) /\ Last(op) \in Steps
  BY <1>1, AttentiveTyped, AtWorks DEF Steps
<1>0. PICK job : job = Job(r) OBVIOUS
<1>3. job.doc \in SalesOrder /\ job.doc \in Doc
  BY <1>0, <1>2, AboutDocs DEF Parsed, DocOps
<1>4. CASE At(r, op, "begun")
  <2>1. PICK ok, saw : /\ ok => status[job.doc] = From(op)
                       /\ IF ok THEN Advance(r, Last(op), saw) ELSE Finish(r)
    BY <1>0, <1>1, <1>4 DEF At
  <2>2. UNCHANGED <<stockVars, docVars, adminVars, boundVars>> BY <1>1, <1>4 DEF At
  <2>3. ASSUME ok, req'[r].job = req[r].job PROVE Recalls(r)'
    <3>1. status' = status BY <2>2 DEF docVars
    <3>2. req'[r].job = job /\ job.op = op BY <1>0, <1>2, <2>3 DEF Job
    <3> QED BY <2>1, <2>3, <3>1, <3>2 DEF Recalls, At, Job, ForwardOps
  <2> QED BY <1>2, <2>1, <2>2, <2>3, AttentiveTyped, CheckAlike
<1>5. CASE At(r, op, Last(op))
  <2>1. /\ status' = status \/ status' = [status EXCEPT ![job.doc] = To(op)]
        /\ Commits(r)
        /\ UNCHANGED <<stockVars, received, recipe, used, adminVars>>
    BY <1>0, <1>1, <1>5 DEF At
  <2>2. status[job.doc] = From(op)
    BY <1>0, <1>5, AttentiveTyped DEF Recalls, ForwardOps, At
  <2>3. AsSeen(From(op)) = "CONFIRMED" /\ AsSeen(To(op)) = "CONFIRMED"
    BY DEF AsSeen, ForwardOps
  <2> HIDE DEF From, To
  <2>4. \A d \in Doc : AsSeen(status'[d]) = AsSeen(status[d])
    BY <1>3, <2>1, <2>2, <2>3, AttentiveTyped
  <2>5. (Seen.status)' = Seen.status BY <2>4, SeenStatus
  <2>6. UNCHANGED Twin!demoVars BY <2>1, <2>5 DEF Twin!demoVars, stockVars, adminVars
  <2>7. Alike BY <2>6 DEF Alike
  <2> QED BY <1>2, <2>1, <2>7, AttentiveTyped, CommitAlike
<1> QED BY <1>1, <1>4, <1>5

LEMMA PickAlike ==
  ASSUME NEW r \in Request, Attentive(r), UpdatePickListItem(r)
  PROVE  Alike /\ Recalls(r)'
<1>1. /\ Job(r).op = "pick" /\ req[r].at \in Steps
      /\ At(r, "pick", "begun") \/ At(r, "pick", "read")
  BY AttentiveTyped, AtWorks DEF UpdatePickListItem, Steps
<1>2. CASE At(r, "pick", "begun")
  <2>1. PICK ok, saw : IF ok THEN Advance(r, "read", saw) ELSE Finish(r)
    BY <1>2 DEF UpdatePickListItem, At, Check
  <2>2. UNCHANGED <<stockVars, docVars, adminVars, boundVars>>
    BY <1>2 DEF UpdatePickListItem, At, Check
  <2>3. req'[r].job = req[r].job => Recalls(r)' BY <1>1, NothingRecalled
  <2> QED BY <1>1, <2>1, <2>2, <2>3, AttentiveTyped, CheckAlike DEF Steps
<1>3. CASE At(r, "pick", "read")
  <2>1. /\ Commits(r)
        /\ UNCHANGED <<stockVars, status, received, shipments, recipe, used, adminVars>>
    BY <1>3 DEF UpdatePickListItem, At
  <2>2. UNCHANGED Twin!demoVars
    BY <2>1, SeenSame DEF Twin!demoVars, stockVars, adminVars
  <2>3. Alike BY <2>2 DEF Alike
  <2> QED BY <1>1, <2>1, <2>3, AttentiveTyped, CommitAlike
<1> QED BY <1>1, <1>2, <1>3

(* The store has no returns.                                                *)
LEMMA ApproveAlike ==
  ASSUME NEW r \in Request, Attentive(r), ApproveSalesReturn(r)
  PROVE  Alike /\ Recalls(r)'
<1>1. /\ Job(r).op = "approve" /\ Parsed(Job(r)) /\ req[r].at \in Steps
      /\ At(r, "approve", "begun") \/ At(r, "approve", "read")
  BY AttentiveTyped, AtWorks DEF ApproveSalesReturn, Steps
<1>0. PICK d : d = Job(r).doc OBVIOUS
<1>2. d \in SalesReturn /\ d \in Doc BY <1>0, <1>1, AboutDocs DEF Parsed, DocOps
<1>3. CASE At(r, "approve", "begun")
  <2>1. PICK ok : IF ok THEN Advance(r, "read", <<Default>>) ELSE Finish(r)
    BY <1>3 DEF ApproveSalesReturn, At, Check
  <2>2. UNCHANGED <<stockVars, docVars, adminVars, boundVars>>
    BY <1>3 DEF ApproveSalesReturn, At, Check
  <2>3. req'[r].job = req[r].job => Recalls(r)' BY <1>1, NothingRecalled
  <2> QED BY <1>1, <2>1, <2>2, <2>3, AttentiveTyped, CheckAlike DEF Steps
<1>4. CASE At(r, "approve", "read")
  <2>1. status' = [status EXCEPT ![d] = "COMPLETED"] /\ Commits(r)
    BY <1>0, <1>4 DEF ApproveSalesReturn, At
  <2>2. status[d] = "DRAFT"
    <3>1. Fresh(r) BY <1>1, <1>4, AttentiveTyped DEF At, DocOps
    <3> QED BY <1>0, <1>1, <3>1 DEF Fresh
  <2>3. status'[d] # status[d] BY <1>2, <2>1, <2>2, AttentiveTyped
  <2>4. Alike BY <1>2, <2>3 DEF Alike, OnlyInDatabase
  <2> QED BY <1>1, <2>1, <2>4, AttentiveTyped, CommitAlike
<1> QED BY <1>1, <1>3, <1>4


(* Invoices.  A payment writes the status that follows from what it read.   *)
LEMMA InvoicesAlike ==
  ASSUME NEW r \in Request, Attentive(r),
         CreateInvoice(r) \/ RecordPayment(r) \/ TransitionInvoiceStatus(r)
  PROVE  Alike /\ Recalls(r)'
<1>1. PICK op \in {"createInvoice", "pay", "transition"} :
        \/ At(r, op, "begun")
        \/ At(r, op, IF op = "createInvoice" THEN "counted" ELSE "read")
  BY DEF CreateInvoice, RecordPayment, TransitionInvoiceStatus
<1>2. Job(r).op = op /\ Parsed(Job(r)) /\ req[r].at \in Steps
  BY <1>1, AttentiveTyped, AtWorks DEF Steps
<1>0. PICK job : job = Job(r) OBVIOUS
<1> DEFINE i == job.target
<1>3. i \in Invoice /\ job \in Form /\ bill[i] \in InvoiceRow /\ DOMAIN bill = Invoice
  BY <1>0, <1>2, OtherForms, AttentiveTyped DEF Parsed
<1>4. CASE At(r, op, "begun")
  <2> DEFINE ok == IF op = "createInvoice" THEN bill[i].status = "ABSENT" ELSE i \in Invoices
             step == IF op = "createInvoice" THEN "counted" ELSE "read"
  <2>1. PICK saw : /\ IF ok THEN Advance(r, step, saw) ELSE Finish(r)
                   /\ op = "pay" => saw[1] = bill[i]
    BY <1>0, <1>4 DEF CreateInvoice, RecordPayment, TransitionInvoiceStatus, At, Check, Job
  <2>2. UNCHANGED <<stockVars, docVars, adminVars, boundVars>>
    BY <1>4 DEF CreateInvoice, RecordPayment, TransitionInvoiceStatus, At, Check
  <2>3. ASSUME ok, req'[r].job = req[r].job, req'[r].saw = saw PROVE Recalls(r)'
    <3>1. bill' = bill BY <2>2 DEF adminVars
    <3>2. req'[r].job = job /\ job.op = op BY <1>0, <1>2, <2>3 DEF Job
    <3> QED BY <2>1, <2>3, <3>1, <3>2 DEF Recalls, At, Job, Invoices
  <2>4. step \in Steps BY DEF Steps
  <2> HIDE DEF ok, step
  <2> QED BY <1>2, <2>1, <2>2, <2>3, <2>4, AttentiveTyped, CheckAlike
<1>5. CASE At(r, op, IF op = "createInvoice" THEN "counted" ELSE "read")
  <2>1. Commits(r) /\ UNCHANGED <<stockVars, docVars, depot, active, role, rows>>
    BY <1>5 DEF CreateInvoice, RecordPayment, TransitionInvoiceStatus, At
  <2>2. UNCHANGED <<stock, received, recipe, depot, active, role, rows>> /\ (Seen.status)' = Seen.status
    BY <2>1, TablesSame
  <2>3. AsForm(job) = job /\ job \in Submitted
    BY <1>0, <1>2, <1>3, Renamed, AttentiveTyped
  <2>4. CASE bill' = bill
    <3>1. UNCHANGED Twin!demoVars BY <2>2, <2>4 DEF Twin!demoVars
    <3> QED BY <1>2, <2>1, <3>1, AttentiveTyped, CommitAlike DEF Alike
  <2>5. CASE bill' # bill /\ op = "createInvoice"
    <3>1. bill' = [bill EXCEPT ![i].status = "DRAFT"]
      BY <1>0, <1>5, <2>5 DEF CreateInvoice, RecordPayment, TransitionInvoiceStatus, At, Job
    <3>2. bill[i].status = "ABSENT" BY <1>0, <1>5, <2>5, AttentiveTyped DEF Recalls
    <3>3. Twin!CreateInvoice(job)
      BY <1>0, <1>2, <2>2, <2>5, <3>1, <3>2 DEF Twin!CreateInvoice
    <3>4. Alike BY <2>3, <3>3, TwinStep DEF Twin!Does
    <3> QED BY <1>2, <2>1, <3>4, AttentiveTyped, CommitAlike
  <2>6. CASE op = "transition"
    <3>1. bill' = [bill EXCEPT ![i].status = job.to]
      BY <1>0, <1>5, <2>6 DEF CreateInvoice, RecordPayment, TransitionInvoiceStatus, At, Job
    <3>2. bill[i].status # "ABSENT" BY <1>0, <1>5, <2>6, AttentiveTyped DEF Recalls
    <3>3. Twin!TransitionDemoInvoiceStatus(job)
      BY <1>0, <1>2, <2>2, <2>6, <3>1, <3>2 DEF Twin!TransitionDemoInvoiceStatus
    <3>4. Alike BY <2>3, <3>3, TwinStep DEF Twin!Does
    <3> QED BY <1>2, <2>1, <3>4, AttentiveTyped, CommitAlike
  <2>7. CASE op = "pay"
    <3>1. req[r].saw[1] = bill[i] /\ bill[i].status # "ABSENT"
      BY <1>0, <1>5, <2>7, AttentiveTyped DEF Recalls
    <3> DEFINE total == bill[i].paid + job.amount
               after == PaidStatus(i, total, bill[i].status)
    <3>2. bill' = [bill EXCEPT ![i] =
            [status |-> IF after # bill[i].status THEN after ELSE @.status,
             paid |-> @.paid + job.amount]]
      BY <1>0, <1>5, <2>7, <3>1
         DEF CreateInvoice, RecordPayment, TransitionInvoiceStatus, At, Job
    <3>3. bill' = [bill EXCEPT ![i] = [paid |-> total, status |-> after]] BY <1>3, <3>2
    <3>4. after = IF total >= InvoiceTotal[i] THEN "PAID"
                  ELSE IF total > 0 THEN "PARTIALLY_PAID" ELSE bill[i].status
      BY DEF PaidStatus
    <3>5. bill' = [bill EXCEPT ![i] =
            [paid |-> total,
             status |-> IF total >= InvoiceTotal[i] THEN "PAID"
                        ELSE IF total > 0 THEN "PARTIALLY_PAID" ELSE @.status]]
      BY <1>3, <3>3, <3>4
    <3>6. Twin!RecordDemoPayment(job)
      BY <1>0, <1>2, <2>2, <2>7, <3>1, <3>5 DEF Twin!RecordDemoPayment
    <3>7. Alike BY <2>3, <3>6, TwinStep DEF Twin!Does
    <3> QED BY <1>2, <2>1, <3>7, AttentiveTyped, CommitAlike
  <2> QED BY <2>4, <2>5, <2>6, <2>7
<1> QED BY <1>1, <1>4, <1>5

(* Members.                                                                 *)
LEMMA MembersAlike ==
  ASSUME NEW r \in Request, Attentive(r), CreateUser(r) \/ UpdateUserRole(r) \/ DeleteUser(r)
  PROVE  Alike /\ Recalls(r)'
<1>1. PICK op \in {"createUser", "updateRole", "deleteUser"} : At(r, op, "begun") \/ At(r, op, "read")
  BY DEF CreateUser, UpdateUserRole, DeleteUser
<1>2. Job(r).op = op /\ Parsed(Job(r)) /\ req[r].at \in Steps
  BY <1>1, AttentiveTyped, AtWorks DEF Steps
<1>0. PICK job : job = Job(r) OBVIOUS
<1>3. job.actor \in User /\ job.user \in User /\ job \in Form
  BY <1>0, <1>2, OtherForms DEF Parsed
<1>4. CASE At(r, op, "begun")
  <2> DEFINE ok == job.actor \in Managers
                     /\ IF op = "createUser" THEN role[job.user] = "none" ELSE OfSomebodyElse(job)
  <2>1. IF ok THEN Advance(r, "read", <<>>) ELSE Finish(r)
    BY <1>0, <1>4 DEF CreateUser, UpdateUserRole, DeleteUser, At, Check, Job
  <2>2. UNCHANGED <<stockVars, docVars, adminVars, boundVars>>
    BY <1>4 DEF CreateUser, UpdateUserRole, DeleteUser, At, Check
  <2>3. ASSUME ok, req'[r].job = req[r].job PROVE Recalls(r)'
    <3>1. role' = role /\ Managers' = Managers BY <2>2 DEF adminVars, Managers
    <3>2. req'[r].job = job /\ job.op = op BY <1>0, <1>2, <2>3 DEF Job
    <3> QED BY <2>3, <3>1, <3>2 DEF Recalls, At, Job, OfSomebodyElse
  <2> HIDE DEF ok
  <2> QED BY <1>2, <2>1, <2>2, <2>3, AttentiveTyped, CheckAlike DEF Steps
<1>5. CASE At(r, op, "read")
  <2> DEFINE to == IF op = "deleteUser" THEN "none" ELSE job.role
  <2>1. /\ Commits(r) /\ UNCHANGED <<stockVars, docVars, depot, active, rows, bill>>
        /\ op = "createUser" => role' = IF role[job.user] = "none"
                                        THEN [role EXCEPT ![job.user] = job.role] ELSE role
        /\ op = "updateRole" => role' = IF role[job.user] = "none" THEN role
                                        ELSE [role EXCEPT ![job.user] = job.role]
        /\ op = "deleteUser" => role' = [role EXCEPT ![job.user] = "none"]
    BY <1>0, <1>5 DEF CreateUser, UpdateUserRole, DeleteUser, At, Job
  <2>2. /\ job.actor \in Managers
        /\ op = "createUser" => role[job.user] = "none"
        /\ op # "createUser" => role[job.user] # "none" /\ job.user # job.actor
    BY <1>0, <1>5, AttentiveTyped DEF Recalls, At, Job, OfSomebodyElse
  <2>3. role' = [role EXCEPT ![job.user] = to] BY <2>1, <2>2
  <2>4. UNCHANGED <<stock, received, recipe, depot, active, rows, bill>> /\ (Seen.status)' = Seen.status
    BY <2>1, TablesSame
  <2>5. Twin!May(job.actor) BY <2>2 DEF Managers, Twin!May
  <2>6. AsForm(job) = job /\ job \in Submitted
    BY <1>0, <1>2, <1>3, Renamed, AttentiveTyped
  <2>7. Twin!CreateUser(job) \/ Twin!UpdateUserRole(job) \/ Twin!DeleteUser(job)
    BY <1>0, <1>2, <2>2, <2>3, <2>4, <2>5
       DEF Twin!CreateUser, Twin!UpdateUserRole, Twin!DeleteUser, Twin!SetsRole
  <2>8. Alike BY <2>6, <2>7, TwinStep DEF Twin!Does
  <2> QED BY <1>2, <2>1, <2>8, AttentiveTyped, CommitAlike
<1> QED BY <1>1, <1>4, <1>5

(* Warehouses.  The count and the flags that were cleared are those that    *)
(* the store finds.                                                         *)
LEMMA OpensAlike ==
  ASSUME NEW r \in Request, Attentive(r), NEW op \in {"createWarehouse", "apiCreateWarehouse"},
         OpensWarehouse(r, op)
  PROVE  Alike /\ Recalls(r)'
<1>1. /\ Job(r).op = op /\ Parsed(Job(r)) /\ req[r].at \in Steps
      /\ At(r, op, "begun") \/ At(r, op, "cleared")
  BY AttentiveTyped, AtWorks DEF OpensWarehouse, Steps
<1>0. PICK job : job = Job(r) OBVIOUS
<1> DEFINE w == job.target
<1>2. w \in Warehouse /\ job \in Form /\ DOMAIN depot = Warehouse
  BY <1>0, <1>1, OtherForms, AttentiveTyped DEF Parsed
<1>3. PICK first : first = (job.default \/ \A v \in Warehouse : depot[v] = "absent")
  OBVIOUS
<1>4. CASE At(r, op, "begun")
  <2> DEFINE ok == depot[w] = "absent"
             saw == <<first, Default>>
  <2>1. IF ok THEN Advance(r, "cleared", saw) ELSE Finish(r)
    BY <1>0, <1>3, <1>4 DEF OpensWarehouse, At, Check
  <2>2. UNCHANGED <<stockVars, docVars, adminVars, boundVars>>
    BY <1>4 DEF OpensWarehouse, At, Check
  <2>3. ASSUME ok, req'[r].job = req[r].job, req'[r].saw = saw PROVE Recalls(r)'
    <3>1. depot' = depot /\ Default' = Default BY <2>2 DEF adminVars, Default
    <3>2. /\ req'[r].job = job /\ job.op = op
          /\ req'[r].saw[1] = first /\ req'[r].saw[2] = Default
      BY <1>0, <1>1, <2>3 DEF Job
    <3> QED BY <1>3, <2>3, <3>1, <3>2 DEF Recalls, At, Job
  <2> HIDE DEF ok, saw
  <2> QED BY <1>1, <2>1, <2>2, <2>3, AttentiveTyped, CheckAlike DEF Steps
<1>5. CASE At(r, op, "cleared")
  <2>1. Commits(r) /\ UNCHANGED <<stockVars, docVars, active, role, rows, bill>>
    BY <1>5 DEF OpensWarehouse, At
  <2>2. depot[w] = "absent" /\ req[r].saw[2] = Default /\ req[r].saw[1] = first
    BY <1>0, <1>1, <1>3, <1>5, AttentiveTyped DEF Recalls, At
  <2>3. depot' = [v \in Warehouse |->
                    IF v = w THEN IF first THEN "default" ELSE "plain"
                    ELSE IF first /\ v \in Default THEN "plain" ELSE depot[v]]
    BY <1>0, <1>5, <2>2 DEF OpensWarehouse, At
  <2>4. depot' = IF job.default \/ \A v \in Warehouse : depot[v] = "absent"
                 THEN Twin!TakeDefaultFrom(w) ELSE [depot EXCEPT ![w] = "plain"]
    <3>1. CASE job.default \/ \A v \in Warehouse : depot[v] = "absent"
      BY <1>3, <2>3, <3>1 DEF Twin!TakeDefaultFrom, Default
    <3>2. CASE ~ (job.default \/ \A v \in Warehouse : depot[v] = "absent")
      BY <1>2, <1>3, <2>3, <3>2
    <3> QED BY <3>1, <3>2
  <2>5. UNCHANGED <<stock, received, recipe, active, role, rows, bill>> /\ (Seen.status)' = Seen.status
    BY <2>1, TablesSame
  <2> DEFINE form == AsForm(job)
  <2>6. form.op = "createWarehouse" /\ form.target = w /\ form.default = job.default
    BY <1>0, <1>1, <1>2, Renamed
  <2>7. job \in Submitted BY <1>0, AttentiveTyped
  <2>8. Twin!CreateWarehouse(form)
    <3> HIDE DEF form
    <3> QED BY <2>2, <2>4, <2>5, <2>6 DEF Twin!CreateWarehouse
  <2>9. Alike BY <2>7, <2>8, TwinStep DEF Twin!Does
  <2> QED BY <1>1, <2>1, <2>9, AttentiveTyped, CommitAlike
<1> QED BY <1>1, <1>4, <1>5

LEMMA ChangesAlike ==
  ASSUME NEW r \in Request, Attentive(r), NEW op \in {"updateWarehouse", "apiUpdateWarehouse"},
         ChangesWarehouse(r, op)
  PROVE  Alike /\ Recalls(r)'
<1>1. /\ Job(r).op = op /\ Parsed(Job(r)) /\ req[r].at \in Steps
      /\ At(r, op, "begun") \/ At(r, op, "cleared")
  BY AttentiveTyped, AtWorks DEF ChangesWarehouse, Steps
<1>0. PICK job : job = Job(r) OBVIOUS
<1> DEFINE w == job.target
<1>2. w \in Warehouse /\ job \in Form /\ DOMAIN depot = Warehouse
  BY <1>0, <1>1, OtherForms, AttentiveTyped DEF Parsed
<1>3. PICK chosen : chosen = job.default OBVIOUS
<1>4. CASE At(r, op, "begun")
  <2> DEFINE ok == depot[w] # "absent"
             saw == <<chosen, Default>>
  <2>1. IF ok THEN Advance(r, "cleared", saw) ELSE Finish(r)
    BY <1>0, <1>3, <1>4 DEF ChangesWarehouse, At, Check
  <2>2. UNCHANGED <<stockVars, docVars, adminVars, boundVars>>
    BY <1>4 DEF ChangesWarehouse, At, Check
  <2>3. ASSUME ok, req'[r].job = req[r].job, req'[r].saw = saw PROVE Recalls(r)'
    <3>1. depot' = depot /\ Default' = Default BY <2>2 DEF adminVars, Default
    <3>2. /\ req'[r].job = job /\ job.op = op
          /\ req'[r].saw[1] = chosen /\ req'[r].saw[2] = Default
      BY <1>0, <1>1, <2>3 DEF Job
    <3> QED BY <1>3, <2>3, <3>1, <3>2 DEF Recalls, At, Job
  <2> HIDE DEF ok, saw
  <2> QED BY <1>1, <2>1, <2>2, <2>3, AttentiveTyped, CheckAlike DEF Steps
<1>5. CASE At(r, op, "cleared")
  <2>1. Commits(r) /\ UNCHANGED <<stockVars, docVars, active, role, rows, bill>>
    BY <1>5 DEF ChangesWarehouse, At
  <2>2. depot[w] # "absent" /\ req[r].saw[2] = Default /\ req[r].saw[1] = chosen
    BY <1>0, <1>1, <1>3, <1>5, AttentiveTyped DEF Recalls, At
  <2>3. depot' = [v \in Warehouse |->
                    IF ~ chosen THEN depot[v]
                    ELSE IF v = w THEN "default"
                    ELSE IF v \in Default THEN "plain" ELSE depot[v]]
    BY <1>0, <1>5, <2>2 DEF ChangesWarehouse, At
  <2>4. depot' = IF job.default THEN Twin!TakeDefaultFrom(w) ELSE depot
    <3>1. CASE chosen BY <1>3, <2>3, <3>1 DEF Twin!TakeDefaultFrom, Default
    <3>2. CASE ~ chosen
      <4>1. depot = [v \in Warehouse |-> depot[v]] BY AttentiveTyped
      <4> QED BY <1>3, <2>3, <3>2, <4>1
    <3> QED BY <3>1, <3>2
  <2>5. UNCHANGED <<stock, received, recipe, active, role, rows, bill>> /\ (Seen.status)' = Seen.status
    BY <2>1, TablesSame
  <2> DEFINE form == AsForm(job)
  <2>6. form.op = "updateWarehouse" /\ form.target = w /\ form.default = job.default
    BY <1>0, <1>1, <1>2, Renamed
  <2>7. job \in Submitted BY <1>0, AttentiveTyped
  <2>8. Twin!UpdateWarehouse(form)
    <3> HIDE DEF form
    <3> QED BY <2>2, <2>4, <2>5, <2>6 DEF Twin!UpdateWarehouse
  <2>9. Alike BY <2>7, <2>8, TwinStep DEF Twin!Does
  <2> QED BY <1>1, <2>1, <2>9, AttentiveTyped, CommitAlike
<1> QED BY <1>1, <1>4, <1>5

(* The switch of a product.                                                 *)
LEMMA SwitchAlike ==
  ASSUME NEW r \in Request, Attentive(r), SetProductActive(r) \/ DeactivateProduct(r)
  PROVE  Alike /\ Recalls(r)'
<1>1. PICK op \in {"setActive", "apiDeactivate"} : At(r, op, "begun") \/ At(r, op, "read")
  BY DEF SetProductActive, DeactivateProduct
<1>2. Job(r).op = op /\ Parsed(Job(r)) /\ req[r].at \in Steps
  BY <1>1, AttentiveTyped, AtWorks DEF Steps
<1>0. PICK job : job = Job(r) OBVIOUS
<1>3. CASE At(r, op, "begun")
  <2>1. Advance(r, "read", <<>>) /\ UNCHANGED <<stockVars, docVars, adminVars, boundVars>>
    BY <1>3 DEF SetProductActive, DeactivateProduct, At, Check
  <2>2. req'[r].job = req[r].job => Recalls(r)' BY <1>2, NothingRecalled
  <2>3. IF TRUE THEN Advance(r, "read", <<>>) ELSE Finish(r) BY <2>1
  <2> QED BY <1>2, <2>1, <2>2, <2>3, AttentiveTyped, CheckAlike DEF Steps
<1>4. CASE At(r, op, "read")
  <2> DEFINE form == AsForm(job)
  <2>1. Commits(r) /\ UNCHANGED <<stockVars, docVars, depot, role, rows, bill>>
    BY <1>4 DEF SetProductActive, DeactivateProduct, At
  <2>2. /\ op = "setActive" =>
             active' = IF job.on THEN active \cup {job.product} ELSE active \ {job.product}
        /\ op = "apiDeactivate" => active' = active \ {job.product}
    BY <1>0, <1>4 DEF SetProductActive, DeactivateProduct, At, Job
  <2>3. op = "setActive" => form = job BY <1>0, <1>2, Renamed DEF Parsed
  <2>4. op = "apiDeactivate" => form = [op |-> "setActive", product |-> job.product, on |-> FALSE]
    BY <1>0, <1>2 DEF AsForm
  <2>5. /\ form.op = "setActive"
        /\ active' = IF form.on THEN active \cup {form.product} ELSE active \ {form.product}
    <3> HIDE DEF form
    <3>1. CASE op = "setActive" BY <1>0, <1>2, <2>2, <2>3, <3>1
    <3>2. CASE op = "apiDeactivate"
      <4>1. form.op = "setActive" /\ form.product = job.product /\ ~ form.on
        BY <2>4, <3>2
      <4> QED BY <2>2, <3>2, <4>1
    <3> QED BY <3>1, <3>2
  <2>6. UNCHANGED <<stock, received, recipe, depot, role, rows, bill>> /\ (Seen.status)' = Seen.status
    BY <2>1, TablesSame
  <2>7. Twin!SetProductActive(form)
    <3> HIDE DEF form
    <3> QED BY <2>5, <2>6 DEF Twin!SetProductActive
  <2>8. job \in Submitted BY <1>0, AttentiveTyped
  <2>9. Alike BY <2>7, <2>8, TwinStep DEF Twin!Does
  <2> QED BY <1>2, <2>1, <2>9, AttentiveTyped, CommitAlike
<1> QED BY <1>1, <1>3, <1>4

(* The catalogue.  The unique index refuses what the store looks for first. *)
LEMMA LookAlike ==
  ASSUME NEW r \in Request, Attentive(r), NEW op \in Keeping, At(r, op, "begun"),
         NEW ok, NEW step \in Steps, NEW saw, IF ok THEN Advance(r, step, saw) ELSE Finish(r),
         UNCHANGED <<stockVars, docVars, adminVars, boundVars>>
  PROVE  Alike /\ Recalls(r)'
<1>1. Job(r).op = op /\ req[r].at \in Steps BY AttentiveTyped, AtWorks DEF Steps
<1>2. req'[r].job = req[r].job => Recalls(r)'
  BY <1>1, NothingRecalled DEF Keeping, CatalogueOps
<1> QED BY <1>1, <1>2, AttentiveTyped, CheckAlike

LEMMA RowsAlike ==
  ASSUME NEW r \in Request, Attentive(r), NEW op \in Keeping, NEW step \in Steps, At(r, op, step),
         Commits(r), UNCHANGED <<stockVars, docVars, depot, active, role, bill>>,
         \/ rows' = rows
         \/ OnlyInDatabase
         \/ UNCHANGED <<stock, Seen.status, received, recipe, depot, active, role, bill>>
              => Twin!Does(AsForm(Job(r)))
  PROVE  Alike /\ Recalls(r)'
<1>1. req[r].at \in Steps BY AttentiveTyped, AtWorks
<1>2. UNCHANGED <<stock, received, recipe, depot, active, role, bill>> /\ (Seen.status)' = Seen.status
  BY TablesSame
<1>3. Alike
  <2>1. CASE rows' = rows BY <1>2, <2>1 DEF Alike, Twin!demoVars
  <2>2. CASE OnlyInDatabase BY <2>2 DEF Alike
  <2>3. CASE Twin!Does(AsForm(Job(r))) BY <2>3, AttentiveTyped, TwinStep
  <2> QED BY <1>2, <2>1, <2>2, <2>3
<1> QED BY <1>1, <1>3, AttentiveTyped, CommitAlike

Lacking == {"variant", "tier", "rate"}

LEMMA LackingAlike ==
  ASSUME NEW table \in Lacking, rows' # rows,
         \A x \in (rows \cup rows') \ (rows \cap rows') : x.table = table
  PROVE  OnlyInDatabase
<1>1. PICK x \in (rows \cup rows') \ (rows \cap rows') : TRUE OBVIOUS
<1>2. x.table \in {"variant", "tier", "rate"} BY <1>1 DEF Lacking
<1> QED BY <1>1, <1>2 DEF OnlyInDatabase

\* The operations of the store for an insert into a table, for a change.
AddsTo(form, table) ==
  \/ form.op = "createProduct" /\ table = "product"
  \/ form.op = "createSupplier" /\ table = "supplier"
  \/ form.op = "createCustomer" /\ table = "customer"
  \/ form.op = "createBom" /\ table = "bom"
  \/ form.op = "upsertField" /\ table = "field"
  \/ form.op = "createSubscription" /\ table = "subscription"

ChangesIn(form, table) ==
  \/ form.op = "updateProduct" /\ table = "product"
  \/ form.op = "updateSupplier" /\ table = "supplier"
  \/ form.op = "updateSubscription" /\ table = "subscription"

LEMMA InsertsAlike ==
  ASSUME NEW r \in Request, Attentive(r), NEW op \in CatalogueOps, NEW step \in Steps,
         NEW table, InsertsAt(r, op, step, table),
         table \in Lacking \/ AddsTo(AsForm(Job(r)), table)
  PROVE  Alike /\ Recalls(r)'
<1>0. PICK job : job = Job(r) OBVIOUS
<1> DEFINE new == [table |-> table, row |-> job.target, key |-> job.key]
<1>1. /\ At(r, op, step) /\ Commits(r)
      /\ UNCHANGED <<stockVars, docVars, depot, active, role, bill>>
      /\ rows' = IF HasRow(table, job.target) \/ KeyTaken(table, job.target, job.key) THEN rows
                 ELSE rows \cup {new}
  BY <1>0 DEF InsertsAt
<1>2. Job(r).op = op /\ job \in Form /\ op \in Keeping
  BY <1>0, <1>1, AttentiveTyped, AtWorks DEF Parsed, Keeping
<1>3. CASE rows' = rows BY <1>1, <1>2, <1>3, RowsAlike
<1>4. CASE rows' # rows /\ table \in Lacking
  <2>1. rows' = rows \cup {new} /\ new.table = table BY <1>1, <1>4
  <2> HIDE DEF new
  <2>2. OnlyInDatabase BY <1>4, <2>1, LackingAlike
  <2> QED BY <1>1, <1>2, <2>2, RowsAlike
<1>5. CASE rows' # rows /\ AddsTo(AsForm(job), table)
  <2>1. PICK form : form = AsForm(job) OBVIOUS
  <2>2. form.target = job.target /\ form.key = job.key BY <1>0, <1>2, <2>1, Renamed
  <2>3. ~ HasRow(table, form.target) /\ ~ KeyTaken(table, form.target, form.key)
        /\ rows' = rows \cup {[table |-> table, row |-> form.target, key |-> form.key]}
    BY <1>1, <1>5, <2>2
  <2>4. Twin!SameRow(table, form.target) = {} BY <2>3 DEF HasRow, Twin!SameRow
  <2>5. table # "subscription" => Twin!SameKey(table, form.key) = {}
    <3>1. table # "subscription" => table \in Indexed BY <1>5 DEF AddsTo, Indexed
    <3> QED BY <2>3, <3>1 DEF HasRow, KeyTaken, Twin!SameKey
  <2>6. ASSUME UNCHANGED <<stock, Seen.status, received, recipe, depot, active, role, bill>>
        PROVE  Twin!Does(form)
    <3>1. CASE table = "subscription"
      <4>1. Twin!CreateWebhookSubscription(form)
        BY <1>5, <2>1, <2>3, <2>4, <2>6, <3>1 DEF AddsTo, Twin!CreateWebhookSubscription
      <4> QED BY <4>1 DEF Twin!Does
    <3>2. CASE table # "subscription"
      <4>1. Twin!Adds(form, form.op, table)
        BY <2>3, <2>4, <2>5, <2>6, <3>2 DEF Twin!Adds
      <4>2. \/ Twin!CreateProduct(form) \/ Twin!CreateSupplier(form) \/ Twin!CreateCustomer(form)
            \/ Twin!CreateBom(form) \/ Twin!UpsertCustomField(form)
        BY <1>5, <2>1, <3>2, <4>1
           DEF AddsTo, Twin!CreateProduct, Twin!CreateSupplier, Twin!CreateCustomer,
               Twin!CreateBom, Twin!UpsertCustomField
      <4> QED BY <4>2 DEF Twin!Does
    <3> QED BY <3>1, <3>2
  <2> QED BY <1>0, <1>1, <1>2, <2>1, <2>6, RowsAlike
<1> QED BY <1>0, <1>3, <1>4, <1>5

\* One row is written anew: the same rows, or another one for it.
LEMMA RewritesAlike ==
  ASSUME NEW r \in Request, Attentive(r), NEW op \in CatalogueOps, NEW table,
         Rewrites(r, op, table),
         table \in Lacking \cup {"customer"} \/ ChangesIn(AsForm(Job(r)), table)
  PROVE  Alike /\ Recalls(r)'
<1>0. PICK job : job = Job(r) OBVIOUS
<1> DEFINE new == [table |-> table, row |-> job.target, key |-> job.key]
           kept == {other \in rows : other.table # table \/ other.row # job.target}
<1>1. CASE At(r, op, "begun")
  <2>1. PICK ok, saw : IF ok THEN Advance(r, "read", saw) ELSE Finish(r)
    BY <1>1 DEF Rewrites, At, Check
  <2>2. UNCHANGED <<stockVars, docVars, adminVars, boundVars>>
    BY <1>1 DEF Rewrites, At, Check
  <2> QED BY <1>1, <2>1, <2>2, LookAlike DEF Keeping, Steps
<1>2. CASE At(r, op, "read")
  <2>1. /\ Commits(r)
        /\ UNCHANGED <<stockVars, docVars, depot, active, role, bill>>
        /\ rows' = IF ~ HasRow(table, job.target) \/ KeyTaken(table, job.target, job.key) THEN rows
                   ELSE kept \cup {new}
    BY <1>0, <1>2 DEF Rewrites, At
  <2>2. Job(r).op = op /\ job \in Form /\ op \in Keeping /\ "read" \in Steps
    BY <1>0, <1>2, AttentiveTyped, AtWorks DEF Parsed, Keeping, Steps
  <2>3. CASE rows' = rows BY <1>2, <2>1, <2>2, <2>3, RowsAlike
  <2>4. CASE rows' # rows /\ table \in Lacking
    <3>1. rows' = kept \cup {new} /\ new.table = table BY <2>1, <2>4
    <3>2. \A x \in (rows \cup rows') \ (rows \cap rows') : x.table = table BY <3>1
    <3>3. OnlyInDatabase BY <2>4, <3>2, LackingAlike
    <3> QED BY <1>2, <2>1, <2>2, <3>3, RowsAlike
  <2>5. CASE rows' # rows /\ table = "customer"
    <3>1. rows' = kept \cup {new} /\ HasRow(table, job.target)
          /\ new.table = "customer" /\ new.row = job.target
      BY <2>1, <2>5
    <3>2. PICK other \in rows : other.table = table /\ other.row = job.target
      BY <3>1 DEF HasRow
    <3> HIDE DEF new
    <3>3. new \in rows' BY <3>1
    <3>4. CASE \E x \in rows : x \notin rows'
      <4>1. PICK x \in rows : x \notin rows' BY <3>4
      <4>2. x.table = "customer" /\ x.row = new.row BY <2>5, <3>1, <4>1
      <4>3. {x.table, new.table} = {"customer"} BY <3>1, <4>2
      <4>4. OnlyInDatabase BY <3>3, <4>1, <4>2, <4>3 DEF OnlyInDatabase
      <4> QED BY <1>2, <2>1, <2>2, <4>4, RowsAlike
    <3>5. CASE \A x \in rows : x \in rows'
      <4>1. other = new BY <3>1, <3>2, <3>5
      <4>2. rows' = rows BY <3>1, <3>2, <3>5, <4>1
      <4> QED BY <2>5, <4>2
    <3> QED BY <3>4, <3>5
  <2>6. CASE rows' # rows /\ ChangesIn(AsForm(job), table)
    <3>1. PICK form : form = AsForm(job) OBVIOUS
    <3>2. form.target = job.target /\ form.key = job.key BY <1>0, <2>2, <3>1, Renamed
    <3>3. /\ HasRow(table, form.target) /\ ~ KeyTaken(table, form.target, form.key)
          /\ rows' = kept \cup {[table |-> table, row |-> form.target, key |-> form.key]}
      BY <2>1, <2>6, <3>2
    <3>4. kept = rows \ Twin!SameRow(table, form.target) /\ Twin!SameRow(table, form.target) # {}
      BY <3>2, <3>3 DEF HasRow, Twin!SameRow
    <3>5. table # "subscription" =>
            Twin!SameKey(table, form.key) \subseteq Twin!SameRow(table, form.target)
      <4>1. table # "subscription" => table \in Indexed BY <2>6 DEF ChangesIn, Indexed
      <4> QED BY <3>3, <4>1 DEF KeyTaken, Twin!SameKey, Twin!SameRow
    <3>6. ASSUME UNCHANGED <<stock, Seen.status, received, recipe, depot, active, role, bill>>
          PROVE  Twin!Does(form)
      <4>1. CASE table = "subscription"
        <5>1. Twin!UpdateWebhookSubscription(form)
          BY <2>6, <3>1, <3>3, <3>4, <3>6, <4>1 DEF ChangesIn, Twin!UpdateWebhookSubscription
        <5> QED BY <5>1 DEF Twin!Does
      <4>2. CASE table # "subscription"
        <5>1. Twin!Changes(form, form.op, table)
          BY <3>3, <3>4, <3>5, <3>6, <4>2 DEF Twin!Changes
        <5>2. Twin!UpdateProduct(form) \/ Twin!UpdateSupplier(form)
          BY <2>6, <3>1, <4>2, <5>1 DEF ChangesIn, Twin!UpdateProduct, Twin!UpdateSupplier
        <5> QED BY <5>2 DEF Twin!Does
      <4> QED BY <4>1, <4>2
    <3> QED BY <1>0, <1>2, <2>1, <2>2, <3>1, <3>6, RowsAlike
  <2> QED BY <1>0, <2>3, <2>4, <2>5, <2>6
<1> QED BY <1>1, <1>2 DEF Rewrites

LEMMA DeletesAlike ==
  ASSUME NEW r \in Request, Attentive(r), NEW op \in Keeping, NEW table \in Lacking,
         Deletes(r, op, table)
  PROVE  Alike /\ Recalls(r)'
<1>1. CASE At(r, op, "begun")
  <2>1. PICK ok, saw : IF ok THEN Advance(r, "read", saw) ELSE Finish(r)
    BY <1>1 DEF Deletes, At, Check
  <2>2. UNCHANGED <<stockVars, docVars, adminVars, boundVars>>
    BY <1>1 DEF Deletes, At, Check
  <2> QED BY <1>1, <2>1, <2>2, LookAlike DEF Steps
<1>2. CASE At(r, op, "read")
  <2>1. /\ Commits(r)
        /\ UNCHANGED <<stockVars, docVars, depot, active, role, bill>>
        /\ rows' = {other \in rows : other.table # table \/ other.row # Job(r).target}
    BY <1>2 DEF Deletes, At
  <2>2. rows' # rows => OnlyInDatabase BY <2>1, LackingAlike
  <2> QED BY <1>2, <2>1, <2>2, RowsAlike DEF Steps
<1> QED BY <1>1, <1>2 DEF Deletes

LEMMA CatalogueAlike ==
  ASSUME NEW r \in Request, Attentive(r),
         \/ CreateProduct(r) \/ UpdateProduct(r) \/ CreateSupplier(r) \/ UpdateSupplier(r)
         \/ CreateCustomer(r) \/ CreateVariant(r) \/ UpdateVariant(r) \/ DeleteVariant(r)
         \/ CreateBom(r) \/ CreateWebhookSubscription(r) \/ UpdateWebhookSubscription(r)
         \/ DeleteCustomerPriceTier(r) \/ UpsertCustomField(r)
         \/ ApiCreateProduct(r) \/ ApiUpdateProduct(r)
         \/ UpdateProductVariant(r) \/ DeleteProductVariant(r)
         \/ ApiCreateSupplier(r) \/ ApiUpdateSupplier(r)
         \/ ApiCreateCustomer(r) \/ UpdateCustomer(r)
  PROVE  Alike /\ Recalls(r)'
<1>0. PICK job : job = Job(r) OBVIOUS
<1>1. \A op, table : Inserts(r, op, table) \/ Rewrites(r, op, table)
                       => job.op = op /\ (At(r, op, "begun") \/ At(r, op, "read"))
  BY <1>0 DEF Inserts, InsertsAt, Rewrites, At, Job
<1>2. job.op \in CatalogueOps =>
        \A op : At(r, op, "begun") \/ At(r, op, "read") => job \in Form
  BY <1>0, AttentiveTyped, AtWorks DEF Parsed, Steps
<1>3. job.op \in CatalogueOps /\ job \in Form =>
        /\ job.op \notin {"apiCreateProduct", "apiUpdateProduct", "apiCreateSupplier",
                          "apiUpdateSupplier", "apiCreateCustomer"} => AsForm(job).op = job.op
        /\ job.op = "apiCreateProduct" => AsForm(job).op = "createProduct"
        /\ job.op = "apiUpdateProduct" => AsForm(job).op = "updateProduct"
        /\ job.op = "apiCreateSupplier" => AsForm(job).op = "createSupplier"
        /\ job.op = "apiUpdateSupplier" => AsForm(job).op = "updateSupplier"
        /\ job.op = "apiCreateCustomer" => AsForm(job).op = "createCustomer"
  BY Renamed DEF CatalogueOps
<1>4. \A op \in CatalogueOps : \A table :
        Inserts(r, op, table) /\ (table \in Lacking \/ AddsTo(AsForm(job), table))
          => Alike /\ Recalls(r)'
  <2> SUFFICES ASSUME NEW op \in CatalogueOps, NEW table, Inserts(r, op, table),
                      table \in Lacking \/ AddsTo(AsForm(job), table)
               PROVE  Alike /\ Recalls(r)'
    OBVIOUS
  <2> QED BY <1>0, InsertsAlike DEF Inserts, Steps
<1>5. \A op \in CatalogueOps : \A table :
        Rewrites(r, op, table) /\ (table \in Lacking \cup {"customer"} \/ ChangesIn(AsForm(job), table))
          => Alike /\ Recalls(r)'
  BY <1>0, RewritesAlike
<1>6. CASE \/ CreateProduct(r) \/ CreateSupplier(r) \/ CreateCustomer(r) \/ CreateBom(r)
           \/ CreateWebhookSubscription(r) \/ UpsertCustomField(r) \/ CreateVariant(r)
           \/ ApiCreateProduct(r) \/ ApiCreateSupplier(r) \/ ApiCreateCustomer(r)
  <2>1. PICK op \in CatalogueOps : \E table :
          /\ Inserts(r, op, table)
          /\ \/ op \in {"createProduct", "apiCreateProduct"} /\ table = "product"
             \/ op \in {"createSupplier", "apiCreateSupplier"} /\ table = "supplier"
             \/ op \in {"createCustomer", "apiCreateCustomer"} /\ table = "customer"
             \/ op = "createBom" /\ table = "bom"
             \/ op = "createSubscription" /\ table = "subscription"
             \/ op = "upsertField" /\ table = "field"
             \/ op = "createVariant" /\ table = "variant"
    BY <1>6 DEF CreateProduct, CreateSupplier, CreateCustomer, CreateBom, CreateWebhookSubscription,
         UpsertCustomField, CreateVariant, ApiCreateProduct, ApiCreateSupplier, ApiCreateCustomer,
         CatalogueOps
  <2>2. PICK table :
          /\ Inserts(r, op, table)
          /\ \/ op \in {"createProduct", "apiCreateProduct"} /\ table = "product"
             \/ op \in {"createSupplier", "apiCreateSupplier"} /\ table = "supplier"
             \/ op \in {"createCustomer", "apiCreateCustomer"} /\ table = "customer"
             \/ op = "createBom" /\ table = "bom"
             \/ op = "createSubscription" /\ table = "subscription"
             \/ op = "upsertField" /\ table = "field"
             \/ op = "createVariant" /\ table = "variant"
    BY <2>1
  <2>3. job.op = op /\ job \in Form BY <1>1, <1>2, <2>2
  <2>4. table \in Lacking \/ AddsTo(AsForm(job), table)
    BY <1>3, <2>2, <2>3 DEF Lacking, AddsTo
  <2> QED BY <1>4, <2>2, <2>4
<1>7. CASE \/ UpdateProduct(r) \/ UpdateSupplier(r) \/ UpdateVariant(r)
           \/ UpdateWebhookSubscription(r) \/ ApiUpdateProduct(r) \/ ApiUpdateSupplier(r)
           \/ UpdateProductVariant(r) \/ UpdateCustomer(r)
  <2>1. PICK op \in CatalogueOps : \E table :
          /\ Rewrites(r, op, table)
          /\ \/ op \in {"updateProduct", "apiUpdateProduct"} /\ table = "product"
             \/ op \in {"updateSupplier", "apiUpdateSupplier"} /\ table = "supplier"
             \/ op = "updateSubscription" /\ table = "subscription"
             \/ table \in {"variant", "customer"}
    BY <1>7 DEF UpdateProduct, UpdateSupplier, UpdateVariant, UpdateWebhookSubscription,
         ApiUpdateProduct, ApiUpdateSupplier, UpdateProductVariant, UpdateCustomer, CatalogueOps
  <2>2. PICK table :
          /\ Rewrites(r, op, table)
          /\ \/ op \in {"updateProduct", "apiUpdateProduct"} /\ table = "product"
             \/ op \in {"updateSupplier", "apiUpdateSupplier"} /\ table = "supplier"
             \/ op = "updateSubscription" /\ table = "subscription"
             \/ table \in {"variant", "customer"}
    BY <2>1
  <2>3. job.op = op /\ job \in Form BY <1>1, <1>2, <2>2
  <2>4. table \in Lacking \cup {"customer"} \/ ChangesIn(AsForm(job), table)
    BY <1>3, <2>2, <2>3 DEF Lacking, ChangesIn
  <2> QED BY <1>5, <2>2, <2>4
<1>8. CASE DeleteVariant(r) \/ DeleteCustomerPriceTier(r) \/ DeleteProductVariant(r)
  BY <1>8, DeletesAlike
     DEF DeleteVariant, DeleteCustomerPriceTier, DeleteProductVariant, Keeping, Lacking
<1> QED BY <1>6, <1>7, <1>8

(* What is looked up before the insert, what is fetched, and the settings.  *)
LEMMA LookupsAlike ==
  ASSUME NEW r \in Request, Attentive(r),
         \/ UpsertCustomerPriceTier(r) \/ RefreshExchangeRates(r) \/ UpdateOrganizationSettings(r)
         \/ CreateProductVariant(r) \/ CreateCustomerPriceTier(r)
  PROVE  Alike /\ Recalls(r)'
<1>0. PICK job : job = Job(r) OBVIOUS
<1>1. CASE \E op \in {"upsertTier", "refreshRates", "apiCreateVariant", "apiCreateTier"} :
             At(r, op, "begun")
  <2>1. PICK op \in {"upsertTier", "refreshRates", "apiCreateVariant", "apiCreateTier"} :
               At(r, op, "begun")
    BY <1>1
  <2>2. PICK ok, saw : \E step \in {"looked", "fetched", "read"} :
               IF ok THEN Advance(r, step, saw) ELSE Finish(r)
    BY <2>1 DEF UpsertCustomerPriceTier, RefreshExchangeRates, UpdateOrganizationSettings,
         CreateProductVariant, CreateCustomerPriceTier, InsertsAt, At, Check
  <2>3. PICK step \in {"looked", "fetched", "read"} :
               IF ok THEN Advance(r, step, saw) ELSE Finish(r)
    BY <2>2
  <2>4. UNCHANGED <<stockVars, docVars, adminVars, boundVars>>
    BY <2>1 DEF UpsertCustomerPriceTier, RefreshExchangeRates, UpdateOrganizationSettings,
         CreateProductVariant, CreateCustomerPriceTier, InsertsAt, At, Check
  <2>5. op \in Keeping /\ step \in Steps BY DEF Keeping, CatalogueOps, Steps
  <2> QED BY <2>1, <2>3, <2>4, <2>5, LookAlike
<1>2. CASE \/ InsertsAt(r, "refreshRates", "fetched", "rate")
           \/ InsertsAt(r, "apiCreateVariant", "read", "variant")
           \/ InsertsAt(r, "apiCreateTier", "read", "tier")
  BY <1>2, InsertsAlike DEF CatalogueOps, Steps, Lacking
<1>3. CASE At(r, "upsertTier", "looked") /\ UpsertCustomerPriceTier(r)
  <2> DEFINE new == [table |-> "tier", row |-> job.target, key |-> job.key]
  <2>1. /\ Commits(r) /\ UNCHANGED <<stockVars, docVars, depot, active, role, bill>>
        /\ rows' = rows \/ rows' = rows \cup {new}
    BY <1>0, <1>3 DEF UpsertCustomerPriceTier, At
  <2>2. new.table = "tier" OBVIOUS
  <2> HIDE DEF new
  <2>3. rows' # rows => OnlyInDatabase BY <2>1, <2>2, LackingAlike DEF Lacking
  <2>4. "upsertTier" \in Keeping /\ "looked" \in Steps
    BY DEF Keeping, CatalogueOps, Steps
  <2> QED BY <1>3, <2>1, <2>3, <2>4, RowsAlike
<1>4. CASE At(r, "updateSettings", "begun") /\ UpdateOrganizationSettings(r)
  <2>1. /\ Commits(r) /\ UNCHANGED <<stockVars, docVars, depot, active, role, bill>>
        /\ rows' = {other \in rows : other.table # "settings"}
                     \cup {[table |-> "settings", row |-> job.target, key |-> job.key]}
    BY <1>0, <1>4 DEF UpdateOrganizationSettings
  <2>2. job.op = "updateSettings" /\ job \in Form
    BY <1>0, <1>4, AttentiveTyped, AtWorks DEF Parsed, Steps
  <2>3. AsForm(job) = job BY <2>2, Renamed
  <2>4. ASSUME UNCHANGED <<stock, Seen.status, received, recipe, depot, active, role, bill>>
        PROVE  Twin!Does(job)
    <3>1. {other \in rows : other.table # "settings"} = rows \ {x \in rows : x.table = "settings"}
      OBVIOUS
    <3>2. Twin!UpdateOrganizationSettings(job)
      BY <2>1, <2>2, <2>4, <3>1 DEF Twin!UpdateOrganizationSettings
    <3> QED BY <3>2 DEF Twin!Does
  <2>5. "updateSettings" \in Keeping /\ "begun" \in Steps
    BY DEF Keeping, CatalogueOps, Steps
  <2> QED BY <1>0, <1>4, <2>1, <2>3, <2>4, <2>5, RowsAlike
<1>5. \/ \E op \in {"upsertTier", "refreshRates", "apiCreateVariant", "apiCreateTier"} :
           At(r, op, "begun")
      \/ InsertsAt(r, "refreshRates", "fetched", "rate")
      \/ InsertsAt(r, "apiCreateVariant", "read", "variant")
      \/ InsertsAt(r, "apiCreateTier", "read", "tier")
      \/ At(r, "upsertTier", "looked") /\ UpsertCustomerPriceTier(r)
      \/ At(r, "updateSettings", "begun") /\ UpdateOrganizationSettings(r)
  BY DEF UpsertCustomerPriceTier, RefreshExchangeRates, UpdateOrganizationSettings,
       CreateProductVariant, CreateCustomerPriceTier
<1> QED BY <1>1, <1>2, <1>3, <1>4, <1>5

------------------------
(* Every step of a request.  One that fails forgets what it has read.       *)
LEMMA ServedAlike ==
  ASSUME NEW r \in Request, Attentive(r), req[r] # Idle, Handle(r) \/ Serve(r) \/ Fail(r)
  PROVE  Alike /\ Recalls(r)'
<1>1. CASE Fail(r)
  <2>1. req'[r] = Idle BY <1>1, AttentiveTyped DEF Fail, Finish, TypeInv, RequestsTyped
  <2>2. UNCHANGED <<stockVars, docVars, adminVars>> BY <1>1 DEF Fail
  <2> QED BY <2>1, <2>2, UnchangedAlike, IdleRecalls DEF Alike
<1>2. CASE Serve(r)
  <2>1. CASE \/ ApiCreateProduct(r) \/ ApiUpdateProduct(r)
             \/ UpdateProductVariant(r) \/ DeleteProductVariant(r)
             \/ ApiCreateSupplier(r) \/ ApiUpdateSupplier(r)
             \/ ApiCreateCustomer(r) \/ UpdateCustomer(r)
    BY <2>1, CatalogueAlike
  <2>2. CASE CreateProductVariant(r) \/ CreateCustomerPriceTier(r) BY <2>2, LookupsAlike
  <2>3. CASE ApiCreateWarehouse(r) \/ ApiUpdateWarehouse(r)
    BY <2>3, OpensAlike, ChangesAlike DEF ApiCreateWarehouse, ApiUpdateWarehouse
  <2>4. CASE DeactivateProduct(r) BY <2>4, SwitchAlike
  <2>5. CASE \/ ApiCreateSalesOrder(r) \/ PortalPlaceOrder(r) \/ ApiCreatePurchaseOrder(r)
             \/ ApiCreateSalesReturn(r) \/ ApiCreateCreditNote(r)
    BY <2>5, CreatingAlike
  <2> QED BY <1>2, <2>1, <2>2, <2>3, <2>4, <2>5 DEF Serve
<1>3. CASE Handle(r)
  <2>1. CASE \/ CreateProduct(r) \/ UpdateProduct(r)
             \/ CreateSupplier(r) \/ UpdateSupplier(r) \/ CreateCustomer(r)
             \/ CreateVariant(r) \/ UpdateVariant(r) \/ DeleteVariant(r) \/ CreateBom(r)
             \/ DeleteCustomerPriceTier(r) \/ UpsertCustomField(r)
             \/ CreateWebhookSubscription(r) \/ UpdateWebhookSubscription(r)
    BY <2>1, CatalogueAlike
  <2>2. CASE UpsertCustomerPriceTier(r) \/ UpdateOrganizationSettings(r) \/ RefreshExchangeRates(r)
    BY <2>2, LookupsAlike
  <2>3. CASE CreateWarehouse(r) \/ UpdateWarehouse(r) \/ SetProductActive(r)
    BY <2>3, OpensAlike, ChangesAlike, SwitchAlike DEF CreateWarehouse, UpdateWarehouse
  <2>4. CASE \/ CreateUser(r) \/ UpdateUserRole(r) \/ DeleteUser(r)
             \/ CreateInvoice(r) \/ RecordPayment(r) \/ TransitionInvoiceStatus(r)
    BY <2>4, MembersAlike, InvoicesAlike
  <2>5. CASE \/ CreateSalesOrder(r) \/ CreatePurchaseOrder(r) \/ GenerateSmartPurchaseOrders(r)
             \/ CreateSalesReturn(r) \/ CreateCreditNote(r)
    BY <2>5, CreatingAlike
  <2>6. CASE StartPicking(r) \/ PackOrder(r) \/ ShipOrder(r) \/ DeliverOrder(r)
    BY <2>6, ForwardAlike
  <2>7. CASE CreateStockMovement(r) \/ CreateStockTransfer(r) \/ RecordStocktakeCount(r)
    BY <2>7, MovementAlike, TransferAlike, CountAlike
  <2>8. CASE \/ UpdateBom(r) \/ CreateManufacturingOrder(r)
             \/ StartManufacturingOrder(r) \/ CompleteManufacturingOrder(r)
    BY <2>8, RecipeAlike, BuildAlike, StartAlike, CompleteAlike
  <2>9. CASE \/ ReceivePurchaseOrder(r) \/ ConfirmSalesOrder(r) \/ ApproveSalesReturn(r)
             \/ UpdatePickListItem(r)
    BY <2>9, ReceiveAlike, ConfirmAlike, ApproveAlike, PickAlike
  <2> QED BY <1>3, <2>1, <2>2, <2>3, <2>4, <2>5, <2>6, <2>7, <2>8, <2>9 DEF Handle
<1> QED BY <1>1, <1>2, <1>3

LEMMA AloneAtWork ==
  ASSUME Apart, "application" \notin clashed,
         NEW q \in Request, NEW r \in Request, q # r, req[r] # Idle
  PROVE  req[q] = Idle
BY DEF Apart, Subjects

(* Who is served while nobody overlaps is attentive. *)
LEMMA ServedAttentive ==
  ASSUME OfficeInv, BooksInv, Undisturbed, "application" \notin clashed,
         NEW r \in Request, req[r] # Idle
  PROVE  Attentive(r)
BY DEF OfficeInv, BooksInv, Undisturbed, Attentive

LEMMA UndisturbedKept == OfficeInv /\ BooksInv /\ Undisturbed /\ [Next]_allVars => Undisturbed'
<1> SUFFICES ASSUME OfficeInv, BooksInv, Undisturbed, [Next]_allVars PROVE Undisturbed'
  OBVIOUS
<1>1. TypeInv /\ Apart /\ DOMAIN req = Request BY DEF OfficeInv, TypeInv, RequestsTyped
<1>2. CASE UNCHANGED allVars
  <2>1. UNCHANGED <<stock, status, recipe, depot, active, role, bill, req, clashed>>
    BY <1>2 DEF allVars, vars, stockVars, docVars, adminVars, boundVars
  <2>2. \A r \in Request : Recalls(r) => Recalls(r)'
    <3> SUFFICES ASSUME NEW r \in Request, Recalls(r) PROVE Recalls(r)' OBVIOUS
    <3>1. Default' = Default /\ Managers' = Managers BY <2>1 DEF Default, Managers
    <3> QED BY <2>1, <3>1 DEF Recalls, At, Job, EnoughStock, OfSomebodyElse
  <2> QED BY <2>1, <2>2 DEF Undisturbed, Job
<1>3. CASE mode = "demo" /\ \E job \in Menu[desk] : InDemoMode(job)
  <2>1. req' = req /\ clashed' = clashed /\ \A r \in Request : req[r] = Idle
    BY <1>1, <1>3 DEF InDemoMode, TypeInv, BoundsTyped
  <2>2. \A r \in Request : req'[r] = Idle BY <2>1
  <2>3. \A r \in Request : Recalls(r)' BY <2>2, IdleRecalls
  <2> QED BY <2>1, <2>2, <2>3 DEF Undisturbed, Job
<1>4. ASSUME mode = "database", mode' = mode, NEW r \in Request, Begin(r) \/ Route(r)
      PROVE  Undisturbed'
  <2>1. PICK job \in Menu[desk] : Enters(r, job) BY <1>4 DEF Begin, Route
  <2>2. job \in Submitted BY <1>1, <2>1 DEF Submitted, TypeInv, BoundsTyped
  <2>3. /\ req'[r] = [job |-> job, at |-> "begun", saw |-> <<>>]
        /\ \A q \in Request \ {r} : req'[q] = req[q]
    BY <1>1, <2>1 DEF Enters
  <2>4. clashed' = clashed \cup UNION {Subjects(job) \cap Subjects(Job(q)) :
                                         q \in {q \in Request : req[q].at # "idle"}}
    BY <2>1 DEF Enters
  <2>5. \A q \in Request : req'[q] # Idle => Job(q)' \in Submitted
    BY <2>2, <2>3 DEF Undisturbed, Job
  <2>6. ASSUME "application" \notin clashed' PROVE clashed' = {} /\ \A q \in Request : Recalls(q)'
    <3>1. \A q \in Request : req[q].at = "idle"
      <4> SUFFICES ASSUME NEW q \in Request, req[q].at # "idle" PROVE FALSE OBVIOUS
      <4>1. "application" \in Subjects(job) \cap Subjects(Job(q)) BY DEF Subjects
      <4> QED BY <2>4, <2>6, <4>1
    <3>2. \A q \in Request : req[q] = Idle
      BY <1>1, <3>1 DEF TypeInv, RequestsTyped, Working, Steps
    <3>3. clashed' = {}
      <4>1. clashed' = clashed BY <2>4, <3>1
      <4> QED BY <2>6, <4>1 DEF Undisturbed
    <3>4. Recalls(r)' BY <2>3 DEF Recalls, At
    <3>5. \A q \in Request \ {r} : Recalls(q)' BY <2>3, <3>2, IdleRecalls
    <3> QED BY <3>3, <3>4, <3>5
  <2> QED BY <2>5, <2>6 DEF Undisturbed
<1>5. ASSUME mode = "database", mode' = mode, NEW r \in Request, Handle(r) \/ Serve(r) \/ Fail(r)
      PROVE  Undisturbed'
  <2>1. Moves(r) /\ req[r] # Idle /\ clashed' = clashed
    BY <1>1, <1>5, RequestsKept DEF Outcome, Moves, boundVars
  <2>2. \A q \in Request : req'[q] # Idle => req[q] # Idle /\ Job(q)' = Job(q)
    BY <2>1 DEF Moves, Job
  <2>3. ASSUME "application" \notin clashed PROVE clashed = {} /\ \A q \in Request : Recalls(q)'
    <3>1. clashed = {} BY <2>3 DEF Undisturbed
    <3>2. Recalls(r)' BY <1>5, <2>1, <2>3, ServedAttentive, ServedAlike
    <3>3. ASSUME NEW q \in Request, q # r PROVE Recalls(q)'
      <4>1. req'[q] = Idle BY <1>1, <2>1, <2>3, <3>3, AloneAtWork DEF Moves
      <4> QED BY <4>1, IdleRecalls
    <3> QED BY <3>1, <3>2, <3>3
  <2> QED BY <2>1, <2>2, <2>3 DEF Undisturbed
<1> QED BY <1>2, <1>3, <1>4, <1>5 DEF Next

LEMMA InitUndisturbed == Init => Undisturbed
<1> SUFFICES ASSUME Init PROVE Undisturbed OBVIOUS
<1>1. clashed = {} /\ \A r \in Request : req[r] = Idle BY DEF Init
<1>2. \A r \in Request : Recalls(r) BY <1>1 DEF Recalls, At, Idle, NoJob, Job
<1> QED BY <1>1, <1>2 DEF Undisturbed

(* As long as no two requests have overlapped, whatever a request of the    *)
(* web application or of the API writes is what the demo store does at once *)
(* for the same form, or for the one that stands for the endpoint, or it is *)
(* of what only the database has: for every set of forms, documents and     *)
(* users, wherever the requests before it failed.                           *)
THEOREM RepositoryIsStore == Spec => LikeDemoStore
<1>1. /\ OfficeInv /\ BooksInv /\ Undisturbed /\ [Next]_allVars
        => [mode = "database" /\ "application" \notin clashed'
              => Twin!Next \/ OnlyInDatabase]_Twin!demoVars
  <2> SUFFICES ASSUME OfficeInv, BooksInv, Undisturbed, [Next]_allVars,
                      mode = "database", "application" \notin clashed'
               PROVE  Alike
    BY DEF Alike
  <2>1. CASE UNCHANGED allVars
    <3>1. UNCHANGED <<stockVars, docVars, adminVars>> BY <2>1 DEF allVars, vars
    <3> QED BY <3>1, UnchangedAlike DEF Alike
  <2>2. ASSUME NEW r \in Request, Begin(r) \/ Route(r) PROVE Alike
    <3>1. UNCHANGED <<stockVars, docVars, adminVars>> BY <2>2 DEF Begin, Route
    <3> QED BY <3>1, UnchangedAlike DEF Alike
  <2>3. ASSUME NEW r \in Request, Handle(r) \/ Serve(r) \/ Fail(r) PROVE Alike
    <3>1. req[r] # Idle /\ clashed' = clashed
      BY <2>3, RequestsKept DEF OfficeInv, Outcome, Moves, boundVars
    <3> QED BY <2>3, <3>1, ServedAttentive, ServedAlike
  <2> QED BY <2>1, <2>2, <2>3 DEF Next
<1> QED BY <1>1, InitOffice, InitBooks, InitUndisturbed, OfficeKept, BooksKept, UndisturbedKept,
           PTL DEF Spec, LikeDemoStore
=============================================================================
