------------------------------ MODULE WebTables ------------------------------
(***************************************************************************)
(* The tables that the web application's repository writes in database     *)
(* mode, and the requests that write them.  A server action authenticates  *)
(* its user, parses a form and calls one repository function; the function *)
(* reads in one or two steps, outside a transaction or inside one that     *)
(* locks nothing, and its writes become visible together when it commits.  *)
(* Between two steps every other request may run, and a request may end    *)
(* without having written anything.                                        *)
(*                                                                         *)
(* stock is the sum of the movements per product and warehouse, which is   *)
(* all this repository ever reads of them.                                 *)
(***************************************************************************)
EXTENDS ServerActions, FiniteSetsExt, Functions

CONSTANTS
  Request,        \* server actions that can be under way at a time
  Menu,           \* [Desk -> set of jobs]: who works together, and on what
  Product, Warehouse, User, Row, Key,
  SalesOrder, PurchaseOrder, ManufacturingOrder, SalesReturn, CreditNote,
  Invoice, InvoiceTotal,
  ReturnOf,       \* [SalesReturn -> SalesOrder]
  Opening,        \* [Product -> [Warehouse -> Nat]] what the old movements sum to
  MaxRequests     \* bound: how many actions a behaviour has

VARIABLES
  stock, status, received, lists, shipments, recipe, depot, active, role, rows, bill,
  req,            \* what each request under way is doing
  desk,           \* whose forms are being submitted
  left,           \* how many more actions may begin
  plain,          \* history: what was posted without a document, per product
  used,           \* history: what each manufacturing order consumed
  clashed         \* history: subjects two requests worked on at a time

stockVars == <<stock, plain>>
docVars == <<status, received, lists, shipments, recipe, used>>
adminVars == <<depot, active, role, rows, bill>>
boundVars == <<desk, left, clashed>>
vars == <<stockVars, docVars, adminVars, boundVars, req>>

-----------------------------------------------------------------------------
Doc == SalesOrder \cup PurchaseOrder \cup ManufacturingOrder
         \cup SalesReturn \cup CreditNote
Table == {"product", "supplier", "customer", "variant", "bom", "tier", "field",
          "subscription", "settings", "rate"}

\* A component row of a bill; "by" is the submission that wrote it.
ComponentRow == [product : Product, quantity : Int, by : STRING]
ComponentRows == {rowset \in SUBSET ComponentRow : IsFiniteSet(rowset)}

\* The fields that a form, or the body of a request, has; the schemas and the
\* functions look at what is in them.
OnStock ==
  [op : {"movement"}, product : Product, warehouse : Warehouse, type : STRING, quantity : Int]
  \cup [op : {"transfer"}, product : Product, warehouse : Warehouse, to : Warehouse, quantity : Int]
  \cup [op : {"count"}, product : Product, warehouse : Warehouse, counted : Int]
  \cup [op : {"setActive"}, product : Product, on : BOOLEAN]
  \cup [op : {"apiDeactivate"}, product : Product]

OnOrders ==
  [op : {"createOrder", "apiCreateOrder", "portalOrder", "confirm", "startPicking", "pack", "ship",
         "deliver"}, doc : SalesOrder]
  \cup {job \in [op : {"pick"}, doc : SalesOrder, list : Nat, line : Nat, quantity : Int] :
          job.line \in DOMAIN Lines[job.doc]}
  \cup [op : {"createPurchase", "apiCreatePurchase", "suggest", "receive"}, doc : PurchaseOrder]
  \cup [op : {"createReturn", "apiCreateReturn", "approve"}, doc : SalesReturn]
  \cup [op : {"createCredit", "apiCreateCredit"}, doc : CreditNote]
  \cup [op : {"createBuild", "start", "complete"}, doc : ManufacturingOrder, recipe : Product]
  \cup [op : {"updateBom"}, recipe : Product, components : ComponentRows]

OnInvoices ==
  [op : {"createInvoice"}, target : Invoice]
  \cup [op : {"pay"}, target : Invoice, amount : Int]
  \cup [op : {"transition"}, target : Invoice, to : STRING]

OnMembers ==
  [op : {"createUser", "updateRole"}, actor : User, user : User, role : STRING, area : {"members"}]
  \cup [op : {"deleteUser"}, actor : User, user : User, area : {"members"}]

OnWarehouses ==
  [op : {"createWarehouse", "updateWarehouse", "apiCreateWarehouse", "apiUpdateWarehouse"},
   target : Warehouse, default : BOOLEAN]

OnCatalogue ==
  [op : {"createProduct", "updateProduct", "createVariant", "updateVariant", "createSupplier",
         "updateSupplier", "createCustomer", "createBom", "createSubscription", "upsertField",
         "updateSettings", "refreshRates", "apiCreateProduct", "apiUpdateProduct",
         "apiCreateVariant", "apiUpdateVariant", "apiCreateSupplier", "apiUpdateSupplier",
         "apiCreateCustomer", "apiUpdateCustomer"}, target : Row, key : Key \cup {Blank}]
  \cup [op : {"updateSubscription", "upsertTier", "apiCreateTier"}, target : Row, key : Key]
  \cup [op : {"deleteVariant", "apiDeleteVariant", "deleteTier"}, target : Row]

Form == OnStock \cup OnOrders \cup OnInvoices \cup OnMembers \cup OnWarehouses \cup OnCatalogue

\* Every table draws ids of its own.
ASSUME DocAssumption ==
  /\ SalesOrder \cap (PurchaseOrder \cup ManufacturingOrder \cup SalesReturn \cup CreditNote) = {}
  /\ PurchaseOrder \cap (ManufacturingOrder \cup SalesReturn \cup CreditNote) = {}
  /\ ManufacturingOrder \cap (SalesReturn \cup CreditNote) = {}
  /\ SalesReturn \cap CreditNote = {}
ASSUME MenuAssumption == \A d \in DOMAIN Menu : Menu[d] \subseteq Form
ASSUME BoundAssumption == MaxRequests \in Nat
ASSUME FiniteAssumption ==
  \A S \in {Product, Warehouse, SalesOrder, PurchaseOrder, SalesReturn, ManufacturingOrder} :
     IsFiniteSet(S)
ASSUME OpeningAssumption == Opening \in [Product -> [Warehouse -> Nat]]
\* The lines of purchases and returns have been parsed; those that a customer
\* orders in the portal have not.
ASSUME LinesAssumption ==
  /\ DOMAIN Lines = SalesOrder \cup PurchaseOrder \cup SalesReturn \cup CreditNote
  /\ \A d \in DOMAIN Lines : Lines[d] \in Seq([product : Product, quantity : Int])
  /\ \A d \in PurchaseOrder \cup SalesReturn : \A i \in DOMAIN Lines[d] : Positive(Lines[d][i].quantity)
ASSUME BuildAssumption ==
  Build \in [ManufacturingOrder -> [product : Product, warehouse : Warehouse, quantity : Nat \ {0}]]

NoJob == [op |-> "none"]
Idle == [job |-> NoJob, at |-> "idle", saw |-> <<>>]

-----------------------------------------------------------------------------
(* Lines of a document; one product may be on several of them. *)

QuantityOf(lines, p) ==
  SumFunction([i \in {j \in DOMAIN lines : lines[j].product = p} |-> lines[i].quantity])

\* assertEnoughStock compares every line by itself with what is on hand.
EnoughStock(w, lines) ==
  \A i \in DOMAIN lines : stock[lines[i].product][w] >= lines[i].quantity

\* The stock after movements of all the lines, in or out of warehouse w.
Moved(w, lines, sign) ==
  [p \in Product |-> [v \in Warehouse |->
     stock[p][v] + (IF v = w THEN sign * QuantityOf(lines, p) ELSE 0)]]

Default == {w \in Warehouse : depot[w] = "default"}

\* Codes are PREFIX-(count + 1001), and the documents are never deleted: the
\* code chosen from a count is free exactly when the count is still right.
Count(docs) == Cardinality({d \in docs : status[d] # "ABSENT"})

-----------------------------------------------------------------------------
(* What the pages list of the documents and the members.  The tables are    *)
(* read one by one, as they are at one moment here.  The stock rows of the  *)
(* snapshot, which come from balances or from the newest movements alone,   *)
(* are not here but in Planning, with the pages that reckon with them.      *)

Fetched ==
  [members |-> {u \in User : role[u] # "none"},
   documents |-> {d \in Doc : status[d] # "ABSENT"}]

MappedSalesOrders ==
  {[id |-> o, status |-> status[o], lines |-> Lines[o]] : o \in SalesOrder \cap Fetched.documents}

MappedPurchaseOrders ==
  {[id |-> o, status |-> status[o], lines |-> Lines[o], received |-> received[o]] :
     o \in PurchaseOrder \cap Fetched.documents}

GetAppSnapshot ==
  [salesOrders |-> MappedSalesOrders,
   openSalesOrders |-> {o \in MappedSalesOrders : o.status = "DRAFT"},
   purchaseOrders |-> MappedPurchaseOrders,
   openPurchaseOrders |-> {o \in MappedPurchaseOrders :
                             o.status \in {"DRAFT", "SENT", "PARTIALLY_RECEIVED"}},
   salesReturns |-> {[id |-> d, status |-> status[d], lines |-> Lines[d]] :
                       d \in SalesReturn \cap Fetched.documents},
   manufacturingOrders |-> {[id |-> m, status |-> status[m]] :
                              m \in ManufacturingOrder \cap Fetched.documents},
   members |-> {[user |-> u, role |-> role[u]] : u \in Fetched.members},
   billsOfMaterial |-> recipe]

-----------------------------------------------------------------------------
(* Requests. *)

\* What a job reads or writes that another job may be in the middle of; every
\* job is at least in the application, and one about a bill may be about any
\* product, since the bill's rows change.
Subjects(job) ==
  LET fields == DOMAIN job
      lines == IF "doc" \in fields /\ job.doc \in DOMAIN Lines THEN Lines[job.doc] ELSE <<>>
  IN {"application"}
       \cup {job[f] : f \in fields \cap {"doc", "product", "target", "recipe", "area"}}
       \cup {lines[i].product : i \in DOMAIN lines}
       \cup (IF "recipe" \in fields THEN Product ELSE {})

Job(r) == req[r].job
At(r, op, step) == req[r].at = step /\ req[r].job.op = op
Advance(r, step, saw) ==
  req' = [req EXCEPT ![r] = [job |-> Job(r), at |-> step, saw |-> saw]]
Finish(r) == req' = [req EXCEPT ![r] = Idle]

\* A read and the test of what it returned: an error ends the action.
Check(r, ok, step, saw) ==
  /\ IF ok THEN Advance(r, step, saw) ELSE Finish(r)
  /\ UNCHANGED <<stockVars, docVars, adminVars, boundVars>>

Commits(r) == Finish(r) /\ UNCHANGED boundVars

\* A request begins; what others under way are about is noted.
Enters(r, job) ==
  /\ req' = [req EXCEPT ![r] = [job |-> job, at |-> "begun", saw |-> <<>>]]
  /\ clashed' = clashed \cup UNION {Subjects(job) \cap Subjects(Job(q)) :
                                       q \in {q \in Request : req[q].at # "idle"}}

\* A form lists the warehouses that there are, and none is ever deleted.
Offered(job) ==
  /\ job.op \in {"movement", "transfer", "count"} => depot[job.warehouse] # "absent"
  /\ job.op = "transfer" => depot[job.to] # "absent"
  /\ job.op = "createBuild" => depot[Build[job.doc].warehouse] # "absent"

\* runMutation: the user submits a form; if its schema accepts it, the
\* operation begins.
Begin(r) ==
  /\ req[r].at = "idle"
  /\ left > 0
  /\ left' = left - 1
  /\ \E job \in Menu[desk] :
       /\ Offered(job) /\ Accepted(job)
       /\ Enters(r, job)
  /\ UNCHANGED <<desk, stockVars, docVars, adminVars>>

\* The process, the connection or the transaction ends; nothing is written.
Fail(r) ==
  /\ req[r].at # "idle"
  /\ Finish(r)
  /\ UNCHANGED <<stockVars, docVars, adminVars, boundVars>>
=============================================================================
