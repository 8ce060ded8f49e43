------------------------------ MODULE DemoStore ------------------------------
(***************************************************************************)
(* The in-memory store that the web application uses without a database.   *)
(* Each operation is one synchronous function: nothing runs in the middle  *)
(* of it, and an error it throws before its first write leaves no trace.   *)
(* It is at once a mode of the program and the specification of the        *)
(* repository: what a repository function should do to the same tables     *)
(* when nobody else is at work.                                            *)
(***************************************************************************)
EXTENDS Integers, Sequences, FiniteSets, Functions

CONSTANTS Product, Warehouse, User, Row, Lines, Build, Invoice, InvoiceTotal, SalesOrder, PurchaseOrder,
          ManufacturingOrder, CreditNote,
          Submitted          \* the jobs that forms may submit

VARIABLES stock, status, received, recipe, depot, active, role, rows, bill

demoVars == <<stock, status, received, recipe, depot, active, role, rows, bill>>

-----------------------------------------------------------------------------
(* Helpers. *)

ProductSum(lines, p) ==
  SumFunction([i \in {j \in DOMAIN lines : lines[j].product = p} |-> lines[i].quantity])

Posted(w, lines, sign) ==
  [p \in Product |-> [stock[p] EXCEPT ![w] = @ + sign * ProductSum(lines, p)]]

OnHand(w, lines) == \A i \in DOMAIN lines : stock[lines[i].product][w] >= lines[i].quantity

SetsStatus(d, from, to) ==
  /\ status[d] \in from
  /\ status' = [status EXCEPT ![d] = to]

TakeDefaultFrom(w) ==
  [v \in Warehouse |-> IF v = w THEN "default"
                       ELSE IF depot[v] = "default" THEN "plain" ELSE depot[v]]

May(actor) == role[actor] \in {"Owner", "Admin"}

SameRow(table, id) == {x \in rows : x.table = table /\ x.row = id}
SameKey(table, key) == {x \in rows : x.table = table /\ x.key = key}

\* What the pages list: no returns, for the store has none.
GetDemoSnapshot ==
  LET sales == {o \in SalesOrder : status[o] # "ABSENT"}
      orders == {[id |-> o, status |-> status[o], lines |-> Lines[o], received |-> received[o]] :
                   o \in {o \in PurchaseOrder : status[o] # "ABSENT"}}
  IN [salesOrders |-> {[id |-> o, status |-> status[o], lines |-> Lines[o]] : o \in sales},
      openSalesOrders |-> {[id |-> o, status |-> status[o], lines |-> Lines[o]] :
                             o \in {o \in sales : status[o] = "DRAFT"}},
      purchaseOrders |-> orders,
      openPurchaseOrders |-> {o \in orders : o.status \in {"DRAFT", "SENT", "PARTIALLY_RECEIVED"}},
      salesReturns |-> {},
      manufacturingOrders |-> {[id |-> m, status |-> status[m]] :
                                 m \in {m \in ManufacturingOrder : status[m] # "ABSENT"}},
      members |-> {[user |-> u, role |-> role[u]] : u \in {u \in User : role[u] # "none"}},
      billsOfMaterial |-> recipe]

-----------------------------------------------------------------------------
(* Stock. *)

CreateStockMovement(job) ==
  /\ job.op = "movement"
  /\ LET line == <<[product |-> job.product, quantity |-> job.quantity]>> IN
     /\ job.type = "OUTBOUND" => OnHand(job.warehouse, line)
     /\ stock' = Posted(job.warehouse, line, IF job.type = "OUTBOUND" THEN -1 ELSE 1)
  /\ UNCHANGED <<status, received, recipe, depot, active, role, rows, bill>>

CreateStockTransfer(job) ==
  /\ job.op = "transfer"
  /\ job.product \in active
  /\ depot[job.warehouse] # "absent" /\ depot[job.to] # "absent"
  /\ stock[job.product][job.warehouse] >= job.quantity
  /\ stock' = [stock EXCEPT ![job.product] = [v \in Warehouse |->
                  stock[job.product][v] + (IF v = job.to THEN job.quantity ELSE 0)
                                        - (IF v = job.warehouse THEN job.quantity ELSE 0)]]
  /\ UNCHANGED <<status, received, recipe, depot, active, role, rows, bill>>

RecordStocktakeCount(job) ==
  /\ job.op = "count"
  /\ stock' = [stock EXCEPT ![job.product][job.warehouse] = job.counted]
  /\ UNCHANGED <<status, received, recipe, depot, active, role, rows, bill>>

-----------------------------------------------------------------------------
(* Documents. *)

Creates(job, op, docs, first) ==
  /\ job.op = op
  /\ job.doc \in docs
  /\ SetsStatus(job.doc, {"ABSENT"}, first)
  /\ UNCHANGED <<stock, received, recipe, depot, active, role, rows, bill>>

CreateSalesOrder(job) == Creates(job, "createOrder", SalesOrder, "DRAFT")
CreatePurchaseOrder(job) == Creates(job, "createPurchase", PurchaseOrder, "SENT")
CreateCreditNote(job) == Creates(job, "createCredit", CreditNote, "DRAFT")

ConfirmSalesOrder(job) ==
  /\ job.op = "confirm"
  /\ \E w \in Warehouse :
       /\ depot[w] = "default"
       /\ OnHand(w, Lines[job.doc])
       /\ stock' = Posted(w, Lines[job.doc], -1)
  /\ SetsStatus(job.doc, {"DRAFT"}, "CONFIRMED")
  /\ UNCHANGED <<received, recipe, depot, active, role, rows, bill>>

\* Receives what is left of every line, whatever the status says; nothing is
\* left of a completed order.
ReceivePurchaseOrder(job) ==
  /\ job.op = "receive"
  /\ status[job.doc] # "ABSENT"
  /\ LET rest == [i \in DOMAIN Lines[job.doc] |->
                    [product |-> Lines[job.doc][i].product,
                     quantity |-> Lines[job.doc][i].quantity - received[job.doc][i]]]
     IN \E w \in Warehouse : depot[w] = "default" /\ stock' = Posted(w, rest, 1)
  /\ received' = [received EXCEPT ![job.doc] = [i \in DOMAIN @ |-> Lines[job.doc][i].quantity]]
  /\ status' = [status EXCEPT ![job.doc] = "COMPLETED"]
  /\ UNCHANGED <<recipe, depot, active, role, rows, bill>>

-----------------------------------------------------------------------------
(* Invoices. *)

CreateInvoice(job) ==
  /\ job.op = "createInvoice"
  /\ bill[job.target].status = "ABSENT"
  /\ bill' = [bill EXCEPT ![job.target].status = "DRAFT"]
  /\ UNCHANGED <<stock, status, received, recipe, depot, active, role, rows>>

RecordDemoPayment(job) ==
  /\ job.op = "pay"
  /\ bill[job.target].status # "ABSENT"
  /\ LET total == bill[job.target].paid + job.amount IN
     bill' = [bill EXCEPT ![job.target] =
       [paid |-> total,
        status |-> IF total >= InvoiceTotal[job.target] THEN "PAID"
                   ELSE IF total > 0 THEN "PARTIALLY_PAID" ELSE @.status]]
  /\ UNCHANGED <<stock, status, received, recipe, depot, active, role, rows>>

TransitionDemoInvoiceStatus(job) ==
  /\ job.op = "transition"
  /\ bill[job.target].status # "ABSENT"
  /\ bill' = [bill EXCEPT ![job.target].status = job.to]
  /\ UNCHANGED <<stock, status, received, recipe, depot, active, role, rows>>

-----------------------------------------------------------------------------
(* Manufacturing. *)

UpdateBom(job) ==
  /\ job.op = "updateBom"
  /\ recipe[job.recipe] # {}
  /\ recipe' = IF job.components = {} THEN recipe
                ELSE [recipe EXCEPT ![job.recipe] = job.components]
  /\ UNCHANGED <<stock, status, received, depot, active, role, rows, bill>>

CreateManufacturingOrder(job) ==
  /\ job.op = "createBuild"
  /\ recipe[Build[job.doc].product] # {} /\ depot[Build[job.doc].warehouse] # "absent"
  /\ Creates(job, "createBuild", ManufacturingOrder, "DRAFT")

\* What the rows of a bill take of product p for order o.
Takes(parts, p, o) ==
  SumFunction([c \in {d \in parts : d.product = p} |-> c.quantity]) * Build[o].quantity

Consumed(parts, o) ==
  [p \in Product |-> [stock[p] EXCEPT ![Build[o].warehouse] = @ - Takes(parts, p, o)]]

Covered(parts, o) ==
  \A p \in Product : Takes(parts, p, o) > 0 =>
     stock[p][Build[o].warehouse] >= Takes(parts, p, o)

\* The components are tested and taken one after the other, and an error at
\* one of them does not give back those before it.
StartManufacturingOrder(job) ==
  /\ job.op = "start"
  /\ status[job.doc] = "DRAFT"
  /\ LET parts == recipe[Build[job.doc].product] IN
     \/ /\ Covered(parts, job.doc)
        /\ stock' = Consumed(parts, job.doc)
        /\ status' = [status EXCEPT ![job.doc] = "IN_PROGRESS"]
     \/ \E taken \in SUBSET parts, short \in parts :
          /\ short \notin taken
          /\ Covered(taken, job.doc) /\ ~ Covered(taken \cup {short}, job.doc)
          /\ stock' = Consumed(taken, job.doc)
          /\ UNCHANGED status
  /\ UNCHANGED <<received, recipe, depot, active, role, rows, bill>>

CompleteManufacturingOrder(job) ==
  /\ job.op = "complete"
  /\ SetsStatus(job.doc, {"IN_PROGRESS"}, "COMPLETED")
  /\ LET b == Build[job.doc] IN
     stock' = [stock EXCEPT ![b.product][b.warehouse] = @ + b.quantity]
  /\ UNCHANGED <<received, recipe, depot, active, role, rows, bill>>

-----------------------------------------------------------------------------
(* Warehouses and members. *)

CreateWarehouse(job) ==
  /\ job.op = "createWarehouse"
  /\ depot[job.target] = "absent"
  /\ depot' = IF job.default \/ \A v \in Warehouse : depot[v] = "absent"
              THEN TakeDefaultFrom(job.target)
              ELSE [depot EXCEPT ![job.target] = "plain"]
  /\ UNCHANGED <<stock, status, received, recipe, active, role, rows, bill>>

UpdateWarehouse(job) ==
  /\ job.op = "updateWarehouse"
  /\ depot[job.target] # "absent"
  /\ depot' = IF job.default THEN TakeDefaultFrom(job.target) ELSE depot
  /\ UNCHANGED <<stock, status, received, recipe, active, role, rows, bill>>

SetsRole(job, op, known, to) ==
  /\ job.op = op
  /\ May(job.actor)
  /\ known <=> role[job.user] # "none"
  /\ known => job.user # job.actor
  /\ role' = [role EXCEPT ![job.user] = to]
  /\ UNCHANGED <<stock, status, received, recipe, depot, active, rows, bill>>

CreateUser(job) == job.op = "createUser" /\ SetsRole(job, "createUser", FALSE, job.role)
UpdateUserRole(job) == job.op = "updateRole" /\ SetsRole(job, "updateRole", TRUE, job.role)
DeleteUser(job) == SetsRole(job, "deleteUser", TRUE, "none")

-----------------------------------------------------------------------------
(* Catalogue: every insert looks for the key first. *)

Adds(job, op, table) ==
  /\ job.op = op
  /\ SameKey(table, job.key) = {} /\ SameRow(table, job.target) = {}
  /\ rows' = rows \cup {[table |-> table, row |-> job.target, key |-> job.key]}
  /\ UNCHANGED <<stock, status, received, recipe, depot, active, role, bill>>

Changes(job, op, table) ==
  /\ job.op = op
  /\ SameRow(table, job.target) # {}
  /\ SameKey(table, job.key) \subseteq SameRow(table, job.target)
  /\ rows' = (rows \ SameRow(table, job.target))
               \cup {[table |-> table, row |-> job.target, key |-> job.key]}
  /\ UNCHANGED <<stock, status, received, recipe, depot, active, role, bill>>

CreateProduct(job) == Adds(job, "createProduct", "product")
UpdateProduct(job) == Changes(job, "updateProduct", "product")
CreateSupplier(job) == Adds(job, "createSupplier", "supplier")
UpdateSupplier(job) == Changes(job, "updateSupplier", "supplier")
CreateCustomer(job) == Adds(job, "createCustomer", "customer")
CreateBom(job) == Adds(job, "createBom", "bom")
UpsertCustomField(job) == Adds(job, "upsertField", "field")

\* Subscriptions have no key of their own.
CreateWebhookSubscription(job) ==
  /\ job.op = "createSubscription"
  /\ SameRow("subscription", job.target) = {}
  /\ rows' = rows \cup {[table |-> "subscription", row |-> job.target, key |-> job.key]}
  /\ UNCHANGED <<stock, status, received, recipe, depot, active, role, bill>>

UpdateWebhookSubscription(job) ==
  /\ job.op = "updateSubscription"
  /\ SameRow("subscription", job.target) # {}
  /\ rows' = (rows \ SameRow("subscription", job.target))
               \cup {[table |-> "subscription", row |-> job.target, key |-> job.key]}
  /\ UNCHANGED <<stock, status, received, recipe, depot, active, role, bill>>

UpdateOrganizationSettings(job) ==
  /\ job.op = "updateSettings"
  /\ rows' = (rows \ {x \in rows : x.table = "settings"})
               \cup {[table |-> "settings", row |-> job.target, key |-> job.key]}
  /\ UNCHANGED <<stock, status, received, recipe, depot, active, role, bill>>

SetProductActive(job) ==
  /\ job.op = "setActive"
  /\ active' = IF job.on THEN active \cup {job.product} ELSE active \ {job.product}
  /\ UNCHANGED <<stock, status, received, recipe, depot, role, rows, bill>>

-----------------------------------------------------------------------------
Does(job) ==
  \/ CreateStockMovement(job) \/ CreateStockTransfer(job) \/ RecordStocktakeCount(job)
  \/ CreateSalesOrder(job) \/ ConfirmSalesOrder(job) \/ CreateCreditNote(job)
  \/ CreatePurchaseOrder(job) \/ ReceivePurchaseOrder(job)
  \/ CreateInvoice(job) \/ RecordDemoPayment(job) \/ TransitionDemoInvoiceStatus(job)
  \/ UpdateBom(job) \/ CreateManufacturingOrder(job)
  \/ StartManufacturingOrder(job) \/ CompleteManufacturingOrder(job)
  \/ CreateWarehouse(job) \/ UpdateWarehouse(job)
  \/ CreateUser(job) \/ UpdateUserRole(job) \/ DeleteUser(job)
  \/ CreateProduct(job) \/ UpdateProduct(job) \/ SetProductActive(job)
  \/ CreateSupplier(job) \/ UpdateSupplier(job) \/ CreateCustomer(job) \/ CreateBom(job)
  \/ UpsertCustomField(job) \/ UpdateOrganizationSettings(job)
  \/ CreateWebhookSubscription(job) \/ UpdateWebhookSubscription(job)

Next == \E job \in Submitted : Does(job)
=============================================================================
