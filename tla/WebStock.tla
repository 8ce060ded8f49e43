------------------------------ MODULE WebStock ------------------------------
(***************************************************************************)
(* The repository functions of the web application that post stock outside *)
(* of a sales order: movements, transfers, counts, purchase receipts and   *)
(* manufacturing.  Each sums the movements it needs and inserts its own    *)
(* later; nothing is locked in between.                                    *)
(***************************************************************************)
EXTENDS WebTables

\* INBOUND and ADJUSTMENT add the quantity, OUTBOUND takes it.
ChangeOf(job) == IF job.type = "OUTBOUND" THEN -job.quantity ELSE job.quantity

OneLine(job) == <<[product |-> job.product, quantity |-> job.quantity]>>

\* Mutant: the test of the stock on hand is forgotten.
UncheckedMovement(r) ==
  LET job == Job(r) IN
  \/ /\ At(r, "movement", "begun")
     /\ Check(r, TRUE, "checked", <<>>)
  \/ /\ At(r, "movement", "checked")
     /\ stock' = Moved(job.warehouse, OneLine(job), IF job.type = "OUTBOUND" THEN -1 ELSE 1)
     /\ plain' = [plain EXCEPT ![job.product] = @ + ChangeOf(job)]
     /\ Commits(r)
     /\ UNCHANGED <<docVars, adminVars>>

\* An inactive product can be moved, though not transferred or counted.
CreateStockMovement(r) ==
  LET job == Job(r) IN
  \/ /\ At(r, "movement", "begun")
     /\ Check(r, ChangeOf(job) < 0 => EnoughStock(job.warehouse, OneLine(job)), "checked", <<>>)
  \/ /\ At(r, "movement", "checked")
     /\ stock' = Moved(job.warehouse, OneLine(job), IF job.type = "OUTBOUND" THEN -1 ELSE 1)
     /\ plain' = [plain EXCEPT ![job.product] = @ + ChangeOf(job)]
     /\ Commits(r)
     /\ UNCHANGED <<docVars, adminVars>>

\* Two movements in one createMany; neither is ever visible without the other.
CreateStockTransfer(r) ==
  LET job == Job(r) IN
  \/ /\ At(r, "transfer", "begun")
     /\ Check(r, /\ job.product \in active
                 /\ depot[job.warehouse] # "absent"
                 /\ depot[job.to] # "absent"
                 /\ EnoughStock(job.warehouse, OneLine(job)),
              "checked", <<>>)
  \/ /\ At(r, "transfer", "checked")
     /\ stock' = [stock EXCEPT ![job.product] = [v \in Warehouse |->
                     stock[job.product][v] + (IF v = job.to THEN job.quantity ELSE 0)
                                           - (IF v = job.warehouse THEN job.quantity ELSE 0)]]
     /\ Commits(r)
     /\ UNCHANGED <<plain, docVars, adminVars>>

\* The adjustment is the difference to what was on hand when it was read.
RecordStocktakeCount(r) ==
  LET job == Job(r) IN
  \/ /\ At(r, "count", "begun")
     /\ Check(r, /\ job.product \in active
                 /\ depot[job.warehouse] # "absent",
              "checked", <<job.counted - stock[job.product][job.warehouse]>>)
  \/ /\ At(r, "count", "checked")
     /\ stock' = [stock EXCEPT ![job.product][job.warehouse] = @ + req[r].saw[1]]
     /\ plain' = [plain EXCEPT ![job.product] = @ + req[r].saw[1]]
     /\ Commits(r)
     /\ UNCHANGED <<docVars, adminVars>>

-----------------------------------------------------------------------------
(* Purchase orders. *)

CreatePurchaseOrder(r) ==
  LET o == Job(r).doc IN
  \/ /\ At(r, "createPurchase", "begun")
     /\ Check(r, status[o] = "ABSENT", "counted", <<Count(PurchaseOrder)>>)
  \/ /\ At(r, "createPurchase", "counted")
     /\ status' = IF Count(PurchaseOrder) = req[r].saw[1]
                  THEN [status EXCEPT ![o] = "SENT"] ELSE status
     /\ Commits(r)
     /\ UNCHANGED <<stockVars, received, lists, shipments, recipe, used, adminVars>>

\* One transaction for all suggestions, each with a code counted in it; here
\* of one suggestion, since their orders are independent of each other.
GenerateSmartPurchaseOrders(r) ==
  LET o == Job(r).doc IN
  \/ /\ At(r, "suggest", "begun")
     /\ Check(r, status[o] = "ABSENT", "counted", <<Count(PurchaseOrder)>>)
  \/ /\ At(r, "suggest", "counted")
     /\ status' = IF Count(PurchaseOrder) = req[r].saw[1]
                  THEN [status EXCEPT ![o] = "DRAFT"] ELSE status
     /\ Commits(r)
     /\ UNCHANGED <<stockVars, received, lists, shipments, recipe, used, adminVars>>

Outstanding(o, got) ==
  [i \in DOMAIN Lines[o] |->
     [product |-> Lines[o][i].product, quantity |-> Lines[o][i].quantity - got[i]]]

AllOf(o) == [i \in DOMAIN Lines[o] |-> Lines[o][i].quantity]

\* Mutant: the lines are not marked as received.
ReceivedAgain(o) == received[o]

NowReceived(o) == AllOf(o)

ReceivePurchaseOrder(r) ==
  LET o == Job(r).doc IN
  \/ /\ At(r, "receive", "begun")
     /\ Check(r, /\ Default # {}
                 /\ status[o] \in {"DRAFT", "SENT", "PARTIALLY_RECEIVED"}
                 /\ received[o] # AllOf(o),
              "read", <<Default, received[o]>>)
  \/ /\ At(r, "receive", "read")
     /\ \E w \in req[r].saw[1] : stock' = Moved(w, Outstanding(o, req[r].saw[2]), 1)
     /\ received' = [received EXCEPT ![o] = NowReceived(o)]
     /\ status' = [status EXCEPT ![o] = "COMPLETED"]
     /\ Commits(r)
     /\ UNCHANGED <<plain, lists, shipments, recipe, used, adminVars>>

-----------------------------------------------------------------------------
(* Bills of material and manufacturing orders.  recipe[p] is the set of     *)
(* component rows of product p's bill: [product, quantity, by], where by is *)
(* the submission that wrote the row.                                      *)

\* deleteMany takes the rows that its statement can see, createMany adds the
\* submitted ones: of two edits at a time, the later one leaves the rows of
\* the earlier, which it has not seen.
UpdateBom(r) ==
  LET job == Job(r) IN
  \/ /\ At(r, "updateBom", "begun")
     /\ Check(r, recipe[job.recipe] # {}, "deleted", <<recipe[job.recipe]>>)
  \/ /\ At(r, "updateBom", "deleted")
     /\ recipe' = [recipe EXCEPT ![job.recipe] =
                     IF job.components = {} THEN @
                     ELSE (@ \ req[r].saw[1]) \cup job.components]
     /\ Commits(r)
     /\ UNCHANGED <<stockVars, status, received, lists, shipments, used, adminVars>>

CreateManufacturingOrder(r) ==
  LET o == Job(r).doc IN
  \/ /\ At(r, "createBuild", "begun")
     /\ Check(r, status[o] = "ABSENT" /\ recipe[Build[o].product] # {},
              "counted", <<Count(ManufacturingOrder)>>)
  \/ /\ At(r, "createBuild", "counted")
     /\ status' = IF Count(ManufacturingOrder) = req[r].saw[1]
                  THEN [status EXCEPT ![o] = "DRAFT"] ELSE status
     /\ Commits(r)
     /\ UNCHANGED <<stockVars, received, lists, shipments, recipe, used, adminVars>>

Needed(rowset, p, quantity) ==
  SumFunction([c \in {d \in rowset : d.product = p} |-> c.quantity]) * quantity

\* Each component is summed and consumed in turn, in one transaction, so a
\* component that is short takes back the ones before it.
StartManufacturingOrder(r) ==
  LET o == Job(r).doc
      w == Build[o].warehouse
      parts == recipe[Build[o].product]
  IN
  \/ /\ At(r, "start", "begun")
     /\ Check(r, /\ status[o] = "DRAFT"
                 /\ \A p \in Product : Needed(parts, p, Build[o].quantity) <= stock[p][w]
                                       \/ Needed(parts, p, Build[o].quantity) = 0,
              "consumed", <<parts>>)
  \/ /\ At(r, "start", "consumed")
     /\ stock' = [p \in Product |-> [stock[p] EXCEPT ![w] =
                    @ - Needed(req[r].saw[1], p, Build[o].quantity)]]
     /\ status' = [status EXCEPT ![o] = "IN_PROGRESS"]
     /\ used' = [used EXCEPT ![o] = @ \cup req[r].saw[1]]
     /\ Commits(r)
     /\ UNCHANGED <<plain, received, lists, shipments, recipe, adminVars>>

CompleteManufacturingOrder(r) ==
  LET o == Job(r).doc
      made == <<[product |-> Build[o].product, quantity |-> Build[o].quantity]>>
  IN
  \/ /\ At(r, "complete", "begun")
     /\ Check(r, status[o] = "IN_PROGRESS", "read", <<>>)
  \/ /\ At(r, "complete", "read")
     /\ stock' = Moved(Build[o].warehouse, made, 1)
     /\ status' = [status EXCEPT ![o] = "COMPLETED"]
     /\ Commits(r)
     /\ UNCHANGED <<plain, received, lists, shipments, recipe, used, adminVars>>
=============================================================================
