------------------------------ MODULE WebOrders ------------------------------
(***************************************************************************)
(* The life of a sales order in the web application's repository, with its *)
(* invoices, payments and credit notes.  An order is created,              *)
(* confirmed (which posts the sale), picked, packed, shipped, delivered or *)
(* returned.  Every function reads the order's status in its transaction   *)
(* without a lock and writes the next one by id.                           *)
(*                                                                         *)
(* lists[o] are the order's pick lists, each with its status and what was  *)
(* picked per line; shipments[o] the statuses of its shipments.            *)
(***************************************************************************)
EXTENDS WebTables

CreateSalesOrder(r) ==
  LET o == Job(r).doc IN
  \/ /\ At(r, "createOrder", "begun")
     /\ Check(r, status[o] = "ABSENT", "counted", <<Count(SalesOrder)>>)
  \/ /\ At(r, "createOrder", "counted")
     /\ status' = IF Count(SalesOrder) = req[r].saw[1]
                  THEN [status EXCEPT ![o] = "DRAFT"] ELSE status
     /\ Commits(r)
     /\ UNCHANGED <<stockVars, received, lists, shipments, recipe, used, adminVars>>

ConfirmSalesOrder(r) ==
  LET o == Job(r).doc IN
  \/ /\ At(r, "confirm", "begun")
     /\ Check(r, Default # {} /\ status[o] = "DRAFT", "read", <<Default>>)
  \/ /\ At(r, "confirm", "read")
     /\ \E w \in req[r].saw[1] : Check(r, EnoughStock(w, Lines[o]), "summed", <<w>>)
  \/ /\ At(r, "confirm", "summed")
     /\ status' = [status EXCEPT ![o] = "CONFIRMED"]
     /\ stock' = Moved(req[r].saw[1], Lines[o], -1)
     /\ Commits(r)
     /\ UNCHANGED <<plain, received, lists, shipments, recipe, used, adminVars>>

-----------------------------------------------------------------------------
(* Picking, packing, shipping. *)

NothingPicked(o) == [i \in DOMAIN Lines[o] |-> 0]

StartPicking(r) ==
  LET o == Job(r).doc IN
  \/ /\ At(r, "startPicking", "begun")
     /\ Check(r, status[o] = "CONFIRMED" /\ Default # {}, "read", <<>>)
  \/ /\ At(r, "startPicking", "read")
     /\ status' = [status EXCEPT ![o] = "PICKING"]
     /\ lists' = [lists EXCEPT ![o] =
                    Append(@, [status |-> "PENDING", picked |-> NothingPicked(o)])]
     /\ Commits(r)
     /\ UNCHANGED <<stockVars, received, shipments, recipe, used, adminVars>>

\* Mutant: the quantity is not compared with what was ordered.
PickAnything(o, line, quantity) == quantity >= 0

Pickable(o, line, quantity) == quantity \in 0..Lines[o][line].quantity

\* Looks at the list and the item, never at the order: an item of a packed or
\* shipped order can still be given another quantity.
UpdatePickListItem(r) ==
  LET job == Job(r)
      o == job.doc
  IN
  \/ /\ At(r, "pick", "begun")
     /\ Check(r, /\ job.list \in DOMAIN lists[o]
                 /\ Pickable(o, job.line, job.quantity),
              "read",
              IF job.list \in DOMAIN lists[o] THEN <<lists[o][job.list].status>> ELSE <<>>)
  \/ /\ At(r, "pick", "read")
     /\ lists' = [lists EXCEPT ![o][job.list] =
          [status |-> IF req[r].saw[1] = "PENDING" THEN "IN_PROGRESS" ELSE @.status,
           picked |-> [@.picked EXCEPT ![job.line] = job.quantity]]]
     /\ Commits(r)
     /\ UNCHANGED <<stockVars, status, received, shipments, recipe, used, adminVars>>

AllPicked(o) ==
  \A l \in DOMAIN lists[o] : \A i \in DOMAIN Lines[o] :
     lists[o][l].picked[i] >= Lines[o][i].quantity

\* The lists that were read with the order are completed; one started at the
\* same time is not among them.
PackOrder(r) ==
  LET o == Job(r).doc IN
  \/ /\ At(r, "pack", "begun")
     /\ Check(r, status[o] = "PICKING" /\ AllPicked(o), "read", <<Len(lists[o])>>)
  \/ /\ At(r, "pack", "read")
     /\ status' = [status EXCEPT ![o] = "PACKED"]
     /\ lists' = [lists EXCEPT ![o] = [l \in DOMAIN @ |->
                    IF l <= req[r].saw[1]
                    THEN [status |-> "COMPLETED", picked |-> @[l].picked] ELSE @[l]]]
     /\ Commits(r)
     /\ UNCHANGED <<stockVars, received, shipments, recipe, used, adminVars>>

\* The shipment codes count all shipments of the organization.
ShipmentCount == MapThenSumSet(LAMBDA o : Len(shipments[o]), SalesOrder)

Shippable(o) == status[o] = "PACKED"

ShipOrder(r) ==
  LET o == Job(r).doc IN
  \/ /\ At(r, "ship", "begun")
     /\ Check(r, Shippable(o), "counted", <<ShipmentCount>>)
  \/ /\ At(r, "ship", "counted")
     /\ IF ShipmentCount = req[r].saw[1]
        THEN /\ status' = [status EXCEPT ![o] = "SHIPPED"]
             /\ shipments' = [shipments EXCEPT ![o] = Append(@, "IN_TRANSIT")]
        ELSE UNCHANGED <<status, shipments>>
     /\ Commits(r)
     /\ UNCHANGED <<stockVars, received, lists, recipe, used, adminVars>>

UnderWay(sent) == {n \in DOMAIN sent : sent[n] \notin {"DELIVERED", "RETURNED"}}

\* One shipment is delivered with the order, the first one that was read.
DeliverOrder(r) ==
  LET o == Job(r).doc IN
  \/ /\ At(r, "deliver", "begun")
     /\ Check(r, status[o] = "SHIPPED", "read", <<UnderWay(shipments[o])>>)
  \/ /\ At(r, "deliver", "read")
     /\ status' = [status EXCEPT ![o] = "DELIVERED"]
     /\ shipments' = [shipments EXCEPT ![o] = [n \in DOMAIN @ |->
                        IF req[r].saw[1] # {} /\ n = Min(req[r].saw[1])
                        THEN "DELIVERED" ELSE @[n]]]
     /\ Commits(r)
     /\ UNCHANGED <<stockVars, received, lists, recipe, used, adminVars>>

-----------------------------------------------------------------------------
(* Returns. *)

\* Each returned line is compared by itself with the first line of the order
\* that has its product.
WithinOrder(lines, o) ==
  \A i \in DOMAIN lines :
     LET same == {j \in DOMAIN Lines[o] : Lines[o][j].product = lines[i].product} IN
     same # {} /\ lines[i].quantity <= Lines[o][Min(same)].quantity

CreateSalesReturn(r) ==
  LET d == Job(r).doc
      o == ReturnOf[d]
  IN
  \/ /\ At(r, "createReturn", "begun")
     /\ Check(r, /\ status[d] = "ABSENT"
                 /\ status[o] = "CONFIRMED"
                 /\ WithinOrder(Lines[d], o),
              "counted", <<Count(SalesReturn)>>)
  \/ /\ At(r, "createReturn", "counted")
     /\ status' = IF Count(SalesReturn) = req[r].saw[1]
                  THEN [status EXCEPT ![d] = "DRAFT"] ELSE status
     /\ Commits(r)
     /\ UNCHANGED <<stockVars, received, lists, shipments, recipe, used, adminVars>>

ApproveSalesReturn(r) ==
  LET d == Job(r).doc IN
  \/ /\ At(r, "approve", "begun")
     /\ Check(r, Default # {} /\ status[d] = "DRAFT", "read", <<Default>>)
  \/ /\ At(r, "approve", "read")
     /\ \E w \in req[r].saw[1] : stock' = Moved(w, Lines[d], 1)
     /\ status' = [status EXCEPT ![d] = "COMPLETED"]
     /\ Commits(r)
     /\ UNCHANGED <<plain, received, lists, shipments, recipe, used, adminVars>>

-----------------------------------------------------------------------------
(* Invoices, payments, the status form and credit notes.  bill[i] is an    *)
(* invoice: its status and what its payments sum to.                       *)

Invoices == {i \in Invoice : bill[i].status # "ABSENT"}

CreateInvoice(r) ==
  LET i == Job(r).target IN
  \/ /\ At(r, "createInvoice", "begun")
     /\ Check(r, bill[i].status = "ABSENT", "counted", <<Cardinality(Invoices)>>)
  \/ /\ At(r, "createInvoice", "counted")
     /\ bill' = IF Cardinality(Invoices) = req[r].saw[1]
                THEN [bill EXCEPT ![i].status = "DRAFT"] ELSE bill
     /\ Commits(r)
     /\ UNCHANGED <<stockVars, docVars, depot, active, role, rows>>

PaidStatus(i, paid, before) ==
  IF paid >= InvoiceTotal[i] THEN "PAID"
  ELSE IF paid > 0 THEN "PARTIALLY_PAID" ELSE before

\* The status follows from the payments that were read with the invoice, and
\* is written only when it is another than the one that was read.
RecordPayment(r) ==
  LET i == Job(r).target
      before == req[r].saw[1]
      after == PaidStatus(i, before.paid + Job(r).amount, before.status)
  IN
  \/ /\ At(r, "pay", "begun")
     /\ Check(r, i \in Invoices, "read", <<bill[i]>>)
  \/ /\ At(r, "pay", "read")
     /\ bill' = [bill EXCEPT ![i] =
          [status |-> IF after # before.status THEN after ELSE @.status,
           paid |-> @.paid + Job(r).amount]]
     /\ Commits(r)
     /\ UNCHANGED <<stockVars, docVars, depot, active, role, rows>>

\* The status is written whatever it is.
TransitionInvoiceStatus(r) ==
  LET i == Job(r).target IN
  \/ /\ At(r, "transition", "begun")
     /\ Check(r, i \in Invoices, "read", <<>>)
  \/ /\ At(r, "transition", "read")
     /\ bill' = [bill EXCEPT ![i].status = Job(r).to]
     /\ Commits(r)
     /\ UNCHANGED <<stockVars, docVars, depot, active, role, rows>>

CreateCreditNote(r) ==
  LET d == Job(r).doc IN
  \/ /\ At(r, "createCredit", "begun")
     /\ Check(r, status[d] = "ABSENT", "counted", <<Count(CreditNote)>>)
  \/ /\ At(r, "createCredit", "counted")
     /\ status' = IF Count(CreditNote) = req[r].saw[1]
                  THEN [status EXCEPT ![d] = "DRAFT"] ELSE status
     /\ Commits(r)
     /\ UNCHANGED <<stockVars, received, lists, shipments, recipe, used, adminVars>>
=============================================================================
