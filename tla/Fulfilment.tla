----------------------------- MODULE Fulfilment -----------------------------
(***************************************************************************)
(* Picking, packing, shipping and delivering confirmed sales orders: the   *)
(* fulfilment requests of apps/api/src/domain/stockops-api.service.ts.     *)
(*                                                                         *)
(* startPicking, packOrder, shipOrder and deliverOrder each run in one     *)
(* transaction that reads the order without a row lock, goes on to read    *)
(* what it needs, and writes last: the reads are steps of their own, and   *)
(* the writes and the commit are one step, for the row locks of the order  *)
(* and of its lines serialize two transactions from their first write on.  *)
(* updatePickListItem runs no transaction: each of its queries is a step.  *)
(*                                                                         *)
(* An order names a product on one line, and its reservations are in the   *)
(* warehouse where it was confirmed.                                       *)
(***************************************************************************)
EXTENDS Integers, FiniteSets, Functions

CONSTANTS Clerk,         \* who sends requests, one at a time each
          Duty,          \* the requests each of them sends
          Order, Product,
          Ordered,       \* the quantity of each line
          Item,          \* the cuts the stock layers make of the lines
          OrderOf, ProductOf, QuantityOf,   \* of an item
          MaxShipments   \* bound: no request ships when there are so many

Task == {"start", "pick", "pack", "ship", "deliver"}

ASSUME DutyAssumption == Duty \in [Clerk -> SUBSET Task]
ASSUME OrderAssumption == Ordered \in [Order -> [Product -> Nat]]
ASSUME ItemAssumption ==
  /\ OrderOf \in [Item -> Order]
  /\ ProductOf \in [Item -> Product]
  /\ QuantityOf \in [Item -> Nat \ {0}]
  /\ \A o \in Order, p \in Product :
       Ordered[o][p] = SumFunctionOnSet(QuantityOf, {i \in Item : OrderOf[i] = o /\ ProductOf[i] = p})
ASSUME ShipmentsAssumption == MaxShipments \in Nat
ASSUME FiniteAssumption ==
  \A S \in {Clerk, Order, Product, Item} : S # {} /\ IsFiniteSet(S)

VARIABLES status,        \* SalesOrder.status
          pickedQty, packedQty, shippedQty,   \* of the lines
          listStatus,    \* status of the pick list a clerk made for an order
          taken,         \* PickListItem.pickedQty, by list and item
          reservation,   \* quantity of the StockReservation rows, 0 if deleted
          reserved,      \* StockBalance.reserved
          shipments,     \* the Shipment rows
          pc,            \* the phase of each clerk's request
          job            \* what it has read and decided

lines == <<pickedQty, packedQty, shippedQty>>
stock == <<reservation, reserved>>
vars == <<status, lines, listStatus, taken, stock, shipments, pc, job>>

-----------------------------------------------------------------------------
List == Clerk \X Order
Status == {"CONFIRMED", "PICKING", "PARTIALLY_PICKED", "PICKED", "PARTIALLY_PACKED",
           "PACKED", "PARTIALLY_SHIPPED", "SHIPPED", "DELIVERED"}
Quantities == [Product -> Nat]
Code == 1..MaxShipments
Job == [order : Order, list : List, item : Item, quantity : Nat,
        linePicked : Nat,         \* the sum for the item's line, from the list as read
        starts : BOOLEAN,         \* whether the list, as read, is to be IN_PROGRESS
        status : Status, code : Code \cup {0}, packed : Quantities, shipped : Quantities]

TypeOK ==
  /\ status \in [Order -> Status]
  /\ \A qty \in {pickedQty, packedQty, shippedQty} : qty \in [Order -> Quantities]
  /\ listStatus \in [List -> {"NONE", "PENDING", "IN_PROGRESS", "COMPLETED"}]
  /\ taken \in [List -> [Item -> Nat]]
  /\ reservation \in [Order -> Quantities]
  /\ reserved \in [Product -> Int]
  /\ shipments \subseteq [code : Code, order : Order, status : {"IN_TRANSIT", "DELIVERED"}]
  /\ pc \in [Clerk -> {"idle", "start", "item", "list", "line", "order", "sum", "status",
                       "pack", "packing", "code", "ship", "deliver"}]
  /\ job \in [Clerk -> Job]

None == [p \in Product |-> 0]
NoneTaken == [i \in Item |-> 0]
NoJob == [order |-> CHOOSE o \in Order : TRUE, list |-> CHOOSE l \in List : TRUE,
          item |-> CHOOSE i \in Item : TRUE, quantity |-> 0, status |-> "CONFIRMED",
          linePicked |-> 0, starts |-> FALSE, code |-> 0, packed |-> None, shipped |-> None]

Init ==
  /\ status = [o \in Order |-> "CONFIRMED"]
  /\ pickedQty = [o \in Order |-> None]
  /\ packedQty = pickedQty
  /\ shippedQty = pickedQty
  /\ listStatus = [l \in List |-> "NONE"]
  /\ taken = [l \in List |-> NoneTaken]
  /\ reservation = Ordered
  /\ reserved = [p \in Product |-> SumFunction([o \in Order |-> Ordered[o][p]])]
  /\ shipments = {}
  /\ pc = [c \in Clerk |-> "idle"]
  /\ job = [c \in Clerk |-> NoJob]

-----------------------------------------------------------------------------
(* The course of a request. *)

Begin(c, task, phase, read) ==
  /\ task \in Duty[c]
  /\ pc[c] = "idle"
  /\ pc' = [pc EXCEPT ![c] = phase]
  /\ job' = [job EXCEPT ![c] = read]
  /\ UNCHANGED <<status, lines, listStatus, taken, stock, shipments>>

Continue(c, from, to) ==
  /\ pc[c] = from
  /\ pc' = [pc EXCEPT ![c] = to]

Finish(c, from) ==
  /\ Continue(c, from, "idle")
  /\ job' = [job EXCEPT ![c] = NoJob]

(* The items of the pick lists made for order o, as list and item.         *)
Picks(o) == {x \in List \X Item : /\ x[1][2] = o /\ OrderOf[x[2]] = o
                                  /\ listStatus[x[1]] # "NONE"}
Picked(x) == taken[x[1]][x[2]]

-----------------------------------------------------------------------------
(* startPicking *)

ReadConfirmed(c) ==
  \E o \in Order : status[o] = "CONFIRMED" /\ Begin(c, "start", "start", [NoJob EXCEPT !.order = o])

WriteStart(c) ==
  LET o == job[c].order
  IN /\ Finish(c, "start")
     /\ status' = [status EXCEPT ![o] = "PICKING"]
     /\ listStatus' = [listStatus EXCEPT ![<<c, o>>] = "PENDING"]
     /\ UNCHANGED <<lines, taken, stock, shipments>>

StartPicking(c) == ReadConfirmed(c) \/ WriteStart(c)

-----------------------------------------------------------------------------
(* updatePickListItem *)

(* The items of the line of item i.                                        *)
LineItems(i) == {j \in Item : OrderOf[j] = OrderOf[i] /\ ProductOf[j] = ProductOf[i]}

Pickable(i) == 0..QuantityOf[i]

ReadList(c) ==
  \E l \in List, i \in Item : \E q \in Pickable(i) :
    /\ listStatus[l] # "NONE"
    /\ OrderOf[i] = l[2]
    /\ Begin(c, "pick", "item", [NoJob EXCEPT
         !.order = l[2], !.list = l, !.item = i, !.quantity = q,
         !.linePicked = SumFunctionOnSet([taken[l] EXCEPT ![i] = q], LineItems(i)),
         !.starts = (listStatus[l] = "PENDING" /\ q > 0)])

WriteItem(c) ==
  /\ taken' = [taken EXCEPT ![job[c].list][job[c].item] = job[c].quantity]
  /\ Continue(c, "item", IF job[c].starts THEN "list" ELSE "line")
  /\ UNCHANGED <<status, lines, listStatus, stock, shipments, job>>

WriteListStatus(c) ==
  /\ Continue(c, "list", "line")
  /\ listStatus' = [listStatus EXCEPT ![job[c].list] = "IN_PROGRESS"]
  /\ UNCHANGED <<status, lines, taken, stock, shipments, job>>

WriteLinePicked(c) ==
  /\ Continue(c, "line", "order")
  /\ pickedQty' = [pickedQty EXCEPT ![job[c].order][ProductOf[job[c].item]] = job[c].linePicked]
  /\ UNCHANGED <<status, packedQty, shippedQty, listStatus, taken, stock, shipments, job>>

ReadOrder(c) ==
  /\ Continue(c, "order", "sum")
  /\ job' = [job EXCEPT ![c].status = status[job[c].order]]
  /\ UNCHANGED <<status, lines, listStatus, taken, stock, shipments>>

(* From the items of all lists of the order as they are now.               *)
PickStatus(c) ==
  LET picks == Picks(job[c].order)
      mine == <<job[c].list, job[c].item>>
      picked == SumFunction([x \in picks |-> IF x = mine THEN job[c].quantity ELSE Picked(x)])
  IN IF picked >= SumFunction(Ordered[job[c].order]) THEN "PICKED"
     ELSE IF picked > 0 THEN "PARTIALLY_PICKED" ELSE job[c].status

ReadItems(c) ==
  /\ IF PickStatus(c) = job[c].status
     THEN Finish(c, "sum")
     ELSE /\ Continue(c, "sum", "status")
          /\ job' = [job EXCEPT ![c].status = PickStatus(c)]
  /\ UNCHANGED <<status, lines, listStatus, taken, stock, shipments>>

WriteStatus(c) ==
  /\ Finish(c, "status")
  /\ status' = [status EXCEPT ![job[c].order] = job[c].status]
  /\ UNCHANGED <<lines, listStatus, taken, stock, shipments>>

UpdatePickListItem(c) ==
  \/ ReadList(c) \/ WriteItem(c) \/ WriteListStatus(c) \/ WriteLinePicked(c)
  \/ ReadOrder(c) \/ ReadItems(c) \/ WriteStatus(c)

-----------------------------------------------------------------------------
(* packOrder *)

ReadPickable(c) ==
  \E o \in Order : /\ status[o] \in {"PICKING", "PARTIALLY_PICKED", "PICKED"}
                   /\ Begin(c, "pack", "pack", [NoJob EXCEPT !.order = o])

PickedOf(o, p) == {x \in Picks(o) : ProductOf[x[2]] = p}

ReadPicked(c) ==
  LET o == job[c].order
  IN /\ Continue(c, "pack", "packing")
     /\ job' = [job EXCEPT ![c].packed =
                  [p \in Product |-> IF Ordered[o][p] = 0 THEN 0
                     ELSE SumFunction([x \in PickedOf(o, p) |-> Picked(x)])]]
     /\ UNCHANGED <<status, lines, listStatus, taken, stock, shipments>>

WritePacked(c) ==
  LET o == job[c].order
  IN /\ Finish(c, "packing")
     /\ packedQty' = [packedQty EXCEPT ![o] = job[c].packed]
     /\ status' = [status EXCEPT ![o] = IF SumFunction(job[c].packed) >= SumFunction(Ordered[o])
                                        THEN "PACKED" ELSE "PARTIALLY_PACKED"]
     /\ listStatus' = [l \in List |-> IF listStatus[l] # "NONE" /\ l[2] = o
                                      THEN "COMPLETED" ELSE listStatus[l]]
     /\ UNCHANGED <<pickedQty, shippedQty, taken, stock, shipments>>

PackOrder(c) == ReadPickable(c) \/ ReadPicked(c) \/ WritePacked(c)

-----------------------------------------------------------------------------
(* shipOrder *)

ReadShippable(c) ==
  \E o \in Order :
    /\ status[o] \in {"PACKED", "PARTIALLY_PACKED", "PARTIALLY_SHIPPED"}
    /\ Begin(c, "ship", "code", [NoJob EXCEPT !.order = o, !.packed = packedQty[o],
                                      !.shipped = shippedQty[o]])

UsedCodes == {s.code : s \in shipments}

(* The lowest number no shipment has.                                      *)
ReadCodes(c) ==
  /\ Continue(c, "code", "ship")
  /\ \E n \in Code \ UsedCodes :
       /\ \A m \in 1..(n - 1) : m \in UsedCodes
       /\ job' = [job EXCEPT ![c].code = n]
  /\ UNCHANGED <<status, lines, listStatus, taken, stock, shipments>>

ToShip(c, p) ==
  IF job[c].packed[p] > job[c].shipped[p] THEN job[c].packed[p] - job[c].shipped[p] ELSE 0

(* Mutant: the reservation is released without looking at what is left.    *)
ReleaseAll(c, p) == ToShip(c, p)

(* Mutant: nothing is released, as in the web application's shipOrder.     *)
ReleaseNothing(c, p) == 0

(* The reservation is read after the lock on the line is held.             *)
ReleaseQty(c, p) ==
  LET left == reservation[job[c].order][p]
  IN IF left < ToShip(c, p) THEN left ELSE ToShip(c, p)

(* Mutant: the reservation row is left as it was.                          *)
KeepReservation(c, p) == reservation[job[c].order][p]

LeftReserved(c, p) == reservation[job[c].order][p] - ReleaseQty(c, p)

(* Mutant: the quantity to ship is added to the line as it is now.         *)
AddToShipped(c, p) == shippedQty[job[c].order][p] + ToShip(c, p)

(* The line is written from what was read at the start.                    *)
NowShipped(c, p) ==
  IF ToShip(c, p) > 0 THEN job[c].shipped[p] + ToShip(c, p) ELSE shippedQty[job[c].order][p]

(* Mutant: an order counts as shipped when everything packed is.           *)
ShippedWhatIsPacked(c) ==
  IF \A p \in Product : job[c].shipped[p] + ToShip(c, p) >= job[c].packed[p]
  THEN "SHIPPED" ELSE "PARTIALLY_SHIPPED"

ShipStatus(c) ==
  IF SumFunction([p \in Product |-> job[c].shipped[p] + ToShip(c, p)]) >= SumFunction(Ordered[job[c].order])
  THEN "SHIPPED" ELSE "PARTIALLY_SHIPPED"

WriteShipped(c) ==
  LET o == job[c].order
  IN /\ job[c].code \notin UsedCodes
     /\ Finish(c, "ship")
     /\ shippedQty' = [shippedQty EXCEPT ![o] = [p \in Product |-> NowShipped(c, p)]]
     /\ reserved' = [p \in Product |-> reserved[p] - ReleaseQty(c, p)]
     /\ reservation' = [reservation EXCEPT ![o] = [p \in Product |-> LeftReserved(c, p)]]
     /\ status' = [status EXCEPT ![o] = ShipStatus(c)]
     /\ shipments' = shipments \cup {[code |-> job[c].code, order |-> o,
                                      status |-> "IN_TRANSIT"]}
     /\ UNCHANGED <<pickedQty, packedQty, listStatus, taken>>

(* Another shipment has taken the code: the unique index refuses the row,  *)
(* and the transaction is rolled back.                                     *)
CodeTaken(c) ==
  /\ job[c].code \in UsedCodes
  /\ Finish(c, "ship")
  /\ UNCHANGED <<status, lines, listStatus, taken, stock, shipments>>

ShipOrder(c) == ReadShippable(c) \/ ReadCodes(c) \/ WriteShipped(c) \/ CodeTaken(c)

-----------------------------------------------------------------------------
(* deliverOrder *)

ReadShipped(c) ==
  \E o \in Order : status[o] = "SHIPPED" /\ Begin(c, "deliver", "deliver", [NoJob EXCEPT !.order = o])

Arrived(s) == [s EXCEPT !.status = "DELIVERED"]

WriteDelivered(c) ==
  LET o == job[c].order
  IN /\ Finish(c, "deliver")
     /\ status' = [status EXCEPT ![o] = "DELIVERED"]
     /\ shipments' = {IF s.order = o THEN Arrived(s) ELSE s : s \in shipments}
     /\ UNCHANGED <<lines, listStatus, taken, stock>>

DeliverOrder(c) == ReadShipped(c) \/ WriteDelivered(c)

-----------------------------------------------------------------------------
(* The request ends early: a transaction leaves nothing, an item update    *)
(* leaves what it has written.                                             *)
Fail(c) ==
  /\ pc[c] # "idle"
  /\ Finish(c, pc[c])
  /\ UNCHANGED <<status, lines, listStatus, taken, stock, shipments>>

Next ==
  \E c \in Clerk : StartPicking(c) \/ UpdatePickListItem(c) \/ PackOrder(c) \/ ShipOrder(c)
                     \/ DeliverOrder(c) \/ Fail(c)

Spec == Init /\ [][Next]_vars

-----------------------------------------------------------------------------
(* Properties. *)

(* The reserved quantity of the balance rows is what the open reservations *)
(* add up to, also when two clerks ship one order: the second finds only   *)
(* what the first has left.                                                *)
ReservationsMatchBalance ==
  \A p \in Product : reserved[p] = SumFunction([o \in Order |-> reservation[o][p]])

(* No more is shipped than ordered, as long as the order was picked once.  *)
PickedOnce(o) == Cardinality({l \in List : l[2] = o /\ listStatus[l] # "NONE"}) <= 1

ShippedWithinOrder ==
  \A o \in Order : PickedOnce(o) => \A p \in Product : shippedQty[o][p] <= Ordered[o][p]

(* The status of an order does not go back from DELIVERED.  The code does   *)
(* not keep this (README, section 5): updating a pick list item writes the *)
(* order's status whatever it is.  No run claims it.                       *)
DeliveredIsFinal ==
  [][\A o \in Order : status[o] = "DELIVERED" => status'[o] = "DELIVERED"]_vars

=============================================================================
