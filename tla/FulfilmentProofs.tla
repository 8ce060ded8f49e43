-------------------------- MODULE FulfilmentProofs --------------------------
EXTENDS MCFulfilment, FiniteSums

(* What a request carries from one step to the next. *)
Carried(c) ==
  /\ pc[c] \in {"item", "list", "line", "order", "sum", "status"} =>
       /\ listStatus[job[c].list] # "NONE"
       /\ job[c].list[2] = job[c].order
       /\ OrderOf[job[c].item] = job[c].order
       /\ job[c].quantity <= QuantityOf[job[c].item]
  /\ pc[c] = "status" => job[c].status \in {"PICKED", "PARTIALLY_PICKED"}
  /\ pc[c] = "ship" => job[c].code \in Code

TypeInv == TypeOK /\ \A c \in Clerk : Carried(c)

LEMMA Constants ==
  /\ IsFiniteSet(Clerk) /\ IsFiniteSet(Order) /\ IsFiniteSet(Product) /\ IsFiniteSet(Item)
  /\ IsFiniteSet(List)
  /\ NoJob \in Job
  /\ None \in Quantities
  /\ Ordered \in [Order -> Quantities]
<1>1. \A S \in {Clerk, Order, Product, Item} : S # {} /\ IsFiniteSet(S)
  BY FiniteAssumption
<1>2. IsFiniteSet(List)
  BY <1>1, FS_Product DEF List
<1>3. List # {}
  <2>1. PICK c \in Clerk, o \in Order : TRUE
    BY <1>1
  <2>2. <<c, o>> \in List
    BY DEF List
  <2> QED BY <2>2
<1>4. None \in Quantities
  BY DEF None, Quantities
<1>5. NoJob \in Job
  BY <1>1, <1>3, <1>4 DEF NoJob, Job, Status
<1> QED BY <1>1, <1>2, <1>4, <1>5, OrderAssumption DEF Quantities

LEMMA PickedNat ==
  ASSUME TypeOK, NEW o \in Order
  PROVE  /\ IsFiniteSet(Picks(o)) /\ Picks(o) \subseteq List \X Item
         /\ \A x \in Picks(o) : Picked(x) \in Nat
         /\ \A p \in Product : SumFunction([x \in PickedOf(o, p) |-> Picked(x)]) \in Nat
<1>1. IsFiniteSet(List \X Item)
  BY Constants, FS_Product
<1>2. IsFiniteSet(Picks(o)) /\ Picks(o) \subseteq List \X Item
  BY <1>1, FS_Subset DEF Picks
<1>3. \A x \in Picks(o) : Picked(x) \in Nat
  BY <1>2 DEF Picked, TypeOK
<1>4. ASSUME NEW p \in Product PROVE SumFunction([x \in PickedOf(o, p) |-> Picked(x)]) \in Nat
  <2>1. PickedOf(o, p) \in SUBSET Picks(o)
    BY DEF PickedOf
  <2>2. IsFiniteSet(PickedOf(o, p))
    BY <1>2, <2>1, FS_Subset
  <2>3. \A x \in PickedOf(o, p) : [y \in PickedOf(o, p) |-> Picked(y)][x] \in Nat
    BY <1>3, <2>1
  <2> QED BY <2>2, <2>3, SumNat DEF SumFunction
<1> QED BY <1>2, <1>3, <1>4

LEMMA TypeInit == Init => TypeInv
<1> SUFFICES ASSUME Init PROVE TypeInv
  OBVIOUS
<1>1. ASSUME NEW p \in Product PROVE SumFunction([o \in Order |-> Ordered[o][p]]) \in Int
  BY Constants, OrderAssumption, SumInt DEF SumFunction
<1> QED BY <1>1, Constants, OrderAssumption
      DEF Init, TypeInv, TypeOK, Carried, Status, Quantities, None, NoneTaken

LEMMA TypeStep == TypeInv /\ [Next]_vars => TypeInv'
<1> SUFFICES ASSUME TypeInv, [Next]_vars PROVE TypeInv'
  OBVIOUS
<1> USE Constants DEF TypeInv, TypeOK, Carried, Begin, Continue, Finish, lines, stock
<1>1. ASSUME NEW c \in Clerk, StartPicking(c) PROVE TypeInv'
  <2>1. CASE ReadConfirmed(c)
    <3>1. PICK o \in Order : Begin(c, "start", "start", [NoJob EXCEPT !.order = o])
      BY <2>1 DEF ReadConfirmed
    <3> QED BY <3>1 DEF Job
  <2>2. CASE WriteStart(c)
    BY <2>2 DEF WriteStart, Job, Status, List
  <2> QED BY <1>1, <2>1, <2>2 DEF StartPicking
<1>2. ASSUME NEW c \in Clerk, UpdatePickListItem(c) PROVE TypeInv'
  <2>1. CASE ReadList(c)
    <3>1. PICK l \in List, i \in Item : \E q \in Pickable(i) :
            /\ listStatus[l] # "NONE" /\ OrderOf[i] = l[2]
            /\ Begin(c, "pick", "item", [NoJob EXCEPT
                 !.order = l[2], !.list = l, !.item = i, !.quantity = q,
                 !.linePicked = SumFunctionOnSet([taken[l] EXCEPT ![i] = q], LineItems(i)),
                 !.starts = (listStatus[l] = "PENDING" /\ q > 0)])
      BY <2>1 DEF ReadList
    <3>0. PICK q \in Pickable(i) :
            /\ listStatus[l] # "NONE" /\ OrderOf[i] = l[2]
            /\ Begin(c, "pick", "item", [NoJob EXCEPT
                 !.order = l[2], !.list = l, !.item = i, !.quantity = q,
                 !.linePicked = SumFunctionOnSet([taken[l] EXCEPT ![i] = q], LineItems(i)),
                 !.starts = (listStatus[l] = "PENDING" /\ q > 0)])
      BY <3>1
    <3>2. q \in Nat /\ q <= QuantityOf[i]
      BY ItemAssumption DEF Pickable
    <3>3. SumFunctionOnSet([taken[l] EXCEPT ![i] = q], LineItems(i)) \in Nat
      <4>1. IsFiniteSet(LineItems(i)) /\ LineItems(i) \subseteq Item
        BY FS_Subset DEF LineItems
      <4>2. \A j \in LineItems(i) : [taken[l] EXCEPT ![i] = q][j] \in Nat
        BY <3>2, <4>1
      <4> QED BY <4>1, <4>2, SumNat
    <3>4. l[2] \in Order
      BY DEF List
    <3> QED BY <3>0, <3>2, <3>3, <3>4 DEF Job
  <2>2. CASE WriteItem(c)
    BY <2>2 DEF WriteItem, Job
  <2>3. CASE WriteListStatus(c)
    BY <2>3 DEF WriteListStatus, Job
  <2>4. CASE WriteLinePicked(c)
    BY <2>4, ItemAssumption DEF WriteLinePicked, Job, Quantities
  <2>5. CASE ReadOrder(c)
    BY <2>5 DEF ReadOrder, Job
  <2>6. CASE ReadItems(c)
    <3>1. CASE PickStatus(c) = job[c].status
      <4>1. Finish(c, "sum") /\ UNCHANGED <<status, lines, listStatus, taken, stock, shipments>>
        BY <2>6, <3>1 DEF ReadItems
      <4> QED BY <4>1 DEF Job
    <3>2. CASE PickStatus(c) # job[c].status
      <4>1. PickStatus(c) \in {"PICKED", "PARTIALLY_PICKED"}
        BY <3>2 DEF PickStatus
      <4>2. PICK new \in {"PICKED", "PARTIALLY_PICKED"} : job' = [job EXCEPT ![c].status = new]
        BY <2>6, <3>2, <4>1 DEF ReadItems
      <4>3. /\ Continue(c, "sum", "status")
            /\ UNCHANGED <<status, lines, listStatus, taken, stock, shipments>>
        BY <2>6, <3>2 DEF ReadItems
      <4>4. new \in Status /\ job' \in [Clerk -> Job]
        <5>1. new \in Status
          BY DEF Status
        <5> QED BY <4>2, <5>1 DEF Job
      <4>5. TypeOK'
        BY <4>3, <4>4
      <4>6. \A d \in Clerk : Carried(d)'
        BY <4>2, <4>3, <4>4 DEF Job
      <4> QED BY <4>5, <4>6
    <3> QED BY <3>1, <3>2
  <2>7. CASE WriteStatus(c)
    BY <2>7 DEF WriteStatus, Job
  <2> QED BY <1>2, <2>1, <2>2, <2>3, <2>4, <2>5, <2>6, <2>7 DEF UpdatePickListItem
<1>3. ASSUME NEW c \in Clerk, PackOrder(c) PROVE TypeInv'
  <2>1. CASE ReadPickable(c)
    <3>1. PICK o \in Order : Begin(c, "pack", "pack", [NoJob EXCEPT !.order = o])
      BY <2>1 DEF ReadPickable
    <3> QED BY <3>1 DEF Job
  <2>2. CASE ReadPicked(c)
    BY <2>2, PickedNat DEF ReadPicked, Job, Quantities
  <2>3. CASE WritePacked(c)
    BY <2>3 DEF WritePacked, Job, Status
  <2> QED BY <1>3, <2>1, <2>2, <2>3 DEF PackOrder
<1>4. ASSUME NEW c \in Clerk, ShipOrder(c) PROVE TypeInv'
  <2>1. CASE ReadShippable(c)
    <3>1. PICK o \in Order :
            Begin(c, "ship", "code", [NoJob EXCEPT !.order = o, !.packed = packedQty[o],
                                                   !.shipped = shippedQty[o]])
      BY <2>1 DEF ReadShippable
    <3> QED BY <3>1 DEF Job
  <2>2. CASE ReadCodes(c)
    <3>1. PICK n \in Code : job' = [job EXCEPT ![c].code = n]
      BY <2>2 DEF ReadCodes
    <3> QED BY <2>2, <3>1 DEF ReadCodes, Job
  <2>3. CASE WriteShipped(c)
    BY <2>3 DEF WriteShipped, Job, Status, Quantities, NowShipped, ToShip, ReleaseQty, LeftReserved, ShipStatus
  <2>4. CASE CodeTaken(c)
    BY <2>4 DEF CodeTaken, Job
  <2> QED BY <1>4, <2>1, <2>2, <2>3, <2>4 DEF ShipOrder
<1>5. ASSUME NEW c \in Clerk, DeliverOrder(c) PROVE TypeInv'
  <2>1. CASE ReadShipped(c)
    <3>1. PICK o \in Order : Begin(c, "deliver", "deliver", [NoJob EXCEPT !.order = o])
      BY <2>1 DEF ReadShipped
    <3> QED BY <3>1 DEF Job
  <2>2. CASE WriteDelivered(c)
    <3>1. \A s \in shipments :
            (IF s.order = job[c].order THEN Arrived(s) ELSE s)
               \in [code : Code, order : Order, status : {"IN_TRANSIT", "DELIVERED"}]
      BY DEF Arrived
    <3> QED BY <2>2, <3>1 DEF WriteDelivered, Job, Status
  <2> QED BY <1>5, <2>1, <2>2 DEF DeliverOrder
<1>6. ASSUME NEW c \in Clerk, Fail(c) PROVE TypeInv'
  BY <1>6 DEF Fail, Job
<1>7. CASE UNCHANGED vars
  BY <1>7 DEF vars
<1> QED BY <1>1, <1>2, <1>3, <1>4, <1>5, <1>6, <1>7 DEF Next

(* TypeOK, for any number of clerks, orders, products and items. *)
THEOREM TypeSafe == Spec => []TypeOK
<1>1. TypeInv => TypeOK
  BY DEF TypeInv
<1> QED BY <1>1, TypeInit, TypeStep, PTL DEF Spec

-----------------------------------------------------------------------------
(* Who writes what. *)
LEMMA Writers ==
  ASSUME [Next]_vars
  PROVE  /\ UNCHANGED <<stock, shippedQty>> \/ \E c \in Clerk : WriteShipped(c)
         /\ UNCHANGED packedQty \/ \E c \in Clerk : WritePacked(c)
         /\ UNCHANGED taken \/ \E c \in Clerk : WriteItem(c)
<1> USE DEF Begin, Continue, Finish, lines, stock
<1>1. ASSUME NEW c \in Clerk, StartPicking(c) PROVE UNCHANGED <<stock, lines, taken>>
  BY <1>1 DEF StartPicking, ReadConfirmed, WriteStart
<1>2. ASSUME NEW c \in Clerk, UpdatePickListItem(c)
      PROVE  UNCHANGED <<stock, shippedQty, packedQty>> /\ (UNCHANGED taken \/ WriteItem(c))
  <2>1. ASSUME ReadItems(c) PROVE UNCHANGED <<stock, lines, taken>>
    BY <2>1 DEF ReadItems
  <2> QED BY <1>2, <2>1 DEF UpdatePickListItem, ReadList, WriteItem, WriteListStatus,
                           WriteLinePicked, ReadOrder, WriteStatus
<1>3. ASSUME NEW c \in Clerk, PackOrder(c)
      PROVE  UNCHANGED <<stock, shippedQty, taken>> /\ (UNCHANGED packedQty \/ WritePacked(c))
  BY <1>3 DEF PackOrder, ReadPickable, ReadPicked, WritePacked
<1>4. ASSUME NEW c \in Clerk, ShipOrder(c)
      PROVE  UNCHANGED <<packedQty, taken>> /\ (UNCHANGED <<stock, shippedQty>> \/ WriteShipped(c))
  BY <1>4 DEF ShipOrder, ReadShippable, ReadCodes, WriteShipped, CodeTaken
<1>5. ASSUME NEW c \in Clerk, DeliverOrder(c) \/ Fail(c) PROVE UNCHANGED <<stock, lines, taken>>
  BY <1>5 DEF DeliverOrder, ReadShipped, WriteDelivered, Fail
<1>6. CASE UNCHANGED vars
  BY <1>6 DEF vars
<1> QED BY <1>1, <1>2, <1>3, <1>4, <1>5, <1>6 DEF Next

-----------------------------------------------------------------------------
(* The reservations and the balance. *)
LEMMA ReservedStep ==
  TypeInv /\ ReservationsMatchBalance /\ [Next]_vars => ReservationsMatchBalance'
<1> SUFFICES ASSUME TypeInv, ReservationsMatchBalance, [Next]_vars,
                    NEW p \in Product
             PROVE  reserved'[p] = SumFunction([o \in Order |-> reservation'[o][p]])
  BY DEF ReservationsMatchBalance
<1>1. CASE UNCHANGED <<stock, shippedQty>>
  BY <1>1 DEF ReservationsMatchBalance, stock
<1>2. ASSUME NEW c \in Clerk, WriteShipped(c)
      PROVE  reserved'[p] = SumFunction([o \in Order |-> reservation'[o][p]])
  <2> DEFINE before == [o \in Order |-> reservation[o][p]]
             after == [o \in Order |-> reservation'[o][p]]
             mine == job[c].order
  <2>1. mine \in Order /\ ReleaseQty(c, p) \in Nat
    BY DEF TypeInv, TypeOK, Job, ReleaseQty, ToShip, Quantities
  <2>2. /\ reservation' = [reservation EXCEPT ![mine] = [q \in Product |-> LeftReserved(c, q)]]
        /\ reserved'[p] = reserved[p] - ReleaseQty(c, p)
    BY <1>2 DEF WriteShipped
  <2>3. \A o \in Order : reservation[o][p] \in Int /\ reservation'[o][p] \in Int
    <3>1. TypeOK /\ TypeOK'
      BY TypeStep DEF TypeInv
    <3> QED BY <3>1 DEF TypeOK, Quantities
  <2>4. after[mine] = before[mine] - ReleaseQty(c, p)
    BY <2>1, <2>2 DEF TypeInv, TypeOK, LeftReserved
  <2>5. \A o \in Order \ {mine} : before[o] = after[o]
    BY <2>2 DEF TypeInv, TypeOK
  <2>6. SumFunctionOnSet(after, Order) = SumFunctionOnSet(before, Order) + after[mine] - before[mine]
    <3>1. \A o \in Order : before[o] \in Int /\ after[o] \in Int
      BY <2>3
    <3>2. IsFiniteSet(Order)
      BY Constants
    <3>3. mine \in Order
      BY <2>1
    <3>4. \A f, g, y : y \in Order /\ (\A x \in Order : f[x] \in Int /\ g[x] \in Int) /\ (\A x \in Order \ {y} : f[x] = g[x]) 
             => SumFunctionOnSet(g, Order) = SumFunctionOnSet(f, Order) + g[y] - f[y]
      BY <3>2, SumChange
    <3> HIDE DEF before, after, mine
    <3> QED BY <3>3, <2>5, <3>1, <3>4
  <2>7. reserved[p] = SumFunctionOnSet(before, Order) /\ before[mine] \in Int
    BY <2>1, <2>3 DEF ReservationsMatchBalance, SumFunction
  <2>8. SumFunctionOnSet(before, Order) \in Int
    BY <2>3, Constants, SumInt
  <2>9. reserved'[p] = SumFunctionOnSet(after, Order)
    <3> HIDE DEF before, after
    <3> QED BY <2>1, <2>2, <2>4, <2>6, <2>7, <2>8
  <2> QED BY <2>9 DEF SumFunction
<1> QED BY <1>1, <1>2, Writers

(* The reserved quantity of a balance row is what the open reservations    *)
(* add up to, however many clerks ship however many orders.                *)
THEOREM ReservedAsSummed == Spec => []ReservationsMatchBalance
<1>1. Init => ReservationsMatchBalance
  BY OrderAssumption DEF Init, ReservationsMatchBalance
<1> QED BY <1>1, ReservedStep, TypeInit, TypeStep, PTL DEF Spec

-----------------------------------------------------------------------------
(* What is picked, packed and shipped of an order. *)

(* No more is taken for an item than it asks for. *)
TakenWithin == \A l \in List, i \in Item : taken[l][i] <= QuantityOf[i]

(* What is packed for an order picked once, and what a request has read of *)
(* it, is within what was ordered.                                         *)
PackedWithin(o) ==
  \A p \in Product :
    /\ packedQty[o][p] <= Ordered[o][p]
    /\ shippedQty[o][p] <= Ordered[o][p]
    /\ \A c \in Clerk : pc[c] \in {"packing", "code", "ship"} /\ job[c].order = o
                          => job[c].packed[p] <= Ordered[o][p]

WithinInv ==
  /\ TypeInv /\ TakenWithin
  /\ \A o \in Order : PickedOnce(o) => PackedWithin(o)

(* A pick list that has been made stays made, and only startPicking makes one. *)
LEMMA ListsStay ==
  ASSUME TypeInv, [Next]_vars
  PROVE  \A l \in List : listStatus[l] # "NONE" => listStatus'[l] # "NONE"
<1> USE DEF Begin, Continue, Finish, TypeInv, TypeOK
<1>1. ASSUME NEW c \in Clerk, StartPicking(c) PROVE \A l \in List : listStatus[l] # "NONE" => listStatus'[l] # "NONE"
  BY <1>1 DEF StartPicking, ReadConfirmed, WriteStart
<1>2. ASSUME NEW c \in Clerk, UpdatePickListItem(c), ~WriteListStatus(c) PROVE UNCHANGED listStatus
  <2>1. ASSUME ReadItems(c) PROVE UNCHANGED listStatus
    BY <2>1 DEF ReadItems
  <2> QED BY <1>2, <2>1 DEF UpdatePickListItem, ReadList, WriteItem, WriteLinePicked,
                           ReadOrder, WriteStatus
<1>3. ASSUME NEW c \in Clerk, WriteListStatus(c) PROVE \A l \in List : listStatus[l] # "NONE" => listStatus'[l] # "NONE"
  BY <1>3 DEF WriteListStatus
<1>4. ASSUME NEW c \in Clerk, PackOrder(c) PROVE \A l \in List : listStatus[l] # "NONE" => listStatus'[l] # "NONE"
  BY <1>4 DEF PackOrder, ReadPickable, ReadPicked, WritePacked
<1>5. ASSUME NEW c \in Clerk, ShipOrder(c) PROVE UNCHANGED listStatus
  BY <1>5 DEF ShipOrder, ReadShippable, ReadCodes, WriteShipped, CodeTaken
<1>6. ASSUME NEW c \in Clerk, DeliverOrder(c) \/ Fail(c) PROVE UNCHANGED listStatus
  BY <1>6 DEF DeliverOrder, ReadShipped, WriteDelivered, Fail
<1>7. CASE UNCHANGED vars
  BY <1>7 DEF vars
<1> QED BY <1>1, <1>2, <1>3, <1>4, <1>5, <1>6, <1>7 DEF Next

(* The pick lists made for an order. *)
Lists(o) == {l \in List : l[2] = o /\ listStatus[l] # "NONE"}

LEMMA OneList ==
  ASSUME TypeInv, NEW o \in Order, PickedOnce(o)
  PROVE  \A k, l \in Lists(o) : k = l
<1>1. IsFiniteSet(Lists(o)) /\ Cardinality(Lists(o)) <= 1
  BY Constants, FS_Subset DEF Lists, PickedOnce
<1>2. Cardinality(Lists(o)) = 0 \/ Cardinality(Lists(o)) = 1
  BY <1>1, FS_CardinalityType
<1>3. Lists(o) = {} \/ \E l : Lists(o) = {l}
  BY <1>1, <1>2, FS_EmptySet, FS_Singleton
<1> QED BY <1>3

LEMMA StillPickedOnce ==
  ASSUME TypeInv, [Next]_vars, NEW o \in Order, PickedOnce(o)'
  PROVE  PickedOnce(o)
<1>1. Lists(o) \subseteq Lists(o)'
  BY ListsStay DEF Lists
<1>2. IsFiniteSet(Lists(o)')
  BY Constants, FS_Subset DEF Lists
<1>3. Cardinality(Lists(o)) <= Cardinality(Lists(o)') /\ IsFiniteSet(Lists(o))
  BY <1>1, <1>2, FS_Subset
<1>4. Cardinality(Lists(o)') <= 1 /\ Cardinality(Lists(o)') \in Nat /\ Cardinality(Lists(o)) \in Nat
  BY <1>2, <1>3, FS_CardinalityType DEF Lists, PickedOnce
<1>5. Cardinality(Lists(o)) <= 1
  BY <1>3, <1>4
<1> QED BY <1>5 DEF Lists, PickedOnce

(* What packing finds picked on the one list of an order. *)
LEMMA PickedWithin ==
  ASSUME TypeInv, TakenWithin, NEW o \in Order, PickedOnce(o), NEW p \in Product
  PROVE  SumFunction([x \in PickedOf(o, p) |-> Picked(x)]) <= Ordered[o][p]
<1> DEFINE line == {i \in Item : OrderOf[i] = o /\ ProductOf[i] = p}
           found == [x \in PickedOf(o, p) |-> Picked(x)]
<1>1. SumFunctionOnSet(found, PickedOf(o, p)) = SumFunction(found)
  BY DEF SumFunction
<1>2. Ordered[o][p] = SumFunctionOnSet(QuantityOf, line) /\ Ordered[o][p] \in Nat
  BY ItemAssumption, OrderAssumption
<1>3. CASE Lists(o) = {}
  <2>1. PickedOf(o, p) = {}
    BY <1>3 DEF PickedOf, Picks, Lists
  <2>2. SumFunctionOnSet(found, PickedOf(o, p)) = 0
    BY <2>1, SumEmpty
  <2> QED BY <1>1, <1>2, <2>2
<1>4. ASSUME NEW l \in Lists(o)
      PROVE  SumFunction(found) <= Ordered[o][p]
  <2> DEFINE on == [i \in line |-> <<l, i>>]
  <2>1. PickedOf(o, p) = {on[i] : i \in line}
    <3>1. \A k \in Lists(o) : k = l
      BY OneList
    <3>2. \A x \in PickedOf(o, p) : x[1] \in Lists(o) /\ x[2] \in line /\ x = <<x[1], x[2]>>
      BY DEF PickedOf, Picks, Lists
    <3>3. \A i \in line : <<l, i>> \in PickedOf(o, p)
      BY DEF PickedOf, Picks, Lists
    <3>4. \A x \in PickedOf(o, p) : x[2] \in line /\ x = on[x[2]]
      BY <3>1, <3>2
    <3>5. \A i \in line : on[i] \in PickedOf(o, p)
      BY <3>3
    <3> HIDE DEF on, line
    <3> QED BY <3>4, <3>5
  <2>2. IsFiniteSet(line)
    BY Constants, FS_Subset
  <2>3. \A i \in line : /\ taken[l][i] \in Int /\ QuantityOf[i] \in Int
                        /\ taken[l][i] <= QuantityOf[i] /\ found[on[i]] = taken[l][i]
    <3>1. l \in List
      BY DEF Lists
    <3>2. \A i \in line : on[i] \in PickedOf(o, p) /\ found[on[i]] = taken[l][i]
      BY <2>1 DEF Picked
    <3>3. \A i \in Item : /\ taken[l][i] \in Int /\ QuantityOf[i] \in Int
                          /\ taken[l][i] <= QuantityOf[i]
      BY <3>1, ItemAssumption DEF TypeInv, TypeOK, TakenWithin
    <3>4. line \subseteq Item
      OBVIOUS
    <3> HIDE DEF on, line, found
    <3> QED BY <3>2, <3>3, <3>4
  <2>4. \A i, j \in line : on[i] = on[j] => i = j
    OBVIOUS
  <2>5. SumFunctionOnSet(found, {on[i] : i \in line}) = SumFunctionOnSet(taken[l], line)
    <3>1. \A f, g, m : /\ \A i \in line : f[i] \in Int /\ g[m[i]] = f[i]
                       /\ \A i, j \in line : m[i] = m[j] => i = j
                       => SumFunctionOnSet(g, {m[i] : i \in line}) = SumFunctionOnSet(f, line)
      BY <2>2, SumRenamed
    <3> HIDE DEF found, on, line
    <3> QED BY <2>3, <2>4, <3>1
  <2>6. SumFunctionOnSet(taken[l], line) <= SumFunctionOnSet(QuantityOf, line)
    <3> HIDE DEF found, on, line
    <3> QED BY <2>2, <2>3, SumLeq
  <2> QED BY <1>1, <1>2, <2>1, <2>5, <2>6
<1> QED BY <1>3, <1>4

(* What a request that packs or ships carries, it has carried before or    *)
(* reads in this step.                                                     *)
LEMMA Readers ==
  ASSUME TypeInv, [Next]_vars, NEW d \in Clerk, pc'[d] \in {"packing", "code", "ship"}
  PROVE  \/ /\ pc[d] = pc'[d] \/ pc[d] = "code"
            /\ job'[d].order = job[d].order
            /\ job'[d].packed = job[d].packed
            /\ job'[d].shipped = job[d].shipped
         \/ ReadPicked(d)
         \/ ReadShippable(d)
<1> DEFINE Same == /\ pc[d] = pc'[d] \/ pc[d] = "code"
                   /\ job'[d].order = job[d].order
                   /\ job'[d].packed = job[d].packed
                   /\ job'[d].shipped = job[d].shipped
<1> USE DEF Begin, Continue, Finish, TypeInv, TypeOK
<1>1. ASSUME NEW c \in Clerk, StartPicking(c) PROVE Same
  <2>1. ASSUME ReadConfirmed(c) PROVE Same
    BY <2>1 DEF ReadConfirmed
  <2> QED BY <1>1, <2>1 DEF StartPicking, WriteStart
<1>2. ASSUME NEW c \in Clerk, UpdatePickListItem(c) PROVE Same
  <2>1. ASSUME ReadList(c) PROVE Same
    BY <2>1 DEF ReadList
  <2>2. ASSUME ReadItems(c) PROVE Same
    BY <2>2 DEF ReadItems
  <2> QED BY <1>2, <2>1, <2>2 DEF UpdatePickListItem, WriteItem, WriteListStatus,
                                 WriteLinePicked, ReadOrder, WriteStatus
<1>3. ASSUME NEW c \in Clerk, PackOrder(c) PROVE Same \/ ReadPicked(d)
  <2>1. ASSUME ReadPickable(c) PROVE Same
    BY <2>1 DEF ReadPickable
  <2>2. ASSUME ReadPicked(c) PROVE Same \/ c = d
    BY <2>2 DEF ReadPicked
  <2> QED BY <1>3, <2>1, <2>2 DEF PackOrder, WritePacked
<1>4. ASSUME NEW c \in Clerk, ShipOrder(c) PROVE Same \/ ReadShippable(d)
  <2>1. ASSUME ReadShippable(c) PROVE Same \/ c = d
    BY <2>1 DEF ReadShippable
  <2>2. ASSUME ReadCodes(c) PROVE Same
    <3>1. PICK n \in Code : job' = [job EXCEPT ![c].code = n]
      BY <2>2 DEF ReadCodes
    <3> QED BY <2>2, <3>1 DEF ReadCodes, Job
  <2> QED BY <1>4, <2>1, <2>2 DEF ShipOrder, WriteShipped, CodeTaken
<1>5. ASSUME NEW c \in Clerk, DeliverOrder(c) \/ Fail(c) PROVE Same
  <2>1. ASSUME ReadShipped(c) PROVE Same
    BY <2>1 DEF ReadShipped
  <2> QED BY <1>5, <2>1 DEF DeliverOrder, WriteDelivered, Fail
<1>6. CASE UNCHANGED vars
  BY <1>6 DEF vars
<1> HIDE DEF Begin, Continue, Finish, TypeInv, TypeOK
<1> QED BY <1>1, <1>2, <1>3, <1>4, <1>5, <1>6 DEF Next

LEMMA WithinInit == Init => WithinInv
<1> SUFFICES ASSUME Init PROVE TakenWithin /\ \A o \in Order : PackedWithin(o)
  BY TypeInit DEF WithinInv
<1> QED BY OrderAssumption, ItemAssumption DEF Init, TakenWithin, PackedWithin, NoneTaken, None

LEMMA WithinStep == WithinInv /\ [Next]_vars => WithinInv'
<1> SUFFICES ASSUME WithinInv, [Next]_vars PROVE WithinInv'
  OBVIOUS
<1>1. TypeInv /\ TypeInv' /\ TakenWithin
  BY TypeStep DEF WithinInv
<1>2. TakenWithin'
  <2>1. CASE UNCHANGED taken
    BY <1>1, <2>1 DEF TakenWithin
  <2>2. ASSUME NEW c \in Clerk, WriteItem(c) PROVE TakenWithin'
    <3>1. job[c].quantity <= QuantityOf[job[c].item]
      BY <1>1, <2>2 DEF WriteItem, Continue, TypeInv, Carried
    <3>2. taken' = [taken EXCEPT ![job[c].list][job[c].item] = job[c].quantity]
      BY <2>2 DEF WriteItem
    <3> QED BY <1>1, <3>1, <3>2 DEF TakenWithin, TypeInv, TypeOK, Job
  <2> QED BY <2>1, <2>2, Writers
<1>3. ASSUME NEW o \in Order, PickedOnce(o)' PROVE PackedWithin(o)'
  <2>1. PickedOnce(o) /\ PackedWithin(o)
    BY <1>1, <1>3, StillPickedOnce DEF WithinInv
  <2> SUFFICES ASSUME NEW p \in Product
               PROVE  /\ packedQty'[o][p] <= Ordered[o][p]
                      /\ shippedQty'[o][p] <= Ordered[o][p]
                      /\ \A c \in Clerk : pc'[c] \in {"packing", "code", "ship"} /\ job'[c].order = o
                                            => job'[c].packed[p] <= Ordered[o][p]
    BY DEF PackedWithin
  <2>2. packedQty'[o][p] <= Ordered[o][p]
    <3>1. ASSUME NEW c \in Clerk, WritePacked(c), job[c].order = o PROVE packedQty'[o][p] <= Ordered[o][p]
      <4>1. packedQty'[o] = job[c].packed /\ pc[c] = "packing"
        BY <1>1, <3>1 DEF WritePacked, Finish, Continue, TypeInv, TypeOK
      <4> QED BY <2>1, <3>1, <4>1 DEF PackedWithin
    <3>2. ASSUME NEW c \in Clerk, WritePacked(c), job[c].order # o PROVE packedQty'[o][p] <= Ordered[o][p]
      BY <1>1, <2>1, <3>2 DEF WritePacked, PackedWithin, TypeInv, TypeOK
    <3> QED BY <2>1, <3>1, <3>2, Writers DEF PackedWithin
  <2>3. shippedQty'[o][p] <= Ordered[o][p]
    <3>1. ASSUME NEW c \in Clerk, WriteShipped(c), job[c].order = o PROVE shippedQty'[o][p] <= Ordered[o][p]
      <4>1. shippedQty'[o][p] = NowShipped(c, p) /\ pc[c] = "ship"
        BY <1>1, <3>1 DEF WriteShipped, Finish, Continue, TypeInv, TypeOK
      <4>2. job[c].packed[p] <= Ordered[o][p] /\ shippedQty[o][p] <= Ordered[o][p]
        BY <2>1, <3>1, <4>1 DEF PackedWithin
      <4>3. job[c].packed[p] \in Nat /\ job[c].shipped[p] \in Nat
        BY <1>1 DEF TypeInv, TypeOK, Job, Quantities
      <4> QED BY <3>1, <4>1, <4>2, <4>3 DEF NowShipped, ToShip
    <3>2. ASSUME NEW c \in Clerk, WriteShipped(c), job[c].order # o PROVE shippedQty'[o][p] <= Ordered[o][p]
      BY <1>1, <2>1, <3>2 DEF WriteShipped, PackedWithin, TypeInv, TypeOK
    <3> QED BY <2>1, <3>1, <3>2, Writers DEF PackedWithin
  <2>4. ASSUME NEW c \in Clerk, pc'[c] \in {"packing", "code", "ship"}, job'[c].order = o
        PROVE  job'[c].packed[p] <= Ordered[o][p]
    <3>1. CASE ReadPicked(c)
      <4>1. /\ job[c].order = o
            /\ job'[c].packed[p] = IF Ordered[o][p] = 0 THEN 0
                                   ELSE SumFunction([x \in PickedOf(o, p) |-> Picked(x)])
        BY <1>1, <2>4, <3>1 DEF ReadPicked, TypeInv, TypeOK, Job
      <4>2. SumFunction([x \in PickedOf(o, p) |-> Picked(x)]) <= Ordered[o][p]
        BY <1>1, <2>1, PickedWithin
      <4>3. Ordered[o][p] \in Nat
        BY OrderAssumption
      <4> QED BY <4>1, <4>2, <4>3
    <3>2. CASE ReadShippable(c)
      <4>1. PICK r \in Order :
              Begin(c, "ship", "code", [NoJob EXCEPT !.order = r, !.packed = packedQty[r],
                                                     !.shipped = shippedQty[r]])
        BY <3>2 DEF ReadShippable
      <4>2. job'[c].order = r /\ job'[c].packed = packedQty[r]
        BY <1>1, <4>1, Constants DEF Begin, TypeInv, TypeOK, Job
      <4> QED BY <2>1, <2>4, <4>2 DEF PackedWithin
    <3> QED BY <1>1, <2>1, <2>4, <3>1, <3>2, Readers DEF PackedWithin
  <2> QED BY <2>2, <2>3, <2>4
<1> QED BY <1>1, <1>2, <1>3 DEF WithinInv

(* Of an order with at most one pick list no more is ever shipped than     *)
(* ordered, whatever is picked, packed and shipped again.                  *)
THEOREM NeverOvershipped == Spec => []ShippedWithinOrder
<1>1. WithinInv => ShippedWithinOrder
  BY DEF WithinInv, PackedWithin, ShippedWithinOrder
<1> QED BY <1>1, WithinInit, WithinStep, PTL DEF Spec

-----------------------------------------------------------------------------
(* The orders no two requests have worked on at a time. *)

(* One request at a time works on order o, and what it has read still      *)
(* holds.                                                                  *)
Alone(o) ==
  \A c, d \in Clerk : pc[c] # "idle" /\ pc[d] # "idle" /\ job[c].order = o /\ job[d].order = o => c = d

UpToDate(o) ==
  \A c \in Clerk : job[c].order = o =>
    /\ pc[c] = "start" => status[o] = "CONFIRMED"
    /\ pc[c] = "deliver" => status[o] = "SHIPPED"
    /\ pc[c] \in {"code", "ship"} => job[c].shipped = shippedQty[o]

(* A CONFIRMED order has no pick list yet.                                 *)
ConfirmedUnpicked(o) == status[o] = "CONFIRMED" => \A l \in List : l[2] = o => listStatus[l] = "NONE"

Shipped(o) ==
  /\ \A p \in Product : reservation[o][p] + shippedQty[o][p] = Ordered[o][p]
  /\ status[o] \in {"SHIPPED", "DELIVERED"} => shippedQty[o] = Ordered[o]
  /\ status[o] = "DELIVERED" => \A s \in shipments : s.order = o => s.status = "DELIVERED"

Orderly(o) == Alone(o) /\ UpToDate(o) /\ ConfirmedUnpicked(o) /\ PickedOnce(o) /\ Shipped(o)

HistoryInv == WithinInv /\ \A o \in Order \ overlapped : Orderly(o)

LEMMA Moves ==
  ASSUME TypeInv, [Next]_vars
  PROVE  \E c \in Clerk : \A d \in Clerk \ {c} : pc'[d] = pc[d] /\ job'[d] = job[d]
<1> USE DEF Begin, Continue, Finish, TypeInv, TypeOK
<1> DEFINE Only(c) == \A d \in Clerk \ {c} : pc'[d] = pc[d] /\ job'[d] = job[d]
<1>1. ASSUME NEW c \in Clerk, StartPicking(c) PROVE Only(c)
  BY <1>1 DEF StartPicking, ReadConfirmed, WriteStart
<1>2. ASSUME NEW c \in Clerk, UpdatePickListItem(c) PROVE Only(c)
  <2>1. ASSUME ReadItems(c) PROVE Only(c)
    BY <2>1 DEF ReadItems
  <2> QED BY <1>2, <2>1 DEF UpdatePickListItem, ReadList, WriteItem, WriteListStatus,
                           WriteLinePicked, ReadOrder, WriteStatus
<1>3. ASSUME NEW c \in Clerk, PackOrder(c) PROVE Only(c)
  BY <1>3 DEF PackOrder, ReadPickable, ReadPicked, WritePacked
<1>4. ASSUME NEW c \in Clerk, ShipOrder(c) PROVE Only(c)
  BY <1>4 DEF ShipOrder, ReadShippable, ReadCodes, WriteShipped, CodeTaken
<1>5. ASSUME NEW c \in Clerk, DeliverOrder(c) \/ Fail(c) PROVE Only(c)
  BY <1>5 DEF DeliverOrder, ReadShipped, WriteDelivered, Fail
<1>6. CASE UNCHANGED vars
  <2>1. PICK c \in Clerk : TRUE
    BY FiniteAssumption
  <2> QED BY <1>6 DEF vars
<1> QED BY <1>1, <1>2, <1>3, <1>4, <1>5, <1>6 DEF Next

(* Who writes the status of an order, makes a list or touches a shipment. *)
LEMMA StatusWriters ==
  ASSUME TypeInv, [Next]_vars
  PROVE  \/ UNCHANGED <<status, shipments>> /\ \A l \in List : listStatus'[l] # "NONE" => listStatus[l] # "NONE"
         \/ \E c \in Clerk : WriteStart(c) \/ WriteStatus(c) \/ WritePacked(c) \/ WriteShipped(c) \/ WriteDelivered(c)
<1> DEFINE Nothing == /\ UNCHANGED <<status, shipments>>
                      /\ \A l \in List : listStatus'[l] # "NONE" => listStatus[l] # "NONE"
<1> USE DEF Begin, Continue, Finish
<1>1. ASSUME NEW c \in Clerk, StartPicking(c) PROVE Nothing \/ WriteStart(c)
  BY <1>1 DEF StartPicking, ReadConfirmed
<1>2. ASSUME NEW c \in Clerk, UpdatePickListItem(c) PROVE Nothing \/ WriteStatus(c)
  <2>1. ASSUME ReadItems(c) PROVE Nothing
    BY <2>1 DEF ReadItems
  <2>2. ASSUME WriteListStatus(c) PROVE Nothing
    BY <2>2 DEF WriteListStatus, TypeInv, TypeOK, Carried
  <2> QED BY <1>2, <2>1, <2>2 DEF UpdatePickListItem, ReadList, WriteItem, WriteLinePicked, ReadOrder
<1>3. ASSUME NEW c \in Clerk, PackOrder(c) PROVE Nothing \/ WritePacked(c)
  BY <1>3 DEF PackOrder, ReadPickable, ReadPicked
<1>4. ASSUME NEW c \in Clerk, ShipOrder(c) PROVE Nothing \/ WriteShipped(c)
  BY <1>4 DEF ShipOrder, ReadShippable, ReadCodes, CodeTaken
<1>5. ASSUME NEW c \in Clerk, DeliverOrder(c) \/ Fail(c) PROVE Nothing \/ WriteDelivered(c)
  BY <1>5 DEF DeliverOrder, ReadShipped, Fail
<1>6. CASE UNCHANGED vars
  BY <1>6 DEF vars
<1> QED BY <1>1, <1>2, <1>3, <1>4, <1>5, <1>6 DEF Next

LEMMA HistoryInit == MCInit => HistoryInv
<1> SUFFICES ASSUME MCInit, NEW o \in Order PROVE Orderly(o)
  BY WithinInit DEF HistoryInv, MCInit
<1>1. PickedOnce(o)
  <2>1. {l \in List : l[2] = o /\ listStatus[l] # "NONE"} = {}
    BY DEF MCInit, Init
  <2> QED BY <2>1, FS_EmptySet DEF PickedOnce
<1>2. Alone(o) /\ UpToDate(o) /\ ConfirmedUnpicked(o)
  BY DEF MCInit, Init, Alone, UpToDate, ConfirmedUnpicked
<1>3. Shipped(o)
  BY OrderAssumption DEF MCInit, Init, Shipped, None
<1> QED BY <1>1, <1>2, <1>3 DEF Orderly

(* What the steps below start from. *)
LEMMA Basics ==
  ASSUME HistoryInv, [MCNext]_<<vars, overlapped>>, NEW o \in Order \ overlapped'
  PROVE  /\ [Next]_vars /\ TypeInv /\ TypeInv' /\ PackedWithin(o)
         /\ Orderly(o) /\ Alone(o)'
<1>1. [Next]_vars /\ o \in Order \ overlapped
  BY DEF MCNext
<1>2. Orderly(o) /\ WithinInv /\ TypeInv /\ PackedWithin(o)
  BY <1>1 DEF HistoryInv, WithinInv, Orderly
<1>3. Alone(o)'
  BY <1>2 DEF MCNext, Alone, Orderly, vars
<1> QED BY <1>1, <1>2, <1>3, TypeStep

(* Nobody else writes what a request on order o has read of it. *)
LEMMA Mine ==
  ASSUME TypeInv, [Next]_vars, NEW o \in Order, Alone(o),
         NEW d \in Clerk, pc[d] # "idle", job[d].order = o, pc'[d] # "idle"
  PROVE  status'[o] = status[o] /\ shippedQty'[o] = shippedQty[o]
<1>1. \A c \in Clerk : pc[c] # "idle" /\ job[c].order = o => c = d
  BY DEF Alone
<1>2. shippedQty'[o] = shippedQty[o]
  <2>1. ASSUME NEW c \in Clerk, WriteShipped(c) PROVE shippedQty'[o] = shippedQty[o]
    BY <1>1, <2>1 DEF WriteShipped, Finish, Continue, TypeInv, TypeOK
  <2> QED BY <2>1, Writers
<1>3. status'[o] = status[o]
  <2>1. ASSUME NEW c \in Clerk,
               WriteStart(c) \/ WriteStatus(c) \/ WritePacked(c) \/ WriteShipped(c) \/ WriteDelivered(c)
        PROVE  status'[o] = status[o]
    <3>1. pc[c] # "idle" /\ pc'[c] = "idle"
      BY <2>1 DEF WriteStart, WriteStatus, WritePacked, WriteShipped, WriteDelivered, Finish, Continue,
                  TypeInv, TypeOK
    <3>2. job[c].order # o
      BY <1>1, <3>1
    <3> QED BY <2>1, <3>2 DEF WriteStart, WriteStatus, WritePacked, WriteShipped, WriteDelivered,
                              TypeInv, TypeOK
  <2> QED BY <2>1, StatusWriters
<1> QED BY <1>2, <1>3

(* Who starts or delivers has read the status in this step or before. *)
LEMMA StatusReaders ==
  ASSUME TypeInv, [Next]_vars, NEW d \in Clerk, pc'[d] \in {"start", "deliver"}
  PROVE  \/ pc[d] = pc'[d] /\ job'[d].order = job[d].order
         \/ /\ UNCHANGED <<status, shippedQty>>
            /\ pc'[d] = "start" => status[job'[d].order] = "CONFIRMED"
            /\ pc'[d] = "deliver" => status[job'[d].order] = "SHIPPED"
<1> DEFINE Goal == \/ pc[d] = pc'[d] /\ job'[d].order = job[d].order
                   \/ /\ UNCHANGED <<status, shippedQty>>
                      /\ pc'[d] = "start" => status[job'[d].order] = "CONFIRMED"
                      /\ pc'[d] = "deliver" => status[job'[d].order] = "SHIPPED"
<1> USE DEF Begin, Continue, Finish, TypeInv, TypeOK
<1>1. ASSUME NEW c \in Clerk, StartPicking(c) PROVE Goal
  <2>1. ASSUME NEW r \in Order, status[r] = "CONFIRMED",
               Begin(c, "start", "start", [NoJob EXCEPT !.order = r])
        PROVE  Goal
    BY <2>1, Constants DEF Job, lines
  <2> QED BY <1>1, <2>1 DEF StartPicking, ReadConfirmed, WriteStart
<1>2. ASSUME NEW c \in Clerk, UpdatePickListItem(c) PROVE Goal
  <2>1. ASSUME ReadItems(c) PROVE Goal
    BY <2>1 DEF ReadItems
  <2>2. ASSUME ReadList(c) PROVE Goal
    BY <2>2 DEF ReadList
  <2> QED BY <1>2, <2>1, <2>2 DEF UpdatePickListItem, WriteItem, WriteListStatus,
                           WriteLinePicked, ReadOrder, WriteStatus
<1>3. ASSUME NEW c \in Clerk, PackOrder(c) PROVE Goal
  <2>1. ASSUME ReadPickable(c) PROVE Goal
    BY <2>1 DEF ReadPickable
  <2>2. ASSUME ReadPicked(c) PROVE Goal
    BY <2>2 DEF ReadPicked
  <2> QED BY <1>3, <2>1, <2>2 DEF PackOrder, WritePacked
<1>4. ASSUME NEW c \in Clerk, ShipOrder(c) PROVE Goal
  <2>1. ASSUME ReadShippable(c) PROVE Goal
    BY <2>1 DEF ReadShippable
  <2>2. ASSUME ReadCodes(c) PROVE Goal
    BY <2>2 DEF ReadCodes
  <2> QED BY <1>4, <2>1, <2>2 DEF ShipOrder, WriteShipped, CodeTaken
<1>5. ASSUME NEW c \in Clerk, DeliverOrder(c) \/ Fail(c) PROVE Goal
  <2>1. ASSUME NEW r \in Order, status[r] = "SHIPPED",
               Begin(c, "deliver", "deliver", [NoJob EXCEPT !.order = r])
        PROVE  Goal
    BY <2>1, Constants DEF Job, lines
  <2> QED BY <1>5, <2>1 DEF DeliverOrder, ReadShipped, WriteDelivered, Fail
<1>6. CASE UNCHANGED vars
  BY <1>6 DEF vars
<1> HIDE DEF Begin, Continue, Finish, TypeInv, TypeOK
<1> QED BY <1>1, <1>2, <1>3, <1>4, <1>5, <1>6 DEF Next

LEMMA UpToDateStep ==
  ASSUME HistoryInv, [MCNext]_<<vars, overlapped>>, NEW o \in Order \ overlapped'
  PROVE  UpToDate(o)'
<1>1. [Next]_vars /\ TypeInv /\ Orderly(o)
  BY Basics
<1> SUFFICES ASSUME NEW d \in Clerk, job'[d].order = o
             PROVE  /\ pc'[d] = "start" => status'[o] = "CONFIRMED"
                    /\ pc'[d] = "deliver" => status'[o] = "SHIPPED"
                    /\ pc'[d] \in {"code", "ship"} => job'[d].shipped = shippedQty'[o]
  BY DEF UpToDate
<1>2. ASSUME pc'[d] \in {"start", "deliver"}
      PROVE  /\ pc'[d] = "start" => status'[o] = "CONFIRMED"
             /\ pc'[d] = "deliver" => status'[o] = "SHIPPED"
  BY <1>1, <1>2, StatusReaders, Mine DEF Orderly, UpToDate
<1>3. ASSUME pc'[d] \in {"code", "ship"} PROVE job'[d].shipped = shippedQty'[o]
  <2>1. CASE ReadPicked(d)
    BY <1>1, <1>3, <2>1 DEF ReadPicked, Continue, TypeInv, TypeOK
  <2>2. CASE ReadShippable(d)
    <3>1. PICK r \in Order :
              Begin(d, "ship", "code", [NoJob EXCEPT !.order = r, !.packed = packedQty[r],
                                                     !.shipped = shippedQty[r]])
        BY <2>2 DEF ReadShippable
    <3>2. job'[d].order = r /\ job'[d].shipped = shippedQty[r] /\ shippedQty' = shippedQty
        BY <1>1, <3>1, Constants DEF Begin, TypeInv, TypeOK, Job, lines
    <3> QED BY <3>2
  <2>3. CASE /\ pc[d] \in {"code", "ship"} /\ job'[d].order = job[d].order
             /\ job'[d].shipped = job[d].shipped
    <3>1. shippedQty'[o] = shippedQty[o]
      BY <1>1, <1>3, <2>3, Mine DEF Orderly
    <3> QED BY <1>1, <2>3, <3>1 DEF Orderly, UpToDate
  <2> QED BY <1>1, <1>3, <2>1, <2>2, <2>3, Readers
<1> QED BY <1>2, <1>3

LEMMA ListsStep ==
  ASSUME HistoryInv, [MCNext]_<<vars, overlapped>>, NEW o \in Order \ overlapped'
  PROVE  ConfirmedUnpicked(o)' /\ PickedOnce(o)'
<1>1. [Next]_vars /\ TypeInv /\ Orderly(o)
  BY Basics
<1>2. IsFiniteSet(List)
  BY Constants
<1>3. ASSUME UNCHANGED status, \A l \in List : listStatus'[l] # "NONE" => listStatus[l] # "NONE"
      PROVE  ConfirmedUnpicked(o)' /\ PickedOnce(o)'
  <2>1. Lists(o)' = Lists(o)
    BY <1>1, <1>3, ListsStay DEF Lists
  <2>2. PickedOnce(o)'
    BY <1>1, <2>1 DEF Orderly, PickedOnce, Lists
  <2>3. ConfirmedUnpicked(o)'
    BY <1>1, <1>3 DEF Orderly, ConfirmedUnpicked
  <2> QED BY <2>2, <2>3
<1>4. ASSUME NEW c \in Clerk, WriteStart(c), job[c].order = o
      PROVE  ConfirmedUnpicked(o)' /\ PickedOnce(o)'
  <2>1. \A l \in List : l[2] = o => listStatus[l] = "NONE"
    BY <1>1, <1>4 DEF WriteStart, Finish, Continue, Orderly, UpToDate, ConfirmedUnpicked
  <2>2. /\ status'[o] = "PICKING"
        /\ listStatus' = [listStatus EXCEPT ![<<c, o>>] = "PENDING"]
    BY <1>1, <1>4 DEF WriteStart, TypeInv, TypeOK
  <2>3. Lists(o)' = {<<c, o>>}
    BY <1>1, <2>1, <2>2 DEF Lists, List, TypeInv, TypeOK
  <2>4. PickedOnce(o)'
    <3>1. Cardinality(Lists(o)') = 1
      BY <2>3, FS_Singleton
    <3> QED BY <3>1 DEF PickedOnce, Lists
  <2> QED BY <2>2, <2>4 DEF ConfirmedUnpicked
<1>5. ASSUME NEW c \in Clerk,
             \/ WriteStatus(c) \/ WritePacked(c) \/ WriteShipped(c) \/ WriteDelivered(c)
             \/ WriteStart(c) /\ job[c].order # o
      PROVE  ConfirmedUnpicked(o)' /\ PickedOnce(o)'
  <2>1. \A l \in List : l[2] = o => (listStatus'[l] = "NONE" <=> listStatus[l] = "NONE")
    BY <1>1, <1>5 DEF WriteStatus, WritePacked, WriteShipped, WriteDelivered, WriteStart, TypeInv, TypeOK, List
  <2>2. Lists(o)' = Lists(o)
    BY <2>1 DEF Lists
  <2>3. PickedOnce(o)'
    BY <1>1, <2>2 DEF Orderly, PickedOnce, Lists
  <2>4. status'[o] = "CONFIRMED" => status[o] = "CONFIRMED"
    <3>1. ASSUME WriteStatus(c) PROVE job[c].status # "CONFIRMED"
      BY <1>1, <3>1 DEF WriteStatus, Finish, Continue, TypeInv, Carried
    <3> QED BY <1>1, <1>5, <3>1 DEF WriteStatus, WritePacked, WriteShipped, WriteDelivered, WriteStart,
                                    ShipStatus, TypeInv, TypeOK
  <2> QED BY <1>1, <2>1, <2>3, <2>4 DEF Orderly, ConfirmedUnpicked
<1> QED BY <1>1, <1>3, <1>4, <1>5, StatusWriters

(* Shipping order o when nobody else works on it. *)
LEMMA ShipsRest ==
  ASSUME HistoryInv, [MCNext]_<<vars, overlapped>>, NEW o \in Order \ overlapped',
         NEW c \in Clerk, WriteShipped(c), job[c].order = o
  PROVE  Shipped(o)'
<1>1. [Next]_vars /\ TypeInv /\ Orderly(o) /\ PackedWithin(o)
  BY Basics
<1>2. pc[c] = "ship"
  BY <1>1 DEF WriteShipped, Finish, Continue
<1>3. job[c].shipped = shippedQty[o] /\ \A p \in Product : job[c].packed[p] <= Ordered[o][p]
  BY <1>1, <1>2 DEF Orderly, UpToDate, PackedWithin
<1>4. /\ status'[o] = ShipStatus(c)
      /\ shippedQty'[o] = [p \in Product |-> NowShipped(c, p)]
      /\ reservation'[o] = [p \in Product |-> LeftReserved(c, p)]
  BY <1>1 DEF WriteShipped, TypeInv, TypeOK
<1>5. ASSUME NEW p \in Product
      PROVE  /\ shippedQty'[o][p] = job[c].shipped[p] + ToShip(c, p)
             /\ reservation'[o][p] = reservation[o][p] - ToShip(c, p)
             /\ shippedQty'[o][p] \in Int /\ Ordered[o][p] \in Int /\ shippedQty'[o][p] <= Ordered[o][p]
             /\ reservation'[o][p] + shippedQty'[o][p] = Ordered[o][p]
  <2>1. /\ job[c].packed[p] \in Nat /\ job[c].shipped[p] \in Nat /\ reservation[o][p] \in Nat
        /\ shippedQty[o][p] \in Nat /\ Ordered[o][p] \in Nat
    BY <1>1, OrderAssumption DEF TypeInv, TypeOK, Job, Quantities
  <2>2. /\ reservation[o][p] + shippedQty[o][p] = Ordered[o][p]
        /\ shippedQty[o][p] <= Ordered[o][p]
    BY <1>1 DEF Orderly, Shipped, PackedWithin
  <2>3. job[c].packed[p] <= Ordered[o][p] /\ job[c].shipped[p] = shippedQty[o][p]
    BY <1>3
  <2>4. ToShip(c, p) \in Nat /\ ToShip(c, p) <= reservation[o][p]
    BY <2>1, <2>2, <2>3 DEF ToShip
  <2>5. NowShipped(c, p) = job[c].shipped[p] + ToShip(c, p)
    BY <2>1, <2>3, <2>4 DEF NowShipped
  <2>6. LeftReserved(c, p) = reservation[o][p] - ToShip(c, p)
    BY <2>1, <2>4 DEF LeftReserved, ReleaseQty
  <2> QED BY <1>4, <2>1, <2>2, <2>3, <2>4, <2>5, <2>6
<1>6. ASSUME ShipStatus(c) = "SHIPPED" PROVE shippedQty'[o] = Ordered[o]
  <2> DEFINE now == [p \in Product |-> job[c].shipped[p] + ToShip(c, p)]
             all == Ordered[o]
  <2>1. SumFunctionOnSet(now, Product) >= SumFunctionOnSet(all, Product)
    <3>1. SumFunction(now) >= SumFunction(all)
      BY <1>6 DEF ShipStatus
    <3>2. DOMAIN now = Product /\ DOMAIN all = Product
      BY OrderAssumption
    <3> HIDE DEF now, all
    <3> QED BY <3>1, <3>2 DEF SumFunction
  <2>2. \A p \in Product : now[p] \in Int /\ all[p] \in Int /\ now[p] <= all[p]
    BY <1>5
  <2>3. \A f, g : /\ \A p \in Product : f[p] \in Int /\ g[p] \in Int /\ f[p] <= g[p]
                  /\ SumFunctionOnSet(f, Product) >= SumFunctionOnSet(g, Product)
                  => \A p \in Product : f[p] = g[p]
    BY Constants, SumLeq
  <2>4. \A p \in Product : now[p] = all[p]
    <3> HIDE DEF now, all
    <3> QED BY <2>1, <2>2, <2>3
  <2>5. \A p \in Product : shippedQty'[o][p] = Ordered[o][p]
    BY <1>5, <2>4
  <2> QED BY <1>4, <2>5, OrderAssumption
<1>7. status'[o] # "DELIVERED" /\ (status'[o] = "SHIPPED" => shippedQty'[o] = Ordered[o])
  BY <1>4, <1>6 DEF ShipStatus
<1> QED BY <1>5, <1>7 DEF Shipped

LEMMA ShippedStep ==
  ASSUME HistoryInv, [MCNext]_<<vars, overlapped>>, NEW o \in Order \ overlapped'
  PROVE  Shipped(o)'
<1>1. [Next]_vars /\ TypeInv /\ Orderly(o)
  BY Basics
<1>2. CASE \E c \in Clerk : WriteShipped(c) /\ job[c].order = o
  BY <1>2, ShipsRest
<1>3. CASE \A c \in Clerk : WriteShipped(c) => job[c].order # o
  <2>1. reservation'[o] = reservation[o] /\ shippedQty'[o] = shippedQty[o]
    <3>1. ASSUME NEW c \in Clerk, WriteShipped(c), job[c].order # o
          PROVE  reservation'[o] = reservation[o] /\ shippedQty'[o] = shippedQty[o]
      BY <1>1, <3>1 DEF WriteShipped, TypeInv, TypeOK
    <3> QED BY <1>1, <1>3, <3>1, Writers DEF stock
  <2>2. ASSUME NEW c \in Clerk, WriteDelivered(c), job[c].order = o
        PROVE  Shipped(o)'
    <3>1. status[o] = "SHIPPED" /\ shippedQty[o] = Ordered[o]
      BY <1>1, <2>2 DEF WriteDelivered, Finish, Continue, Orderly, UpToDate, Shipped
    <3>2. \A s \in shipments' : s.order = o => s.status = "DELIVERED"
      <4>1. \A s \in shipments : Arrived(s).order = s.order /\ Arrived(s).status = "DELIVERED"
        BY <1>1 DEF Arrived, TypeInv, TypeOK
      <4> QED BY <2>2, <4>1 DEF WriteDelivered
    <3> QED BY <1>1, <2>1, <3>1, <3>2 DEF Orderly, Shipped
  <2>3. ASSUME NEW c \in Clerk,
               \/ WriteStart(c) /\ job[c].order = o
               \/ WriteStatus(c) /\ job[c].order = o
               \/ WritePacked(c) /\ job[c].order = o
        PROVE  Shipped(o)'
    <3>1. status'[o] \notin {"SHIPPED", "DELIVERED"}
      <4>1. ASSUME WriteStatus(c) PROVE job[c].status \in {"PICKED", "PARTIALLY_PICKED"}
        BY <1>1, <4>1 DEF WriteStatus, Finish, Continue, TypeInv, Carried
      <4> QED BY <1>1, <2>3, <4>1 DEF WriteStart, WriteStatus, WritePacked, TypeInv, TypeOK
    <3> QED BY <1>1, <2>1, <3>1 DEF Orderly, Shipped
  <2>4. ASSUME status'[o] = status[o],
               \A s \in shipments' : s.order = o => s \in shipments
        PROVE  Shipped(o)'
    BY <1>1, <2>1, <2>4 DEF Orderly, Shipped
  <2>5. ASSUME NEW c \in Clerk, job[c].order # o,
               WriteStart(c) \/ WriteStatus(c) \/ WritePacked(c) \/ WriteShipped(c) \/ WriteDelivered(c)
        PROVE  /\ status'[o] = status[o]
               /\ \A s \in shipments' : s.order = o => s \in shipments
    <3>1. status'[o] = status[o]
      BY <1>1, <2>5 DEF WriteStart, WriteStatus, WritePacked, WriteShipped, WriteDelivered, TypeInv, TypeOK
    <3>2. \A s \in shipments : Arrived(s).order = s.order
      BY <1>1 DEF Arrived, TypeInv, TypeOK
    <3>3. \A s \in shipments' : s.order = o => s \in shipments
      BY <2>5, <3>2 DEF WriteStart, WriteStatus, WritePacked, WriteShipped, WriteDelivered
    <3> QED BY <3>1, <3>3
  <2> QED BY <1>1, <1>3, <2>2, <2>3, <2>4, <2>5, StatusWriters
<1> QED BY <1>2, <1>3

LEMMA HistoryStep == HistoryInv /\ [MCNext]_<<vars, overlapped>> => HistoryInv'
<1> SUFFICES ASSUME HistoryInv, [MCNext]_<<vars, overlapped>> PROVE HistoryInv'
  OBVIOUS
<1>1. WithinInv'
  BY WithinStep DEF HistoryInv, MCNext
<1>2. ASSUME NEW o \in Order \ overlapped' PROVE Orderly(o)'
  BY Basics, UpToDateStep, ListsStep, ShippedStep DEF Orderly
<1> QED BY <1>1, <1>2 DEF HistoryInv

(* As long as requests take turns on an order, what has not been shipped   *)
(* of it is still reserved: shipping releases what it ships and no more.   *)
THEOREM UnshippedStaysReserved == MCSpec => []UnshippedIsReserved
<1>1. HistoryInv => UnshippedIsReserved
  BY DEF HistoryInv, Orderly, Shipped, UnshippedIsReserved
<1> QED BY <1>1, HistoryInit, HistoryStep, PTL DEF MCSpec

(* As long as requests take turns on an order, it is SHIPPED or DELIVERED  *)
(* only when every line is shipped in full, and what belongs to a          *)
(* DELIVERED order has arrived.                                            *)
THEOREM NotShippedShort == MCSpec => []ShippedInFull
<1>1. HistoryInv => ShippedInFull
  BY DEF HistoryInv, Orderly, Shipped, ShippedInFull
<1> QED BY <1>1, HistoryInit, HistoryStep, PTL DEF MCSpec

=============================================================================
