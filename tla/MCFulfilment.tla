---------------------------- MODULE MCFulfilment ----------------------------
(* A small instance of Fulfilment for TLC.                                 *)
EXTENDS Fulfilment, TLC

CONSTANTS c1, c2, so1, desk, lamp, near, single

(* One order: a desk and a lamp. *)
MCOrdered == so1 :> (desk :> 1 @@ lamp :> 1)
MCOrderOf == near :> so1 @@ single :> so1
MCProductOf == near :> desk @@ single :> lamp
MCQuantityOf == near :> 1 @@ single :> 1

(* The first clerk does everything, the second one packs and ships.        *)
MCDuty == c1 :> Task @@ c2 :> {"pack", "ship"}

(* History: the orders two requests worked on at a time.                   *)
VARIABLE overlapped

MCInit == Init /\ overlapped = {}

MCNext ==
  /\ Next
  /\ overlapped' = overlapped \cup
       {o \in Order : \E c, d \in Clerk : /\ c # d
                                          /\ \A x \in {c, d} : pc'[x] # "idle" /\ job'[x].order = o}

MCSpec == MCInit /\ [][MCNext]_<<vars, overlapped>>

(* Shipping releases the reservation of what it ships and no more: what    *)
(* has not been shipped is still reserved, unless two requests worked on   *)
(* the order at a time.                                                    *)
UnshippedIsReserved ==
  \A o \in Order \ overlapped, p \in Product :
    reservation[o][p] + shippedQty[o][p] = Ordered[o][p]

(* An order is not SHIPPED, nor DELIVERED, before every line is shipped in *)
(* full; and what belongs to a DELIVERED order has arrived.                *)
ShippedInFull ==
  \A o \in Order \ overlapped :
    /\ status[o] \in {"SHIPPED", "DELIVERED"} => shippedQty[o] = Ordered[o]
    /\ status[o] = "DELIVERED" => \A s \in shipments : s.order = o => s.status = "DELIVERED"
=============================================================================
