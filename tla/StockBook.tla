------------------------------ MODULE StockBook ------------------------------
(***************************************************************************)
(* What the stock tables promise to a reader: the abstract specification   *)
(* of StockTransactions.  There are no requests, locks or phases here: the *)
(* books change by whole postings, and a posting takes from a row only     *)
(* what was available in it.  It is written as a relation between the      *)
(* books before and after, so that it says nothing of who posts.           *)
(***************************************************************************)
EXTENDS Integers

CONSTANT Key           \* the tuples (product, warehouse)

VARIABLES onHand, reserved, available,   \* the StockBalance row of a tuple
          ledger,                        \* sum of its StockMovement rows
          held                           \* sum of its StockReservation rows

books == <<onHand, reserved, available, ledger, held>>

Agree ==
  \A k \in Key : /\ onHand[k] = ledger[k]
                 /\ reserved[k] = held[k]
                 /\ available[k] = onHand[k] - reserved[k]

Init ==
  /\ Agree
  /\ \A k \in Key : onHand[k] >= 0 /\ reserved[k] = 0

(* Stock leaves a row only if it was available there, and a reservation is *)
(* made for exactly what leaves.                                           *)
Taken(k) == onHand[k] - onHand'[k]
Reserved(k) == reserved'[k] - reserved[k]

Post ==
  /\ Agree'
  /\ \A k \in Key : /\ Taken(k) > 0 => Taken(k) <= available[k]
                    /\ Reserved(k) \in {0, Taken(k)}

Spec == Init /\ [][Post]_books
=============================================================================
