-------------------------- MODULE MCAccountingSync --------------------------
(* A small instance of AccountingSync and InvoicePayments for TLC.         *)
EXTENDS AccountingSync, FiniteSets, TLC

CONSTANTS c1, c2, g1, inv, pay1, pay2, w1, w2, l1, l2

(* One invoice, paid in full by two payments of 1.                         *)
MCInvoiceOf == [p \in Payment |-> inv]
MCTotal == inv :> 2

Symmetry == Permutations({c1, c2}) \cup Permutations({pay1, pay2})
              \cup Permutations({w1, w2}) \cup Permutations({l1, l2})

-----------------------------------------------------------------------------
(* History: the invoices that had two payments recorded at a time, or      *)
(* whose status was posted from a page older than it; and the documents    *)
(* that two jobs pushed at a time, or whose push was not logged.           *)
VARIABLES raced, doubtful

PaidTwiceAtATime(i) ==
  \E c, d \in Clerk : c # d /\ \A x \in {c, d} : paying'[x] # NoPayment /\ InvoiceOf[paying'[x]] = i
PostedFromOldPage(i) ==
  \E g \in Page : page[g] = i /\ page'[g] = NoInvoice /\ shown[g] # status[i]

PushedTwiceAtATime(d) == \E v, w \in Worker : v # w /\ \A x \in {v, w} : d \in todo'[x] \cup {doc'[x]}
NotLogged(d) == books'[d] > 0 /\ d \notin synced' /\ \A w \in Worker : ~(doc'[w] = d /\ phase'[w] = "log")

MCInit == Init /\ raced = {} /\ doubtful = {}

MCNext ==
  /\ Next
  /\ raced' = raced \cup {i \in Invoice : PaidTwiceAtATime(i) \/ PostedFromOldPage(i)}
  /\ doubtful' = doubtful \cup {d \in Doc : PushedTwiceAtATime(d) \/ NotLogged(d)}

MCSpec == MCInit /\ [][MCNext]_<<vars, raced, doubtful>>

(* An invoice whose payments cover it says that it is paid: recording the  *)
(* payments of an invoice moves it to PAID, in one payment or in several.  *)
FullyPaidIsPaid ==
  \A i \in Invoice \ raced : paid[i] > 0 /\ paid[i] >= Total[i] => status[i] = "PAID"

(* However often a sync is triggered, replayed or run again, a document is *)
(* pushed once.                                                            *)
PushedOnce == \A d \in Doc \ doubtful : books[d] <= 1
=============================================================================
