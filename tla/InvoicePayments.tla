--------------------------- MODULE InvoicePayments ---------------------------
(***************************************************************************)
(* Invoices, the payments recorded against them and the status that        *)
(* follows: recordPayment of apps/api/src/domain/stockops-api.service.ts   *)
(* and of apps/web/src/lib/repository.ts, which do the same, and the       *)
(* status form of the web application.                                     *)
(*                                                                         *)
(* recordPayment runs in one transaction that reads the invoice and its    *)
(* payments without a row lock and writes last: the reads are one step,    *)
(* the writes and the commit another, for the update locks the row.  A     *)
(* page shows the status of the invoice when it was rendered, and its form *)
(* is posted at any later time.                                            *)
(***************************************************************************)
EXTENDS Naturals

CONSTANTS Clerk,       \* who records payments, one at a time each
          Page,        \* the pages that show an invoice in a browser
          Invoice,
          Payment,     \* bound: the Payment rows there may be
          InvoiceOf,   \* the invoice of each payment
          Total,       \* of each invoice
          Amount,      \* the amounts a payment may have
          NoPayment, NoInvoice

ASSUME InvoiceOfAssumption == InvoiceOf \in [Payment -> Invoice]
ASSUME TotalAssumption == Total \in [Invoice -> Nat]
ASSUME AmountAssumption == Amount \subseteq Nat \ {0}
ASSUME NoPaymentAssumption == NoPayment \notin Payment
ASSUME NoInvoiceAssumption == NoInvoice \notin Invoice

VARIABLES status,      \* Invoice.status, "none" before the invoice is created
          recorded,    \* the Payment rows
          paid,        \* what the rows of each invoice add up to
          paying,      \* the payment each clerk's transaction is to record
          amount,      \* its amount
          readPaid,    \* the sum of the payments the transaction has read
          readStatus,  \* the status it has read
          page,        \* the invoice that each page shows
          shown        \* its status when the page was rendered

transactions == <<paying, amount, readPaid, readStatus>>
pages == <<page, shown>>
billing == <<status, recorded, paid, transactions, pages>>

-----------------------------------------------------------------------------
Status == {"DRAFT", "SENT", "PARTIALLY_PAID", "PAID", "CANCELLED"}

BillingTypeOK ==
  /\ status \in [Invoice -> Status \cup {"none"}]
  /\ recorded \subseteq Payment
  /\ paid \in [Invoice -> Nat]
  /\ paying \in [Clerk -> Payment \cup {NoPayment}]
  /\ amount \in [Clerk -> Nat]
  /\ readPaid \in [Clerk -> Nat]
  /\ readStatus \in [Clerk -> Status \cup {"none"}]
  /\ page \in [Page -> Invoice \cup {NoInvoice}]
  /\ shown \in [Page -> Status \cup {"none"}]

BillingInit ==
  /\ status = [i \in Invoice |-> "none"]
  /\ recorded = {}
  /\ paid = [i \in Invoice |-> 0]
  /\ paying = [c \in Clerk |-> NoPayment]
  /\ amount = [c \in Clerk |-> 0]
  /\ readPaid = [c \in Clerk |-> 0]
  /\ readStatus = [c \in Clerk |-> "none"]
  /\ page = [g \in Page |-> NoInvoice]
  /\ shown = [g \in Page |-> "none"]

-----------------------------------------------------------------------------
(* The unique code may refuse the row: nothing changes then.               *)
CreateInvoice(i) ==
  /\ status[i] = "none"
  /\ status' = [status EXCEPT ![i] = "DRAFT"]
  /\ UNCHANGED <<recorded, paid, transactions, pages>>

(* recordPayment: the transaction reads. *)
ReadInvoice(c, p, a) ==
  /\ paying[c] = NoPayment
  /\ p \notin recorded
  /\ \A d \in Clerk : paying[d] # p
  /\ status[InvoiceOf[p]] # "none"
  /\ paying' = [paying EXCEPT ![c] = p]
  /\ amount' = [amount EXCEPT ![c] = a]
  /\ readPaid' = [readPaid EXCEPT ![c] = paid[InvoiceOf[p]]]
  /\ readStatus' = [readStatus EXCEPT ![c] = status[InvoiceOf[p]]]
  /\ UNCHANGED <<status, recorded, paid, pages>>

EndTransaction(c) ==
  /\ paying' = [paying EXCEPT ![c] = NoPayment]
  /\ amount' = [amount EXCEPT ![c] = 0]
  /\ readPaid' = [readPaid EXCEPT ![c] = 0]
  /\ readStatus' = [readStatus EXCEPT ![c] = "none"]
  /\ UNCHANGED pages

TotalPaid(c) == readPaid[c] + amount[c]

(* Mutant: any payment pays the invoice.                                   *)
PaidByAny(c) == IF TotalPaid(c) > 0 THEN "PAID" ELSE readStatus[c]

(* Mutant: the payment of this transaction does not count.                 *)
PaidBefore(c) ==
  IF readPaid[c] >= Total[InvoiceOf[paying[c]]] THEN "PAID"
  ELSE IF TotalPaid(c) > 0 THEN "PARTIALLY_PAID" ELSE readStatus[c]

NewStatus(c) ==
  IF TotalPaid(c) >= Total[InvoiceOf[paying[c]]] THEN "PAID"
  ELSE IF TotalPaid(c) > 0 THEN "PARTIALLY_PAID" ELSE readStatus[c]

(* The status is written only if it differs from the one that was read.    *)
RecordPayment(c) ==
  LET i == InvoiceOf[paying[c]]
  IN /\ paying[c] # NoPayment
     /\ recorded' = recorded \cup {paying[c]}
     /\ paid' = [paid EXCEPT ![i] = @ + amount[c]]
     /\ status' = IF NewStatus(c) # readStatus[c] THEN [status EXCEPT ![i] = NewStatus(c)]
                  ELSE status
     /\ EndTransaction(c)

Rollback(c) ==
  /\ paying[c] # NoPayment
  /\ EndTransaction(c)
  /\ UNCHANGED <<status, recorded, paid>>

(* The status form. *)
Offered(s) ==
  IF s = "DRAFT" THEN {"SENT", "CANCELLED"} ELSE IF s = "SENT" THEN {"CANCELLED"} ELSE {}

OpenPage(g, i) ==
  /\ Offered(status[i]) # {}
  /\ page' = [page EXCEPT ![g] = i]
  /\ shown' = [shown EXCEPT ![g] = status[i]]
  /\ UNCHANGED <<status, recorded, paid, transactions>>

(* transitionInvoiceStatus writes what the form offers, whatever the       *)
(* status is by now.                                                       *)
TransitionInvoiceStatus(g) ==
  /\ page[g] # NoInvoice
  /\ \E target \in Offered(shown[g]) : status' = [status EXCEPT ![page[g]] = target]
  /\ page' = [page EXCEPT ![g] = NoInvoice]
  /\ shown' = [shown EXCEPT ![g] = "none"]
  /\ UNCHANGED <<recorded, paid, transactions>>

BillingNext ==
  \/ \E i \in Invoice : CreateInvoice(i)
  \/ \E c \in Clerk : \/ \E p \in Payment, a \in Amount : ReadInvoice(c, p, a)
                      \/ RecordPayment(c) \/ Rollback(c)
  \/ \E g \in Page : TransitionInvoiceStatus(g) \/ \E i \in Invoice : OpenPage(g, i)

BillingSpec == BillingInit /\ [][BillingNext]_billing

-----------------------------------------------------------------------------
(* An invoice that says it is paid is covered by its payments, and one     *)
(* that says it is partly paid has a payment: also when two transactions   *)
(* decide from the same sum, and whatever the status form does in between. *)
StatusIsEarned ==
  \A i \in Invoice : /\ status[i] = "PAID" => paid[i] >= Total[i]
                     /\ status[i] = "PARTIALLY_PAID" => paid[i] > 0

=============================================================================
