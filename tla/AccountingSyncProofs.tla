------------------------ MODULE AccountingSyncProofs ------------------------
(***************************************************************************)
(* Proofs about InvoicePayments and AccountingSync, and about the history  *)
(* that MCAccountingSync keeps of them.                                    *)
(***************************************************************************)
EXTENDS MCAccountingSync, TLAPS

-----------------------------------------------------------------------------
(* Invoices and payments.                                                  *)

(* A transaction that is to record a payment has read a sum that the       *)
(* payments cannot fall below any more.                                    *)
InHand ==
  \A c \in Clerk : paying[c] # NoPayment =>
    amount[c] > 0 /\ readPaid[c] <= paid[InvoiceOf[paying[c]]]

BillingInv == BillingTypeOK /\ InHand /\ StatusIsEarned

LEMMA BillingInitial == BillingInit => BillingInv
  BY TotalAssumption, InvoiceOfAssumption
     DEF BillingInit, BillingInv, BillingTypeOK, InHand, StatusIsEarned, Status

(* What a decision of recordPayment says of the sum it was made from.      *)
LEMMA StatusDecided ==
  ASSUME BillingInv, NEW c \in Clerk, paying[c] # NoPayment
  PROVE  LET i == InvoiceOf[paying[c]]
         IN /\ i \in Invoice
            /\ NewStatus(c) \in {"PAID", "PARTIALLY_PAID"}
            /\ paid[i] + amount[c] \in Nat
            /\ paid[i] + amount[c] > 0
            /\ NewStatus(c) = "PAID" => paid[i] + amount[c] >= Total[i]
<1> DEFINE i == InvoiceOf[paying[c]]
<1>1. /\ paying[c] \in Payment
      /\ i \in Invoice
      /\ amount[c] \in Nat /\ readPaid[c] \in Nat /\ paid[i] \in Nat
      /\ amount[c] > 0 /\ readPaid[c] <= paid[i]
      /\ Total[i] \in Nat
  BY TotalAssumption, InvoiceOfAssumption DEF BillingInv, BillingTypeOK, InHand
<1>2. QED
  BY <1>1 DEF NewStatus, TotalPaid

LEMMA BillingStep == BillingInv /\ [BillingNext]_billing => BillingInv'
<1> SUFFICES ASSUME BillingInv, [BillingNext]_billing
             PROVE  BillingInv'
  OBVIOUS
<1> USE DEF BillingInv
<1>1. CASE UNCHANGED billing
  BY <1>1 DEF BillingTypeOK, InHand, StatusIsEarned, billing, transactions, pages
<1>2. ASSUME NEW i \in Invoice, CreateInvoice(i)
      PROVE  BillingInv'
  BY <1>2 DEF CreateInvoice, BillingTypeOK, InHand, StatusIsEarned, Status, transactions, pages
<1>3. ASSUME NEW g \in Page, NEW i \in Invoice, OpenPage(g, i)
      PROVE  BillingInv'
  BY <1>3 DEF OpenPage, BillingTypeOK, InHand, StatusIsEarned, transactions
<1>4. ASSUME NEW c \in Clerk, NEW p \in Payment, NEW a \in Amount, ReadInvoice(c, p, a)
      PROVE  BillingInv'
  <2>1. a \in Nat /\ a > 0 /\ InvoiceOf[p] \in Invoice
    BY AmountAssumption, InvoiceOfAssumption
  <2>2. BillingTypeOK'
    BY <1>4, <2>1 DEF ReadInvoice, BillingTypeOK, pages
  <2>3. InHand'
    BY <1>4, <2>1, InvoiceOfAssumption DEF ReadInvoice, BillingTypeOK, InHand
  <2>4. QED
    BY <1>4, <2>2, <2>3 DEF ReadInvoice, StatusIsEarned
<1>5. ASSUME NEW c \in Clerk, RecordPayment(c)
      PROVE  BillingInv'
  <2> DEFINE i == InvoiceOf[paying[c]]
  <2>1. /\ paying[c] # NoPayment
        /\ paying[c] \in Payment
        /\ recorded' = recorded \cup {paying[c]}
        /\ paid' = [paid EXCEPT ![i] = paid[i] + amount[c]]
        /\ status' = IF NewStatus(c) # readStatus[c] THEN [status EXCEPT ![i] = NewStatus(c)]
                     ELSE status
        /\ EndTransaction(c)
    BY <1>5 DEF RecordPayment, BillingTypeOK
  <2>2. /\ i \in Invoice
        /\ NewStatus(c) \in {"PAID", "PARTIALLY_PAID"}
        /\ paid[i] + amount[c] \in Nat
        /\ paid[i] + amount[c] > 0
        /\ NewStatus(c) = "PAID" => paid[i] + amount[c] >= Total[i]
    BY <2>1, StatusDecided
  <2>3. amount[c] \in Nat /\ paid \in [Invoice -> Nat] /\ status \in [Invoice -> Status \cup {"none"}]
    BY DEF BillingTypeOK
  <2> HIDE DEF i
  <2>4. paid' \in [Invoice -> Nat] /\ \A j \in Invoice : paid[j] <= paid'[j]
    BY <2>1, <2>2, <2>3
  <2>5. status' \in [Invoice -> Status \cup {"none"}]
    BY <2>1, <2>2, <2>3 DEF Status
  <2>6. BillingTypeOK'
    BY <2>1, <2>4, <2>5 DEF BillingTypeOK, EndTransaction, pages
  <2>7. InHand'
    <3> SUFFICES ASSUME NEW d \in Clerk, paying'[d] # NoPayment
                 PROVE  amount'[d] > 0 /\ readPaid'[d] <= paid'[InvoiceOf[paying'[d]]]
      BY DEF InHand
    <3>1. d # c /\ paying'[d] = paying[d] /\ amount'[d] = amount[d] /\ readPaid'[d] = readPaid[d]
      BY <2>1 DEF EndTransaction, BillingTypeOK
    <3>2. InvoiceOf[paying[d]] \in Invoice /\ amount[d] > 0 /\ readPaid[d] <= paid[InvoiceOf[paying[d]]]
      BY <3>1, InvoiceOfAssumption DEF InHand, BillingTypeOK
    <3>3. readPaid[d] \in Nat /\ paid[InvoiceOf[paying[d]]] \in Nat /\ paid'[InvoiceOf[paying[d]]] \in Nat
      BY <3>2, <2>3, <2>4 DEF BillingTypeOK
    <3>4. QED
      BY <3>1, <3>2, <3>3, <2>4
  <2>8. StatusIsEarned'
    <3> SUFFICES ASSUME NEW j \in Invoice
                 PROVE  /\ status'[j] = "PAID" => paid'[j] >= Total[j]
                        /\ status'[j] = "PARTIALLY_PAID" => paid'[j] > 0
      BY DEF StatusIsEarned
    <3>1. Total[j] \in Nat /\ paid[j] \in Nat /\ paid'[j] \in Nat /\ paid[j] <= paid'[j]
      BY TotalAssumption, <2>3, <2>4
    <3>2. CASE status'[j] = status[j]
      BY <3>1, <3>2 DEF StatusIsEarned
    <3>3. CASE status'[j] # status[j]
      <4>1. j = i /\ status'[j] = NewStatus(c) /\ paid'[j] = paid[j] + amount[c]
        BY <3>3, <2>1, <2>2, <2>3
      <4>2. QED
        BY <4>1, <2>2
    <3>4. QED
      BY <3>2, <3>3
  <2>9. QED
    BY <2>6, <2>7, <2>8
<1>6. ASSUME NEW c \in Clerk, Rollback(c)
      PROVE  BillingInv'
  BY <1>6 DEF Rollback, EndTransaction, BillingTypeOK, InHand, StatusIsEarned, pages
<1>7. ASSUME NEW g \in Page, TransitionInvoiceStatus(g)
      PROVE  BillingInv'
  <2>1. PICK target \in Offered(shown[g]) : status' = [status EXCEPT ![page[g]] = target]
    BY <1>7 DEF TransitionInvoiceStatus
  <2>2. target \in {"SENT", "CANCELLED"}
    BY <2>1 DEF Offered
  <2>3. page[g] \in Invoice
    BY <1>7 DEF TransitionInvoiceStatus, BillingTypeOK
  <2>4. BillingTypeOK'
    BY <1>7, <2>1, <2>2, <2>3 DEF TransitionInvoiceStatus, BillingTypeOK, Status, transactions
  <2>5. StatusIsEarned'
    BY <1>7, <2>1, <2>2, <2>3 DEF TransitionInvoiceStatus, BillingTypeOK, StatusIsEarned
  <2>6. QED
    BY <1>7, <2>4, <2>5 DEF TransitionInvoiceStatus, InHand, transactions
<1>8. QED
  BY <1>1, <1>2, <1>3, <1>4, <1>5, <1>6, <1>7 DEF BillingNext

(* An invoice that says it is paid or partly paid has the payments that    *)
(* say so, for any number of concurrent requests and old pages.            *)
THEOREM StatusCorrect == BillingSpec => []StatusIsEarned
<1>1. BillingInv => StatusIsEarned
  BY DEF BillingInv
<1>2. QED
  BY BillingInitial, BillingStep, <1>1, PTL DEF BillingSpec

(* The sync does nothing to invoices and payments. *)
LEMMA BillingFrame == [Next]_vars => [BillingNext]_billing
<1> SUFFICES ASSUME [Next]_vars PROVE [BillingNext]_billing
  OBVIOUS
<1>1. CASE UNCHANGED vars
  BY <1>1 DEF vars
<1>2. CASE BillingNext
  BY <1>2
<1>3. CASE SyncNext
  BY <1>3 DEF SyncNext, TriggerSync, ReplaySyncLog, QueueLog, SkipJob, TakeJob, Claim,
     ReadUnsynced, SkipPayment, Push, PushRejected, Take, LogSuccess, LogFailure, ItemDone,
     QueryFails, FinishJob, StampConnection, RecordFailure, JobThrows, WorkerDies, Requeue
<1>4. QED
  BY <1>1, <1>2, <1>3 DEF Next

(* With the sync, the system still behaves as InvoicePayments says.        *)
THEOREM SyncLeavesBilling == Spec => BillingSpec
<1>1. Init => BillingInit
  BY DEF Init
<1>2. QED
  BY <1>1, BillingFrame, PTL DEF Spec, BillingSpec

-----------------------------------------------------------------------------
(* The sync: its types, with the log and the document that a worker has in *)
(* hand.                                                                   *)

Held ==
  \A w \in Worker : /\ phase[w] # "idle" => log[w] \in Log
                    /\ phase[w] \in {"log", "itemFailed"} => doc[w] \in Doc

SyncTypeInv == BillingInv /\ TypeOK /\ Held

LEMMA TypeInitial == Init => SyncTypeInv
<1> SUFFICES ASSUME Init PROVE SyncTypeInv
  OBVIOUS
<1>1. BillingInv /\ BillingTypeOK
  BY BillingInitial DEF Init, BillingInv
<1>2. Held
  BY DEF Init, Held
<1>3. QED
  BY <1>1, <1>2 DEF Init, SyncTypeInv, TypeOK, Doc, LogStatus, Phase, Retries, Fresh

LEMMA JobTypes ==
  /\ Fresh \in Retries
  /\ \A r \in Retries : Thrown(r) \in Retries /\ Stalled(r) \in Retries
  /\ \A l \in Log, r \in Retries : [log |-> l, retries |-> r] \in Job
  /\ \A j \in Job : j.log \in Log /\ j.retries \in Retries
  BY DEF Fresh, Retries, Thrown, Stalled, Job

LEMMA TypeStep == SyncTypeInv /\ [Next]_vars => SyncTypeInv'
<1> SUFFICES ASSUME SyncTypeInv, [Next]_vars
             PROVE  SyncTypeInv'
  OBVIOUS
<1> USE DEF SyncTypeInv
<1>1. CASE UNCHANGED vars
  <2>1. BillingInv'
    BY <1>1, BillingStep DEF vars
  <2>2. BillingTypeOK'
    BY <2>1 DEF BillingInv
  <2>3. QED
    BY <1>1, <2>1, <2>2 DEF vars, sync, ledger, logs, worker, TypeOK, Held
<1>2. CASE BillingNext /\ UNCHANGED sync
  <2>1. BillingInv'
    BY <1>2, BillingStep
  <2>2. BillingTypeOK'
    BY <2>1 DEF BillingInv
  <2>3. QED
    BY <1>2, <2>1, <2>2 DEF sync, ledger, logs, worker, TypeOK, Held
<1>3. ASSUME UNCHANGED billing
      PROVE  BillingInv' /\ BillingTypeOK'
  BY <1>3, BillingStep DEF BillingInv
<1>4. ASSUME NEW l \in Log, NEW e \in {"invoice", "payment"}, QueueLog(l, e)
      PROVE  SyncTypeInv'
  <2>1. waiting' \subseteq Job
    BY <1>4, JobTypes DEF QueueLog, TypeOK
  <2>2. QED
    BY <1>3, <1>4, <2>1 DEF QueueLog, TypeOK, Held, ledger, worker, LogStatus
<1>5. ASSUME NEW j \in waiting, SkipJob(j)
      PROVE  SyncTypeInv'
  BY <1>3, <1>5 DEF SkipJob, TypeOK, Held, ledger, logs, worker
<1>6. ASSUME NEW w \in Worker, NEW j \in waiting, TakeJob(w, j)
      PROVE  SyncTypeInv'
  <2>1. j.log \in Log /\ j.retries \in Retries /\ attempts[j.log] + 1 \in Nat
    BY JobTypes DEF TypeOK
  <2>2. QED
    BY <1>3, <1>6, <2>1 DEF TakeJob, TypeOK, Held, ledger, logs, Phase
<1>7. ASSUME NEW w \in Worker, Claim(w)
      PROVE  SyncTypeInv'
  <2>1. attempts' \in [Log -> Nat]
    BY <1>7 DEF Claim, TypeOK, Held
  <2>2. logStatus' \in [Log -> LogStatus]
    BY <1>7 DEF Claim, SetLog, TypeOK, LogStatus
  <2>3. QED
    BY <1>3, <1>7, <2>1, <2>2 DEF Claim, Proceed, TypeOK, Held, ledger, Phase
<1>8. ASSUME NEW w \in Worker, ReadUnsynced(w)
      PROVE  SyncTypeInv'
  <2>1. Candidates(entity[log[w]]) \subseteq Doc
    BY DEF Candidates, Doc, TypeOK, BillingTypeOK
  <2>2. QED
    BY <1>3, <1>8, <2>1 DEF ReadUnsynced, Proceed, TypeOK, Held, ledger, logs, Phase
<1>9. ASSUME NEW w \in Worker, NEW d \in todo[w], SkipPayment(w, d)
      PROVE  SyncTypeInv'
  BY <1>3, <1>9 DEF SkipPayment, Take, Proceed, TypeOK, Held, logs, Phase
<1>10. ASSUME NEW w \in Worker, NEW d \in todo[w], Push(w, d)
       PROVE  SyncTypeInv'
  <2>1. d \in Doc
    BY DEF TypeOK
  <2>2. PICK p \in {"log", "itemFailed"} : Take(w, d, p)
    BY <1>10 DEF Push
  <2>3. books' \in [Doc -> Nat] /\ doc' \in [Worker -> Doc \cup {NoDoc}]
    BY <1>10, <2>1 DEF Push, TypeOK
  <2>4. doc' = [doc EXCEPT ![w] = d]
    BY <1>10 DEF Push
  <2>5. Held'
    BY <2>1, <2>2, <2>4 DEF Take, Proceed, TypeOK, Held
  <2>6. TypeOK'
    BY <1>3, <2>2, <2>3 DEF Take, Proceed, TypeOK, logs, Phase
  <2>7. QED
    BY <1>3, <1>10, <2>5, <2>6 DEF Push, Take
<1>11. ASSUME NEW w \in Worker, NEW d \in todo[w], PushRejected(w, d)
       PROVE  SyncTypeInv'
  <2>1. d \in Doc
    BY DEF TypeOK
  <2>2. QED
    BY <1>3, <1>11, <2>1 DEF PushRejected, Take, Proceed, TypeOK, Held, logs, Phase
<1>12. ASSUME NEW w \in Worker, LogSuccess(w)
       PROVE  SyncTypeInv'
  BY <1>3, <1>12 DEF LogSuccess, ItemDone, Proceed, TypeOK, Held, logs, Phase
<1>13. ASSUME NEW w \in Worker, LogFailure(w)
       PROVE  SyncTypeInv'
  BY <1>3, <1>13 DEF LogFailure, ItemDone, Proceed, TypeOK, Held, logs, Phase
<1>14. ASSUME NEW w \in Worker, QueryFails(w)
       PROVE  SyncTypeInv'
  BY <1>3, <1>14 DEF QueryFails, Proceed, TypeOK, Held, ledger, logs, Phase
<1>15. ASSUME NEW w \in Worker, FinishJob(w)
       PROVE  SyncTypeInv'
  <2>1. logStatus' \in [Log -> LogStatus]
    BY <1>15 DEF FinishJob, SetLog, TypeOK, LogStatus
  <2>2. QED
    BY <1>3, <1>15, <2>1 DEF FinishJob, Proceed, TypeOK, Held, ledger, Phase
<1>16. ASSUME NEW w \in Worker, StampConnection(w)
       PROVE  SyncTypeInv'
  BY <1>3, <1>16, JobTypes DEF StampConnection, Leave, TypeOK, Held, ledger, logs, Phase
<1>17. ASSUME NEW w \in Worker, RecordFailure(w)
       PROVE  SyncTypeInv'
  <2>1. logStatus' \in [Log -> LogStatus]
    BY <1>17 DEF RecordFailure, SetLog, GivenUp, TypeOK, LogStatus
  <2>2. QED
    BY <1>3, <1>17, <2>1, JobTypes DEF RecordFailure, Leave, TypeOK, Held, ledger, Phase
<1>18. ASSUME NEW w \in Worker, NEW again \in BOOLEAN, NEW r \in Retries,
              phase[w] # "idle", Requeue(w, again, r)
       PROVE  SyncTypeInv'
  <2>1. waiting' \subseteq Job
    BY <1>18, JobTypes DEF Requeue, TypeOK, Held
  <2>2. QED
    BY <1>3, <1>18, <2>1, JobTypes DEF Requeue, Leave, TypeOK, Held, ledger, logs, Phase
<1>19. ASSUME NEW w \in Worker, JobThrows(w) \/ WorkerDies(w)
       PROVE  SyncTypeInv'
  <2>1. retries[w] \in Retries
    BY DEF TypeOK
  <2>2. phase[w] # "idle"
    BY <1>19 DEF JobThrows, WorkerDies
  <2>3. CASE JobThrows(w)
    <3>1. Thrown(retries[w]) \in Retries /\ (retries[w].thrown + 1 < JobAttempts) \in BOOLEAN
      BY <2>1, JobTypes
    <3>2. QED
      BY <1>18, <2>2, <2>3, <3>1 DEF JobThrows
  <2>4. CASE WorkerDies(w)
    <3>1. Stalled(retries[w]) \in Retries /\ (retries[w].stalled < MaxStalled) \in BOOLEAN
      BY <2>1, JobTypes
    <3>2. QED
      BY <1>18, <2>2, <2>4, <3>1 DEF WorkerDies
  <2>5. QED
    BY <1>19, <2>3, <2>4
<1>20. QED
  BY <1>1, <1>2, <1>4, <1>5, <1>6, <1>7, <1>8, <1>9, <1>10, <1>11, <1>12, <1>13, <1>14, <1>15,
     <1>17, <1>19, <1>16 DEF Next, SyncNext, TriggerSync, ReplaySyncLog, TypeOK

(* The sync's state has its types, whatever fails.                         *)
THEOREM TypeCorrect == Spec => []TypeOK
<1>1. SyncTypeInv => TypeOK
  BY DEF SyncTypeInv
<1>2. QED
  BY TypeInitial, TypeStep, <1>1, PTL DEF Spec

-----------------------------------------------------------------------------
(* What has been pushed.                                                   *)

Known(d) == d \in recorded \/ (d \in Invoice /\ status[d] # "none")

PushInv ==
  /\ \A w \in Worker : /\ \A d \in todo[w] : Known(d)
                       /\ phase[w] = "log" => books[doc[w]] > 0
  /\ SyncedIsPushed
  /\ PaymentAfterInvoice

LEMMA PushInitial == Init => PushInv
  BY InvoiceOfAssumption DEF Init, PushInv, SyncedIsPushed, PaymentAfterInvoice, Doc

(* Nothing that billing does makes a document unknown again.               *)
LEMMA KnownStays ==
  ASSUME SyncTypeInv, [BillingNext]_billing, NEW d, Known(d)
  PROVE  Known(d)'
<1> USE DEF Known
<1>1. CASE UNCHANGED billing
  BY <1>1 DEF billing
<1>2. ASSUME NEW i \in Invoice, CreateInvoice(i)
      PROVE  Known(d)'
  BY <1>2 DEF CreateInvoice, SyncTypeInv, TypeOK, BillingTypeOK
<1>3. ASSUME NEW g \in Page, NEW i \in Invoice, OpenPage(g, i)
      PROVE  Known(d)'
  BY <1>3 DEF OpenPage
<1>4. ASSUME NEW c \in Clerk, NEW p \in Payment, NEW a \in Amount, ReadInvoice(c, p, a)
      PROVE  Known(d)'
  BY <1>4 DEF ReadInvoice
<1>5. ASSUME NEW c \in Clerk, RecordPayment(c)
      PROVE  Known(d)'
  <2>1. paying[c] # NoPayment
    BY <1>5 DEF RecordPayment
  <2>2. NewStatus(c) # "none"
    BY <2>1, StatusDecided DEF SyncTypeInv
  <2>3. QED
    BY <1>5, <2>2 DEF RecordPayment, SyncTypeInv, TypeOK, BillingTypeOK
<1>6. ASSUME NEW c \in Clerk, Rollback(c)
      PROVE  Known(d)'
  BY <1>6 DEF Rollback
<1>7. ASSUME NEW g \in Page, TransitionInvoiceStatus(g)
      PROVE  Known(d)'
  <2>1. PICK target \in Offered(shown[g]) : status' = [status EXCEPT ![page[g]] = target]
    BY <1>7 DEF TransitionInvoiceStatus
  <2>2. target # "none"
    BY <2>1 DEF Offered
  <2>3. QED
    BY <1>7, <2>1, <2>2 DEF TransitionInvoiceStatus, SyncTypeInv, TypeOK, BillingTypeOK
<1>8. QED
  BY <1>1, <1>2, <1>3, <1>4, <1>5, <1>6, <1>7 DEF BillingNext

LEMMA PushStep ==
  SyncTypeInv /\ PushInv /\ [Next]_vars => PushInv'
<1> SUFFICES ASSUME SyncTypeInv, PushInv, [Next]_vars
             PROVE  PushInv'
  OBVIOUS
<1> USE DEF PushInv
<1>1. ASSUME [BillingNext]_billing, UNCHANGED sync
      PROVE  PushInv'
  <2>1. \A d : Known(d) => Known(d)'
    BY <1>1, KnownStays
  <2>2. SyncedIsPushed' /\ \A w \in Worker : \A d \in todo'[w] : Known(d)'
    BY <1>1, <2>1 DEF SyncedIsPushed, Known, sync, ledger, worker
  <2>3. QED
    BY <1>1, <2>2 DEF PaymentAfterInvoice, sync, ledger, worker
<1>2. ASSUME UNCHANGED <<billing, ledger, phase, todo, doc>>
      PROVE  PushInv'
  BY <1>2 DEF Known, SyncedIsPushed, PaymentAfterInvoice, billing, ledger
<1>3. ASSUME NEW w \in Worker, UNCHANGED <<billing, ledger, doc>>,
             \E p \in Phase \ {"log"} : phase' = [phase EXCEPT ![w] = p],
             UNCHANGED todo \/ todo' = [todo EXCEPT ![w] = Candidates(entity[log[w]]) \ synced]
      PROVE  PushInv'
  <2>1. \A d \in Candidates(entity[log[w]]) : Known(d)
    BY DEF Candidates, Known
  <2>2. \A v \in Worker : \A d \in todo'[v] : Known(d)'
    BY <1>3, <2>1 DEF Known, billing, SyncTypeInv, TypeOK
  <2>3. \A v \in Worker : phase'[v] = "log" => phase[v] = "log"
    BY <1>3 DEF SyncTypeInv, TypeOK
  <2>4. QED
    BY <1>3, <2>2, <2>3 DEF SyncedIsPushed, PaymentAfterInvoice, billing, ledger
<1>4. ASSUME NEW w \in Worker, NEW d \in todo[w], SkipPayment(w, d) \/ PushRejected(w, d)
      PROVE  PushInv'
  <2>1. /\ UNCHANGED <<billing, books, synced>>
        /\ \A v \in Worker : /\ todo'[v] \subseteq todo[v]
                             /\ phase'[v] = "log" => phase[v] = "log" /\ v # w
                             /\ v # w => doc'[v] = doc[v]
    BY <1>4 DEF SkipPayment, PushRejected, Take, Proceed, SyncTypeInv, TypeOK
  <2>2. QED
    BY <2>1 DEF Known, SyncedIsPushed, PaymentAfterInvoice, billing
<1>5. ASSUME NEW w \in Worker, NEW d \in todo[w], Push(w, d)
      PROVE  PushInv'
  <2>1. d \in Doc /\ Known(d) /\ books \in [Doc -> Nat] /\ synced \subseteq Doc
    BY DEF SyncTypeInv, TypeOK
  <2>2. /\ UNCHANGED <<billing, synced>>
        /\ books' = [books EXCEPT ![d] = books[d] + 1]
        /\ doc' = [doc EXCEPT ![w] = d]
        /\ phase[w] = "push"
        /\ \E p \in {"log", "itemFailed"} : phase' = [phase EXCEPT ![w] = p]
        /\ todo' = [todo EXCEPT ![w] = todo[w] \ {d}]
        /\ Ready(d)
    BY <1>5 DEF Push, Take, Proceed
  <2>3. books'[d] > 0 /\ \A x \in Doc : x # d => books'[x] = books[x]
    BY <2>1, <2>2
  <2>4. \A v \in Worker : /\ todo'[v] \subseteq todo[v]
                          /\ v = w => doc'[v] = d
                          /\ v # w => doc'[v] = doc[v] /\ phase'[v] = phase[v]
    BY <2>2 DEF SyncTypeInv, TypeOK
  <2>5. \A v \in Worker : phase'[v] = "log" => books'[doc'[v]] > 0
    <3> SUFFICES ASSUME NEW v \in Worker, phase'[v] = "log"
                 PROVE  books'[doc'[v]] > 0
      OBVIOUS
    <3>1. CASE v = w
      BY <3>1, <2>3, <2>4
    <3>2. CASE v # w
      <4>1. doc'[v] = doc[v] /\ doc[v] \in Doc /\ books[doc[v]] > 0
        BY <3>2, <2>4 DEF SyncTypeInv, Held
      <4>2. QED
        BY <4>1, <2>3
    <3>3. QED
      BY <3>1, <3>2
  <2>6. SyncedIsPushed'
    BY <2>1, <2>2, <2>3 DEF SyncedIsPushed, Known, billing
  <2>7. PaymentAfterInvoice'
    <3> SUFFICES ASSUME NEW p \in Payment, books'[p] > 0
                 PROVE  books'[InvoiceOf[p]] > 0
      BY DEF PaymentAfterInvoice
    <3>1. InvoiceOf[p] \in Doc /\ p \in Doc
      BY InvoiceOfAssumption DEF Doc
    <3>2. books[InvoiceOf[p]] > 0
      <4>1. CASE p = d
        BY <4>1, <3>1, <2>2 DEF Ready, SyncedIsPushed
      <4>2. CASE p # d
        BY <4>2, <3>1, <2>3 DEF PaymentAfterInvoice
      <4>3. QED
        BY <4>1, <4>2
    <3>3. QED
      BY <3>1, <3>2, <2>3
  <2>8. QED
    BY <2>2, <2>4, <2>5, <2>6, <2>7 DEF Known, billing
<1>6. ASSUME NEW w \in Worker, LogSuccess(w) \/ LogFailure(w)
      PROVE  PushInv'
  <2>1. /\ UNCHANGED <<billing, books, todo>>
        /\ synced' = synced \/ (synced' = synced \cup {doc[w]} /\ phase[w] = "log")
        /\ \A v \in Worker : /\ phase'[v] = "log" => phase[v] = "log" /\ v # w
                             /\ v # w => doc'[v] = doc[v]
    BY <1>6 DEF LogSuccess, LogFailure, ItemDone, Proceed, SyncTypeInv, TypeOK
  <2>2. QED
    BY <2>1 DEF Known, SyncedIsPushed, PaymentAfterInvoice, billing
<1>7. ASSUME NEW w \in Worker, UNCHANGED <<billing, ledger>>, todo' = [todo EXCEPT ![w] = {}],
             doc' = [doc EXCEPT ![w] = NoDoc],
             \E p \in Phase \ {"log"} : phase' = [phase EXCEPT ![w] = p]
      PROVE  PushInv'
  <2>1. \A v \in Worker : /\ todo'[v] \subseteq todo[v]
                          /\ phase'[v] = "log" => phase[v] = "log" /\ v # w
                          /\ v # w => doc'[v] = doc[v]
    BY <1>7 DEF SyncTypeInv, TypeOK
  <2>2. QED
    BY <1>7, <2>1 DEF Known, SyncedIsPushed, PaymentAfterInvoice, billing, ledger
<1>8. ASSUME NEW w \in Worker, QueryFails(w)
      PROVE  PushInv'
  <2>1. CASE Proceed(w, "itemFailed") /\ UNCHANGED <<todo, doc>>
    BY <1>3, <1>8, <2>1 DEF QueryFails, Proceed, Phase
  <2>2. CASE /\ Proceed(w, "catch")
             /\ todo' = [todo EXCEPT ![w] = {}]
             /\ doc' = [doc EXCEPT ![w] = NoDoc]
    BY <1>7, <1>8, <2>2 DEF QueryFails, Proceed, Phase
  <2>3. QED
    BY <1>8, <2>1, <2>2 DEF QueryFails
<1>9. ASSUME NEW w \in Worker, NEW j \in waiting, TakeJob(w, j)
       PROVE  PushInv'
  BY <1>3, <1>9 DEF TakeJob, Phase
<1>10. ASSUME NEW w \in Worker, Claim(w) \/ ReadUnsynced(w) \/ FinishJob(w)
       PROVE  PushInv'
  BY <1>3, <1>10 DEF Claim, ReadUnsynced, FinishJob, Proceed, Phase
<1>11. ASSUME NEW w \in Worker, StampConnection(w) \/ RecordFailure(w) \/ JobThrows(w) \/ WorkerDies(w)
       PROVE  PushInv'
  BY <1>7, <1>11 DEF StampConnection, RecordFailure, JobThrows, WorkerDies, Requeue, Leave, Phase
<1>12. ASSUME NEW l \in Log, NEW e \in {"invoice", "payment"}, QueueLog(l, e)
       PROVE  PushInv'
  BY <1>2, <1>12 DEF QueueLog, worker
<1>13. ASSUME NEW j \in waiting, SkipJob(j)
       PROVE  PushInv'
  BY <1>2, <1>13 DEF SkipJob, worker
<1>14. CASE UNCHANGED vars
  BY <1>1, <1>14 DEF vars
<1>15. CASE BillingNext /\ UNCHANGED sync
  BY <1>1, <1>15
<1>16. QED
  BY <1>4, <1>5, <1>6, <1>8, <1>9, <1>10, <1>11, <1>12, <1>13, <1>14, <1>15
     DEF Next, SyncNext, TriggerSync, ReplaySyncLog, SyncTypeInv, TypeOK

(* A document counts as pushed only when the accounting system has it.     *)
THEOREM SyncedCorrect == Spec => []SyncedIsPushed
<1>1. PushInv => SyncedIsPushed
  BY DEF PushInv
<1>2. QED
  BY TypeInitial, TypeStep, PushInitial, PushStep, <1>1, PTL DEF Spec

(* No payment is pushed before its invoice, for any number of jobs and     *)
(* workers.                                                                *)
THEOREM PaymentCorrect == Spec => []PaymentAfterInvoice
<1>1. PushInv => PaymentAfterInvoice
  BY DEF PushInv
<1>2. QED
  BY TypeInitial, TypeStep, PushInitial, PushStep, <1>1, PTL DEF Spec

-----------------------------------------------------------------------------
(* The attempt that a worker has in hand is not past the attempts of its   *)
(* log.                                                                    *)

AttemptInv ==
  /\ \A w \in Worker :
       /\ phase[w] = "claim" => attempt[w] <= attempts[log[w]] + 1
       /\ phase[w] \notin {"idle", "claim"} => attempt[w] <= attempts[log[w]]
  /\ DeadLetterEarned

LEMMA AttemptInitial == Init => AttemptInv
  BY DEF Init, AttemptInv, DeadLetterEarned

LEMMA AttemptStep ==
  SyncTypeInv /\ AttemptInv /\ [Next]_vars => AttemptInv'
<1> SUFFICES ASSUME SyncTypeInv, AttemptInv, [Next]_vars
             PROVE  AttemptInv'
  OBVIOUS
<1> USE DEF AttemptInv
<1>1. /\ attempts \in [Log -> Nat] /\ attempt \in [Worker -> Nat] /\ logStatus \in [Log -> LogStatus]
      /\ phase \in [Worker -> Phase] /\ log \in [Worker -> Log \cup {NoLog}]
      /\ \A w \in Worker : phase[w] # "idle" => log[w] \in Log
  BY DEF SyncTypeInv, TypeOK, Held
<1>2. ASSUME UNCHANGED <<logs, phase, log, attempt>>
      PROVE  AttemptInv'
  BY <1>2 DEF DeadLetterEarned, logs
<1>3. ASSUME NEW w \in Worker, UNCHANGED <<logs, log, attempt>>, phase[w] \notin {"idle", "claim"},
             \E p \in Phase \ {"idle", "claim"} : phase' = [phase EXCEPT ![w] = p]
      PROVE  AttemptInv'
  <2>1. \A v \in Worker : v # w => phase'[v] = phase[v]
    BY <1>1, <1>3
  <2>2. phase'[w] \notin {"idle", "claim"}
    BY <1>1, <1>3
  <2>3. QED
    BY <1>3, <2>1, <2>2 DEF DeadLetterEarned, logs
<1>4. ASSUME NEW w \in Worker, UNCHANGED attempts, Leave(w), DeadLetterEarned'
      PROVE  AttemptInv'
  <2>1. \A v \in Worker : /\ v = w => phase'[v] = "idle"
                          /\ v # w => phase'[v] = phase[v] /\ log'[v] = log[v] /\ attempt'[v] = attempt[v]
    BY <1>1, <1>4 DEF Leave
  <2>2. QED
    BY <1>4, <2>1
<1>5. ASSUME NEW l \in Log, NEW e \in {"invoice", "payment"}, QueueLog(l, e)
      PROVE  AttemptInv'
  BY <1>1, <1>5 DEF QueueLog, worker, DeadLetterEarned
<1>6. ASSUME NEW w \in Worker, NEW j \in waiting, TakeJob(w, j)
      PROVE  AttemptInv'
  <2>1. /\ UNCHANGED logs
        /\ phase' = [phase EXCEPT ![w] = "claim"]
        /\ log' = [log EXCEPT ![w] = j.log]
        /\ attempt' = [attempt EXCEPT ![w] = attempts[j.log] + 1]
    BY <1>6 DEF TakeJob
  <2>2. \A v \in Worker :
          /\ v = w => phase'[v] = "claim" /\ attempt'[v] = attempts[log'[v]] + 1
          /\ v # w => phase'[v] = phase[v] /\ log'[v] = log[v] /\ attempt'[v] = attempt[v]
    BY <1>1, <2>1
  <2>3. attempts[j.log] + 1 \in Nat
    BY <1>1, JobTypes DEF SyncTypeInv, TypeOK
  <2>4. QED
    BY <1>1, <2>1, <2>2, <2>3 DEF DeadLetterEarned, logs
<1>7. ASSUME NEW w \in Worker, Claim(w)
      PROVE  AttemptInv'
  <2>1. /\ phase[w] = "claim" /\ log[w] \in Log
        /\ attempts' = [attempts EXCEPT ![log[w]] = attempts[log[w]] + 1]
        /\ logStatus' = [logStatus EXCEPT ![log[w]] = "RUNNING"]
        /\ phase' = [phase EXCEPT ![w] = "read"]
        /\ UNCHANGED <<log, attempt>>
    BY <1>1, <1>7 DEF Claim, SetLog, Proceed
  <2>2. \A l \in Log : attempts[l] \in Nat /\ attempts'[l] \in Nat /\ attempts[l] <= attempts'[l]
    BY <1>1, <2>1
  <2>3. attempts'[log[w]] = attempts[log[w]] + 1
    BY <1>1, <2>1
  <2>4. \A l \in Log : logStatus'[l] = "DEAD_LETTER" => logStatus[l] = "DEAD_LETTER"
    BY <1>1, <2>1
  <2>5. DeadLetterEarned'
    BY <2>2, <2>4, AttemptsAssumption DEF DeadLetterEarned
  <2>6. ASSUME NEW v \in Worker
        PROVE  /\ phase'[v] = "claim" => attempt'[v] <= attempts'[log'[v]] + 1
               /\ phase'[v] \notin {"idle", "claim"} => attempt'[v] <= attempts'[log'[v]]
    <3>1. CASE v = w
      BY <1>1, <2>1, <2>3, <3>1
    <3>2. CASE v # w
      <4>1. phase'[v] = phase[v] /\ attempt[v] \in Nat
        BY <1>1, <2>1, <3>2
      <4>2. phase[v] # "idle" => log[v] \in Log
        BY <1>1
      <4>3. QED
        BY <2>1, <2>2, <4>1, <4>2
    <3>3. QED
      BY <3>1, <3>2
  <2>7. QED
    BY <2>5, <2>6
<1>8. ASSUME NEW w \in Worker, ReadUnsynced(w)
      PROVE  AttemptInv'
  BY <1>3, <1>8 DEF ReadUnsynced, Proceed, Phase
<1>9. ASSUME NEW w \in Worker, NEW d \in todo[w], SkipPayment(w, d) \/ Push(w, d) \/ PushRejected(w, d)
      PROVE  AttemptInv'
  BY <1>3, <1>9 DEF SkipPayment, Push, PushRejected, Take, Proceed, Phase
<1>10. ASSUME NEW w \in Worker, LogSuccess(w) \/ LogFailure(w) \/ QueryFails(w)
       PROVE  AttemptInv'
  BY <1>3, <1>10 DEF LogSuccess, LogFailure, ItemDone, QueryFails, Proceed, Phase
<1>11. ASSUME NEW w \in Worker, FinishJob(w)
       PROVE  AttemptInv'
  <2>1. /\ phase[w] = "push"
        /\ logStatus' = [logStatus EXCEPT ![log[w]] = "SUCCESS"]
        /\ phase' = [phase EXCEPT ![w] = "stamp"]
        /\ UNCHANGED <<attempts, log, attempt>>
    BY <1>11 DEF FinishJob, SetLog, Proceed
  <2>2. \A v \in Worker : phase'[v] = phase[v] \/ (v = w /\ phase[w] = "push")
    BY <1>1, <2>1
  <2>3. DeadLetterEarned'
    BY <1>1, <2>1 DEF DeadLetterEarned
  <2>4. QED
    BY <2>1, <2>2, <2>3
<1>12. ASSUME NEW w \in Worker, RecordFailure(w)
       PROVE  AttemptInv'
  <2>1. phase[w] = "catch" /\ log[w] \in Log /\ attempt[w] <= attempts[log[w]]
    BY <1>1, <1>12 DEF RecordFailure
  <2>2. GivenUp(attempt[w]) = "DEAD_LETTER" => attempts[log[w]] >= MAX_ACCOUNTING_ATTEMPTS
    BY <1>1, <2>1, AttemptsAssumption DEF GivenUp
  <2>3. DeadLetterEarned'
    BY <1>1, <1>12, <2>1, <2>2 DEF RecordFailure, SetLog, DeadLetterEarned
  <2>4. QED
    BY <1>4, <1>12, <2>3 DEF RecordFailure
<1>13. ASSUME NEW w \in Worker, StampConnection(w) \/ JobThrows(w) \/ WorkerDies(w)
       PROVE  AttemptInv'
  BY <1>4, <1>13 DEF StampConnection, JobThrows, WorkerDies, Requeue, logs, DeadLetterEarned
<1>14. QED
  <2>1. CASE UNCHANGED vars
    BY <1>2, <2>1 DEF vars, sync, worker
  <2>2. CASE BillingNext /\ UNCHANGED sync
    BY <1>2, <2>2 DEF sync, worker
  <2>3. CASE SyncNext
    BY <2>3, <1>2, <1>5, <1>6, <1>7, <1>8, <1>9, <1>10, <1>11, <1>12, <1>13
       DEF SyncNext, TriggerSync, ReplaySyncLog, SkipJob, worker, SyncTypeInv, TypeOK
  <2>4. QED
    BY <2>1, <2>2, <2>3 DEF Next

(* A sync is given up only after its attempts, for any number of crashes,  *)
(* stalled jobs and redeliveries.                                          *)
THEOREM DeadLettersCorrect == Spec => []DeadLetterEarned
<1>1. AttemptInv => DeadLetterEarned
  BY DEF AttemptInv
<1>2. QED
  BY TypeInitial, TypeStep, AttemptInitial, AttemptStep, <1>1, PTL DEF Spec

-----------------------------------------------------------------------------
(* An invoice that no two transactions worked on at a time and no old page *)
(* overwrote: the transaction that is to record a payment has read the sum *)
(* as it is, and that the invoice is paid only if it still is.             *)

InTurn(i) ==
  /\ \A c, d \in Clerk : /\ paying[c] # NoPayment /\ InvoiceOf[paying[c]] = i
                         /\ paying[d] # NoPayment /\ InvoiceOf[paying[d]] = i
                         => c = d
  /\ \A c \in Clerk : paying[c] # NoPayment /\ InvoiceOf[paying[c]] = i
                        => /\ readPaid[c] = paid[i]
                           /\ readStatus[c] = "PAID" => status[i] = "PAID"
  /\ paid[i] > 0 /\ paid[i] >= Total[i] => status[i] = "PAID"

PaidInv == BillingInv /\ \A i \in Invoice \ raced : InTurn(i)

LEMMA PaidStep == PaidInv /\ [MCNext]_<<vars, raced, doubtful>> => PaidInv'
<1> SUFFICES ASSUME PaidInv, [MCNext]_<<vars, raced, doubtful>> PROVE PaidInv'
  OBVIOUS
<1>1. BillingInv /\ BillingInv' /\ ([BillingNext]_billing)
  <2>1. [BillingNext]_billing
    <3>1. [Next]_vars
      BY DEF MCNext
    <3> QED BY <3>1, BillingFrame
  <2> QED BY <2>1, BillingStep DEF PaidInv
<1>2. ASSUME NEW i \in Invoice \ raced' PROVE InTurn(i)'
  <2>1. InTurn(i)
    BY <1>2 DEF PaidInv, MCNext
  <2>2. /\ \A c, d \in Clerk : /\ paying'[c] # NoPayment /\ InvoiceOf[paying'[c]] = i
                               /\ paying'[d] # NoPayment /\ InvoiceOf[paying'[d]] = i
                               => c = d
        /\ UNCHANGED billing \/ \A g \in Page : page[g] = i /\ page'[g] = NoInvoice => shown[g] = status[i]
    <3>1. CASE MCNext
      BY <1>2, <3>1 DEF MCNext, PaidTwiceAtATime, PostedFromOldPage
    <3>2. CASE UNCHANGED <<vars, raced, doubtful>>
      BY <2>1, <3>2 DEF InTurn, vars, billing, transactions
    <3> QED BY <3>1, <3>2
  <2> USE <1>1, <2>1 DEF BillingInv, BillingTypeOK
  <2>3. CASE UNCHANGED billing
    BY <2>3 DEF InTurn, billing, transactions
  <2>4. ASSUME NEW j \in Invoice, CreateInvoice(j) PROVE InTurn(i)'
    BY <2>2, <2>4 DEF CreateInvoice, InTurn, transactions
  <2>5. ASSUME NEW c \in Clerk, NEW p \in Payment, NEW a \in Amount, ReadInvoice(c, p, a) PROVE InTurn(i)'
    BY <2>2, <2>5, InvoiceOfAssumption DEF ReadInvoice, InTurn
  <2>6. ASSUME NEW c \in Clerk, RecordPayment(c) PROVE InTurn(i)'
    <3>1. /\ paying[c] # NoPayment /\ paying[c] \in Payment /\ InvoiceOf[paying[c]] \in Invoice
          /\ amount[c] \in Nat /\ amount[c] > 0
          /\ paying' = [paying EXCEPT ![c] = NoPayment]
          /\ \A d \in Clerk \ {c} : readPaid'[d] = readPaid[d] /\ readStatus'[d] = readStatus[d]
      BY <2>6, InvoiceOfAssumption DEF RecordPayment, EndTransaction, InHand
    <3>2. CASE InvoiceOf[paying[c]] # i
      <4>1. paid'[i] = paid[i] /\ status'[i] = status[i]
        BY <2>6, <3>1, <3>2 DEF RecordPayment
      <4> QED BY <2>2, <3>1, <4>1 DEF InTurn
    <3>3. CASE InvoiceOf[paying[c]] = i
      <4>1. readPaid[c] = paid[i] /\ (readStatus[c] = "PAID" => status[i] = "PAID")
        BY <3>1, <3>3 DEF InTurn
      <4>2. paid'[i] = paid[i] + amount[c] /\ paid[i] \in Nat /\ Total[i] \in Nat
        BY <2>6, <3>1, <3>3, TotalAssumption DEF RecordPayment
      <4>3. paid'[i] >= Total[i] => status'[i] = "PAID"
        <5>1. paid'[i] >= Total[i] => NewStatus(c) = "PAID"
          BY <3>3, <4>1, <4>2 DEF NewStatus, TotalPaid
        <5> QED BY <2>6, <3>3, <4>1, <5>1 DEF RecordPayment
      <4>4. \A d \in Clerk : ~(paying'[d] # NoPayment /\ InvoiceOf[paying'[d]] = i)
        BY <3>1, <3>3 DEF InTurn
      <4> QED BY <4>3, <4>4 DEF InTurn
    <3> QED BY <3>2, <3>3
  <2>7. ASSUME NEW c \in Clerk, Rollback(c) PROVE InTurn(i)'
    BY <2>2, <2>7 DEF Rollback, EndTransaction, InTurn
  <2>8. ASSUME NEW g \in Page, NEW j \in Invoice, OpenPage(g, j) PROVE InTurn(i)'
    BY <2>2, <2>8 DEF OpenPage, InTurn, transactions
  <2>9. ASSUME NEW g \in Page, TransitionInvoiceStatus(g) PROVE InTurn(i)'
    <3>1. PICK target \in Offered(shown[g]) : status' = [status EXCEPT ![page[g]] = target]
      BY <2>9 DEF TransitionInvoiceStatus
    <3>2. page'[g] = NoInvoice /\ UNCHANGED <<paid, transactions>>
      BY <2>9 DEF TransitionInvoiceStatus
    <3>3. CASE page[g] # i
      BY <2>2, <3>1, <3>2, <3>3 DEF InTurn, transactions
    <3>4. CASE page[g] = i /\ ~UNCHANGED billing
      <4>1. shown[g] = status[i]
        BY <2>2, <3>2, <3>4
      <4>2. status[i] # "PAID"
        BY <4>1 DEF Offered
      <4> QED BY <2>2, <3>2, <4>2 DEF InTurn, transactions
    <3> QED BY <2>3, <3>3, <3>4
  <2> QED BY <2>3, <2>4, <2>5, <2>6, <2>7, <2>8, <2>9 DEF BillingNext
<1> QED BY <1>1, <1>2 DEF PaidInv

(* An invoice whose payments cover it is PAID, unless two payments of it   *)
(* were recorded at a time or an old page overwrote its status.            *)
THEOREM PaidWhenCovered == MCSpec => []FullyPaidIsPaid
<1>1. MCInit => PaidInv
  BY BillingInitial DEF MCInit, Init, BillingInit, PaidInv, InTurn
<1>2. PaidInv => FullyPaidIsPaid
  BY DEF PaidInv, InTurn, FullyPaidIsPaid
<1> QED BY <1>1, <1>2, PaidStep, PTL DEF MCSpec

-----------------------------------------------------------------------------
(* A document that no two jobs had in hand at a time, and whose push was   *)
(* always logged: who has it to push finds it unpushed, and once pushed it *)
(* has its log, or the worker that pushed it is about to write the log.    *)

PushedInTurn(d) ==
  /\ \A v, w \in Worker : d \in todo[v] \cup {doc[v]} /\ d \in todo[w] \cup {doc[w]} => v = w
  /\ books[d] <= 1
  /\ books[d] > 0 => d \in synced \/ \E w \in Worker : doc[w] = d /\ phase[w] = "log"
  /\ \A w \in Worker : d \in todo[w] => books[d] = 0

OncePushedInv == SyncTypeInv /\ \A d \in Doc \ doubtful : PushedInTurn(d)

LEMMA OncePushedStep == OncePushedInv /\ [MCNext]_<<vars, raced, doubtful>> => OncePushedInv'
<1> SUFFICES ASSUME OncePushedInv, [MCNext]_<<vars, raced, doubtful>> PROVE OncePushedInv'
  OBVIOUS
<1>1. [Next]_vars
  BY DEF MCNext
<1>2. SyncTypeInv /\ SyncTypeInv'
  BY <1>1, TypeStep DEF OncePushedInv
<1>3. ASSUME NEW d \in Doc \ doubtful' PROVE PushedInTurn(d)'
  <2>1. PushedInTurn(d)
    BY <1>3 DEF OncePushedInv, MCNext
  <2>2. /\ \A v, w \in Worker : d \in todo'[v] \cup {doc'[v]} /\ d \in todo'[w] \cup {doc'[w]} => v = w
        /\ books'[d] > 0 => d \in synced' \/ \E w \in Worker : doc'[w] = d /\ phase'[w] = "log"
    <3>1. CASE MCNext
      BY <1>3, <3>1 DEF MCNext, PushedTwiceAtATime, NotLogged
    <3>2. CASE UNCHANGED <<vars, raced, doubtful>>
      BY <2>1, <3>2 DEF PushedInTurn, vars, sync, ledger, worker
    <3> QED BY <3>1, <3>2
  <2> USE <1>2, <2>1 DEF SyncTypeInv, TypeOK
  <2>3. ASSUME books'[d] = books[d], \A w \in Worker : d \in todo'[w] => d \in todo[w]
        PROVE  PushedInTurn(d)'
    BY <2>2, <2>3 DEF PushedInTurn
  <2>4. ASSUME NEW w \in Worker, ReadUnsynced(w) PROVE PushedInTurn(d)'
    <3>1. /\ UNCHANGED <<ledger, doc>>
          /\ phase[w] = "read" /\ todo'[w] \cap synced = {}
          /\ \A v \in Worker \ {w} : todo'[v] = todo[v]
      BY <2>4 DEF ReadUnsynced
    <3>2. CASE d \in todo'[w] /\ books[d] > 0
      <4>1. PICK v \in Worker : doc[v] = d /\ phase[v] = "log"
        BY <3>1, <3>2 DEF PushedInTurn
      <4>2. v = w
        BY <2>2, <3>1, <3>2, <4>1
      <4> QED BY <3>1, <4>1, <4>2
    <3>3. CASE d \notin todo'[w] \/ ~(books[d] > 0)
      BY <2>2, <3>1, <3>3 DEF PushedInTurn, ledger
    <3> QED BY <3>2, <3>3
  <2>5. ASSUME NEW w \in Worker, NEW e \in todo[w], Push(w, e) PROVE PushedInTurn(d)'
    <3>1. /\ e \in Doc
          /\ books' = [books EXCEPT ![e] = @ + 1]
          /\ todo' = [todo EXCEPT ![w] = @ \ {e}]
      BY <2>5 DEF Push, Take
    <3>2. CASE e # d
      BY <2>3, <3>1, <3>2
    <3>3. CASE e = d
      <4>1. books[d] = 0 /\ books'[d] = 1
        BY <2>5, <3>1, <3>3 DEF PushedInTurn
      <4>2. \A v \in Worker : d \notin todo'[v]
        BY <2>5, <3>1, <3>3 DEF PushedInTurn
      <4> QED BY <2>2, <4>1, <4>2 DEF PushedInTurn
    <3> QED BY <3>2, <3>3
  <2>6. ASSUME NEW w \in Worker, NEW e \in todo[w], SkipPayment(w, e) \/ PushRejected(w, e)
        PROVE  PushedInTurn(d)'
    BY <2>3, <2>6 DEF SkipPayment, PushRejected, Take
  <2>7. ASSUME NEW w \in Worker, Leave(w), UNCHANGED ledger PROVE PushedInTurn(d)'
    BY <2>3, <2>7 DEF Leave, ledger
  <2>8. ASSUME NEW w \in Worker,
               StampConnection(w) \/ RecordFailure(w) \/ JobThrows(w) \/ WorkerDies(w)
        PROVE  PushedInTurn(d)'
    BY <2>7, <2>8 DEF StampConnection, RecordFailure, JobThrows, WorkerDies, Requeue
  <2>9. ASSUME NEW w \in Worker,
               \/ \E j \in waiting : TakeJob(w, j)
               \/ Claim(w) \/ LogSuccess(w) \/ LogFailure(w) \/ QueryFails(w) \/ FinishJob(w)
        PROVE  PushedInTurn(d)'
    <3>1. UNCHANGED books
      BY <2>9 DEF TakeJob, Claim, LogSuccess, LogFailure, QueryFails, FinishJob, ItemDone, ledger
    <3>2. UNCHANGED todo \/ todo' = [todo EXCEPT ![w] = {}]
      BY <2>9 DEF TakeJob, Claim, LogSuccess, LogFailure, QueryFails, FinishJob, ItemDone
    <3> QED BY <2>3, <3>1, <3>2
  <2>10. ASSUME UNCHANGED <<ledger, todo>> PROVE PushedInTurn(d)'
    BY <2>3, <2>10 DEF ledger
  <2>11. CASE \/ BillingNext /\ UNCHANGED sync
              \/ \E l \in Log : TriggerSync(l) \/ ReplaySyncLog(l)
              \/ \E j \in waiting : SkipJob(j)
              \/ UNCHANGED vars
    BY <2>10, <2>11 DEF TriggerSync, ReplaySyncLog, QueueLog, SkipJob, sync, worker, vars
  <2> QED BY <1>1, <2>4, <2>5, <2>6, <2>8, <2>9, <2>11 DEF Next, SyncNext
<1> QED BY <1>2, <1>3 DEF OncePushedInv

(* A document is pushed once, for any number of jobs, replays and          *)
(* restarts, unless two jobs had it in hand at a time or the log of its    *)
(* push was not written.                                                   *)
THEOREM PushesOnce == MCSpec => []PushedOnce
<1>1. MCInit => OncePushedInv
  <2> SUFFICES ASSUME MCInit PROVE SyncTypeInv /\ \A d \in Doc : PushedInTurn(d)
    BY DEF OncePushedInv
  <2>1. SyncTypeInv
    BY TypeInitial DEF MCInit
  <2> QED BY <2>1, NoDocAssumption DEF MCInit, Init, PushedInTurn, Doc
<1>2. OncePushedInv => PushedOnce
  BY DEF OncePushedInv, PushedInTurn, PushedOnce
<1> QED BY <1>1, <1>2, OncePushedStep, PTL DEF MCSpec

=============================================================================
