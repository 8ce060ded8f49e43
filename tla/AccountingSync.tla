--------------------------- MODULE AccountingSync ---------------------------
(***************************************************************************)
(* The push of invoices and payments to an accounting system (Xero or      *)
(* QuickBooks, whose code is the same), on top of InvoicePayments: a       *)
(* request queues a job for a sync log                                     *)
(* (apps/api/src/integrations/accounting.controller.ts), a worker runs it  *)
(* (apps/worker/src/accounting-sync-dispatcher.ts) and pushes what has no  *)
(* SUCCESS log yet (packages/integrations/{xero,quickbooks}/src).          *)
(*                                                                         *)
(* The accounting system and the database are two systems: a document is   *)
(* pushed, and then logged.  The sync log and the documents are read in    *)
(* several queries, modelled as one step: what was read is as stale as     *)
(* the time the push takes makes it.  The pull, which only appends logs    *)
(* under the ids of the other system, is left out.                         *)
(***************************************************************************)
EXTENDS InvoicePayments

CONSTANTS Worker,
          Log,          \* bound: the AccountingSyncLog rows of jobs
          NoLog, NoDoc,
          MAX_ACCOUNTING_ATTEMPTS,
          JobAttempts,  \* how often BullMQ runs a job that throws
          MaxStalled,   \* how often BullMQ restarts a job whose worker died
          Faults        \* "rejected": the accounting system refuses a document;
                        \* "answer": its answer is lost; "database": a query
                        \* fails; "worker": a worker dies; "queue": a publish
                        \* fails; "inactive": the connection is no longer active

ASSUME NoLogAssumption == NoLog \notin Log
ASSUME NoDocAssumption == NoDoc \notin Invoice \cup Payment
ASSUME DistinctAssumption == Invoice \cap Payment = {}
ASSUME AttemptsAssumption ==
  /\ MAX_ACCOUNTING_ATTEMPTS \in Nat \ {0}
  /\ JobAttempts \in Nat \ {0}
  /\ MaxStalled \in Nat

VARIABLES books,        \* how many copies of each document the accounting system has
          synced,       \* the documents with a SUCCESS log of their push
          entity,       \* entityType of each job's log
          logStatus,    \* its status, "none" before there is a row
          attempts,     \* its attempts
          waiting,      \* the jobs that wait for a worker
          phase, log,   \* the phase of each worker and the log of its job
          retries,      \* how often its job has thrown, and how often stalled
          attempt,      \* its attempt
          todo, doc     \* what it has left to push, and what it is pushing

logs == <<entity, logStatus, attempts>>
ledger == <<books, synced>>
worker == <<phase, log, retries, attempt, todo, doc>>
sync == <<ledger, logs, waiting, worker>>
vars == <<billing, sync>>

-----------------------------------------------------------------------------
Doc == Invoice \cup Payment
Retries == [thrown : Nat, stalled : Nat]
Job == [log : Log, retries : Retries]
LogStatus == {"none", "QUEUED", "RUNNING", "SUCCESS", "FAILED", "DEAD_LETTER"}
Phase == {"idle", "claim", "read", "push", "log", "itemFailed", "stamp", "catch"}

Fresh == [thrown |-> 0, stalled |-> 0]
Thrown(r) == [thrown |-> r.thrown + 1, stalled |-> r.stalled]
Stalled(r) == [thrown |-> r.thrown, stalled |-> r.stalled + 1]

TypeOK ==
  /\ BillingTypeOK
  /\ books \in [Doc -> Nat]
  /\ synced \subseteq Doc
  /\ entity \in [Log -> {"invoice", "payment"}]
  /\ logStatus \in [Log -> LogStatus]
  /\ attempts \in [Log -> Nat]
  /\ waiting \subseteq Job
  /\ phase \in [Worker -> Phase]
  /\ log \in [Worker -> Log \cup {NoLog}]
  /\ retries \in [Worker -> Retries]
  /\ attempt \in [Worker -> Nat]
  /\ todo \in [Worker -> SUBSET Doc]
  /\ doc \in [Worker -> Doc \cup {NoDoc}]

Init ==
  /\ BillingInit
  /\ books = [d \in Doc |-> 0]
  /\ synced = {}
  /\ entity = [l \in Log |-> "invoice"]
  /\ logStatus = [l \in Log |-> "none"]
  /\ attempts = [l \in Log |-> 0]
  /\ waiting = {}
  /\ phase = [w \in Worker |-> "idle"]
  /\ log = [w \in Worker |-> NoLog]
  /\ retries = [w \in Worker |-> Fresh]
  /\ attempt = [w \in Worker |-> 0]
  /\ todo = [w \in Worker |-> {}]
  /\ doc = [w \in Worker |-> NoDoc]

-----------------------------------------------------------------------------
(* triggerSync: the row of the log, and then its job, unless the queue     *)
(* refuses it.  A replay does the same after reading a FAILED or           *)
(* DEAD_LETTER log, which it leaves as it is.                              *)
QueueLog(l, e) ==
  /\ logStatus[l] = "none"
  /\ entity' = [entity EXCEPT ![l] = e]
  /\ logStatus' = [logStatus EXCEPT ![l] = "QUEUED"]
  /\ \/ waiting' = waiting \cup {[log |-> l, retries |-> Fresh]}
     \/ "queue" \in Faults /\ UNCHANGED waiting
  /\ UNCHANGED <<billing, ledger, attempts, worker>>

TriggerSync(l) == \E e \in {"invoice", "payment"} : QueueLog(l, e)

ReplaySyncLog(l) ==
  \E failed \in Log : /\ logStatus[failed] \in {"FAILED", "DEAD_LETTER"}
                      /\ QueueLog(l, entity[failed])

-----------------------------------------------------------------------------
(* handleAccountingSyncDispatch. *)

SetLog(w, s) == logStatus' = [logStatus EXCEPT ![log[w]] = s]

Proceed(w, p) ==
  /\ phase' = [phase EXCEPT ![w] = p]
  /\ UNCHANGED <<log, retries, attempt, waiting>>

Leave(w) ==
  /\ phase' = [phase EXCEPT ![w] = "idle"]
  /\ log' = [log EXCEPT ![w] = NoLog]
  /\ retries' = [retries EXCEPT ![w] = Fresh]
  /\ attempt' = [attempt EXCEPT ![w] = 0]
  /\ todo' = [todo EXCEPT ![w] = {}]
  /\ doc' = [doc EXCEPT ![w] = NoDoc]

TakeJob(w, j) ==
  /\ phase[w] = "idle"
  /\ j \in waiting
  /\ waiting' = waiting \ {j}
  /\ phase' = [phase EXCEPT ![w] = "claim"]
  /\ log' = [log EXCEPT ![w] = j.log]
  /\ retries' = [retries EXCEPT ![w] = j.retries]
  /\ attempt' = [attempt EXCEPT ![w] = attempts[j.log] + 1]
  /\ UNCHANGED <<billing, ledger, logs, todo, doc>>

(* The connection is no longer active: the log stays QUEUED.               *)
SkipJob(j) ==
  /\ "inactive" \in Faults
  /\ j \in waiting
  /\ waiting' = waiting \ {j}
  /\ UNCHANGED <<billing, ledger, logs, worker>>

Claim(w) ==
  /\ phase[w] = "claim"
  /\ attempts' = [attempts EXCEPT ![log[w]] = @ + 1]
  /\ SetLog(w, "RUNNING")
  /\ Proceed(w, "read")
  /\ UNCHANGED <<billing, ledger, entity, todo, doc>>

(* What the push may take: invoices SENT or PAID, and all payments. *)
Candidates(e) ==
  IF e = "invoice" THEN {i \in Invoice : status[i] \in {"SENT", "PAID"}} ELSE recorded

(* Mutant: what has been pushed before is not left out.                    *)
ReadAll(w) ==
  /\ phase[w] = "read"
  /\ todo' = [todo EXCEPT ![w] = Candidates(entity[log[w]])]
  /\ Proceed(w, "push")
  /\ UNCHANGED <<billing, ledger, logs, doc>>

ReadUnsynced(w) ==
  /\ phase[w] = "read"
  /\ todo' = [todo EXCEPT ![w] = Candidates(entity[log[w]]) \ synced]
  /\ Proceed(w, "push")
  /\ UNCHANGED <<billing, ledger, logs, doc>>

(* Mutant: a payment does not wait for its invoice.                        *)
AlwaysReady(d) == TRUE

(* A payment needs the external id that the log of its invoice has.        *)
Ready(d) == d \in Payment => InvoiceOf[d] \in synced

Take(w, d, p) ==
  /\ phase[w] = "push"
  /\ d \in todo[w]
  /\ todo' = [todo EXCEPT ![w] = @ \ {d}]
  /\ Proceed(w, p)
  /\ UNCHANGED <<billing, synced, logs>>

SkipPayment(w, d) == ~Ready(d) /\ Take(w, d, "push") /\ UNCHANGED <<books, doc>>

Push(w, d) ==
  /\ Ready(d)
  /\ books' = [books EXCEPT ![d] = @ + 1]
  /\ doc' = [doc EXCEPT ![w] = d]
  /\ \/ Take(w, d, "log")
     \/ "answer" \in Faults /\ Take(w, d, "itemFailed")

PushRejected(w, d) ==
  /\ "rejected" \in Faults
  /\ Ready(d)
  /\ Take(w, d, "itemFailed")
  /\ doc' = [doc EXCEPT ![w] = d]
  /\ UNCHANGED books

ItemDone(w, p) ==
  /\ Proceed(w, p)
  /\ doc' = [doc EXCEPT ![w] = NoDoc]
  /\ UNCHANGED <<billing, books, logs, todo>>

LogSuccess(w) ==
  /\ phase[w] = "log"
  /\ synced' = synced \cup {doc[w]}
  /\ ItemDone(w, "push")

(* Mutant: the log of a failed push says SUCCESS.                          *)
LogAnyway(w) ==
  /\ phase[w] = "itemFailed"
  /\ synced' = synced \cup {doc[w]}
  /\ ItemDone(w, "push")

(* The FAILED log of the document itself: nothing reads it but a replay.   *)
LogFailure(w) ==
  /\ phase[w] = "itemFailed"
  /\ ItemDone(w, "push")
  /\ UNCHANGED synced

(* The query of a SUCCESS log fails, and the push counts as failed; that   *)
(* of a FAILED log, of the lists, of the log of a payment's invoice, of    *)
(* the job's log or of the connection fails, and the whole job does.       *)
QueryFails(w) ==
  /\ "database" \in Faults
  /\ \/ phase[w] = "log" /\ Proceed(w, "itemFailed") /\ UNCHANGED <<todo, doc>>
     \/ /\ \/ phase[w] \in {"read", "itemFailed", "stamp"}
           \/ phase[w] = "push" /\ (todo[w] = {} \/ entity[log[w]] = "payment")
        /\ Proceed(w, "catch")
        /\ todo' = [todo EXCEPT ![w] = {}]
        /\ doc' = [doc EXCEPT ![w] = NoDoc]
  /\ UNCHANGED <<billing, ledger, logs>>

(* Also when documents of it have failed. *)
FinishJob(w) ==
  /\ phase[w] = "push"
  /\ todo[w] = {}
  /\ SetLog(w, "SUCCESS")
  /\ Proceed(w, "stamp")
  /\ UNCHANGED <<billing, ledger, entity, attempts, todo, doc>>

(* lastSyncAt of the connection; it fails into the catch block as well.    *)
StampConnection(w) ==
  /\ phase[w] = "stamp"
  /\ Leave(w)
  /\ UNCHANGED <<billing, ledger, logs, waiting>>

(* Mutant: an attempt too early.                                           *)
GivenUpEarly(n) == IF n >= MAX_ACCOUNTING_ATTEMPTS - 1 THEN "DEAD_LETTER" ELSE "FAILED"

GivenUp(n) == IF n >= MAX_ACCOUNTING_ATTEMPTS THEN "DEAD_LETTER" ELSE "FAILED"

(* The catch block: BullMQ sees a job that returned. *)
RecordFailure(w) ==
  /\ phase[w] = "catch"
  /\ SetLog(w, GivenUp(attempt[w]))
  /\ Leave(w)
  /\ UNCHANGED <<billing, ledger, entity, attempts, waiting>>

-----------------------------------------------------------------------------
(* BullMQ. *)

Requeue(w, again, r) ==
  /\ waiting' = IF again THEN waiting \cup {[log |-> log[w], retries |-> r]} ELSE waiting
  /\ Leave(w)
  /\ UNCHANGED <<billing, ledger, logs>>

(* An update outside the try block throws. *)
JobThrows(w) ==
  /\ "database" \in Faults
  /\ phase[w] \in {"claim", "catch"}
  /\ Requeue(w, retries[w].thrown + 1 < JobAttempts, Thrown(retries[w]))

WorkerDies(w) ==
  /\ "worker" \in Faults
  /\ phase[w] # "idle"
  /\ Requeue(w, retries[w].stalled < MaxStalled, Stalled(retries[w]))

SyncNext ==
  \/ \E l \in Log : TriggerSync(l) \/ ReplaySyncLog(l)
  \/ \E j \in waiting : SkipJob(j)
  \/ \E w \in Worker :
       \/ \E j \in waiting : TakeJob(w, j)
       \/ Claim(w) \/ ReadUnsynced(w)
       \/ \E d \in todo[w] : SkipPayment(w, d) \/ Push(w, d) \/ PushRejected(w, d)
       \/ LogSuccess(w) \/ LogFailure(w) \/ QueryFails(w) \/ FinishJob(w) \/ StampConnection(w)
       \/ RecordFailure(w) \/ JobThrows(w) \/ WorkerDies(w)

Next == (BillingNext /\ UNCHANGED sync) \/ SyncNext

Spec == Init /\ [][Next]_vars

-----------------------------------------------------------------------------
(* The accounting system never has a payment of an invoice it does not     *)
(* have, whatever fails, whoever pushes, and although invoices and         *)
(* payments are the business of different jobs in any order.               *)
PaymentAfterInvoice ==
  \A p \in Payment : books[p] > 0 => books[InvoiceOf[p]] > 0

(* A document counts as pushed only when the accounting system has it, and *)
(* has it only when StockOps does.                                         *)
SyncedIsPushed ==
  \A d \in Doc : /\ d \in synced => books[d] > 0
                 /\ books[d] > 0 => d \in recorded \/ (d \in Invoice /\ status[d] # "none")

(* A sync is given up only after its attempts.                             *)
DeadLetterEarned ==
  \A l \in Log : logStatus[l] = "DEAD_LETTER" => attempts[l] >= MAX_ACCOUNTING_ATTEMPTS

=============================================================================
