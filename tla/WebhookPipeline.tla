--------------------------- MODULE WebhookPipeline ---------------------------
(***************************************************************************)
(* The webhook inbox in database mode with the BullMQ driver: the API      *)
(* stores what a shop delivers and publishes a job for it                  *)
(* (apps/api/src/webhooks/webhook-inbox.service.ts), the worker imports    *)
(* the order (apps/worker/src/webhook-processor.ts), and an operator may   *)
(* replay an event (apps/api/src/integrations/accounting.controller.ts).   *)
(*                                                                         *)
(* The database and the queue are two systems: a request or a job that     *)
(* writes to both does so in two steps, and either side may fail between.  *)
(* The shop delivers an event as often as it likes.  A delivery that finds *)
(* the event stored is answered and changes nothing.                       *)
(***************************************************************************)
EXTENDS Naturals, FiniteSets

CONSTANTS Event,        \* deliveries, by dedupeKey
          Order,        \* external orders, by the code externalOrderCode gives them
          NoOrder,      \* the order of a topic that is not about orders
          OrderOf,      \* the order each event is about
          Request,      \* concurrent requests of the API
          Worker,       \* concurrent jobs of the worker
          NoEvent, NoJob,
          MAX_WEBHOOK_ATTEMPTS,
          JobAttempts,  \* how often BullMQ runs a job that throws
          MaxStalled,   \* how often BullMQ restarts a job whose worker died
          MaxReplays,   \* bound: replays by operators
          Faults        \* what may go wrong: a publish to the "queue", a query of
                        \* the "database", a "request" or a "worker" that dies, a
                        \* worker that dies while BullMQ still allows a "restart"
                        \* of its job, an order of "unmatched" products

ASSUME OrderOfAssumption == OrderOf \in [Event -> Order \cup {NoOrder}]
ASSUME NoOrderAssumption == NoOrder \notin Order
ASSUME NoEventAssumption == NoEvent \notin Event
ASSUME BoundsAssumption == /\ MAX_WEBHOOK_ATTEMPTS \in Nat \ {0}
                           /\ JobAttempts \in Nat \ {0}
                           /\ MaxStalled \in Nat
                           /\ MaxReplays \in Nat

VARIABLES status,      \* of each WebhookEvent row; "none" when there is no row
          attempts,    \* of each WebhookEvent row
          orders,      \* how many SalesOrder rows carry the code of each order
          announced,   \* the orders whose import was passed on to the sync jobs
          waiting,     \* the jobs that wait for a worker
          replays,     \* how many replays there were
          step, about, \* the phase of each request, and the event it is about
          phase, job,  \* the phase of each worker, and the job it runs
          attempt      \* its nextAttempt

api == <<step, about, replays>>
worker == <<phase, job, attempt>>
vars == <<status, attempts, orders, announced, waiting, api, worker>>

-----------------------------------------------------------------------------
(* Types. *)

Status == {"PENDING", "PROCESSING", "PROCESSED", "FAILED", "DEAD_LETTER", "IGNORED"}
Job == [event : Event,
        replay : Nat,     \* 0 for the jobId of the inbox
        thrown : Nat,     \* attemptsMade
        stalled : Nat]
Step == {"idle", "store", "publish", "reset", "republish"}
Phase == {"idle", "claim", "import", "create", "mark", "announce", "catch"}

TypeOK ==
  /\ status \in [Event -> Status \cup {"none"}]
  /\ attempts \in [Event -> Nat]
  /\ orders \in [Order -> Nat]
  /\ announced \subseteq Order
  /\ waiting \subseteq Job
  /\ replays \in Nat
  /\ step \in [Request -> Step]
  /\ about \in [Request -> Event \cup {NoEvent}]
  /\ phase \in [Worker -> Phase]
  /\ job \in [Worker -> Job \cup {NoJob}]
  /\ attempt \in [Worker -> Nat]

Init ==
  /\ status = [e \in Event |-> "none"]
  /\ attempts = [e \in Event |-> 0]
  /\ orders = [o \in Order |-> 0]
  /\ announced = {}
  /\ waiting = {}
  /\ replays = 0
  /\ step = [r \in Request |-> "idle"]
  /\ about = [r \in Request |-> NoEvent]
  /\ phase = [w \in Worker |-> "idle"]
  /\ job = [w \in Worker |-> NoJob]
  /\ attempt = [w \in Worker |-> 0]

-----------------------------------------------------------------------------
(* The inbox: acceptDatabaseEvent and response. *)

GoTo(r, s, e) ==
  /\ step' = [step EXCEPT ![r] = s]
  /\ about' = [about EXCEPT ![r] = e]

Publish(e, replay) ==
  waiting' = waiting \cup {[event |-> e, replay |-> replay, thrown |-> 0, stalled |-> 0]}

(* findUnique by dedupeKey finds no row. *)
Accept(r, e) ==
  /\ step[r] = "idle"
  /\ status[e] = "none"
  /\ GoTo(r, "store", e)
  /\ UNCHANGED <<status, attempts, orders, announced, waiting, replays, worker>>

(* webhookEvent.create; the unique dedupeKey refuses the row if another    *)
(* delivery came first, and the request ends in an error.                  *)
StoreEvent(r) ==
  /\ step[r] = "store"
  /\ IF status[about[r]] = "none"
     THEN /\ status' = [status EXCEPT ![about[r]] = "PENDING"]
          /\ GoTo(r, "publish", about[r])
     ELSE /\ GoTo(r, "idle", NoEvent)
          /\ UNCHANGED status
  /\ UNCHANGED <<attempts, orders, announced, waiting, replays, worker>>

PublishEvent(r) ==
  /\ step[r] = "publish"
  /\ Publish(about[r], 0)
  /\ GoTo(r, "idle", NoEvent)
  /\ UNCHANGED <<status, attempts, orders, announced, replays, worker>>

(* replayWebhookEvent. *)
Replayable == {"FAILED", "DEAD_LETTER", "PROCESSING"}

ReadReplayable(r, e) ==
  /\ step[r] = "idle"
  /\ replays + Cardinality({x \in Request : step[x] \in {"reset", "republish"}}) < MaxReplays
  /\ status[e] \in Replayable
  /\ GoTo(r, "reset", e)
  /\ UNCHANGED <<status, attempts, orders, announced, waiting, replays, worker>>

(* The update is by id: it does not test the status again. *)
ResetEvent(r) ==
  /\ step[r] = "reset"
  /\ status' = [status EXCEPT ![about[r]] = "PENDING"]
  /\ GoTo(r, "republish", about[r])
  /\ UNCHANGED <<attempts, orders, announced, waiting, replays, worker>>

PublishReplay(r) ==
  /\ step[r] = "republish"
  /\ replays' = replays + 1
  /\ Publish(about[r], replays')
  /\ GoTo(r, "idle", NoEvent)
  /\ UNCHANGED <<status, attempts, orders, announced, worker>>

(* The queue refuses the job, a query fails, or the process dies: the      *)
(* request ends where it stands.                                           *)
RequestFails(r) ==
  /\ \/ "request" \in Faults /\ step[r] # "idle"
     \/ "queue" \in Faults /\ step[r] \in {"publish", "republish"}
     \/ "database" \in Faults /\ step[r] \in {"store", "reset"}
  /\ GoTo(r, "idle", NoEvent)
  /\ UNCHANGED <<status, attempts, orders, announced, waiting, replays, worker>>

-----------------------------------------------------------------------------
(* The worker: processDatabaseWebhook and importExternalOrder. *)

Of(w) == job[w].event

(* The job ends without an error: BullMQ is done with it. *)
Finish(w) ==
  /\ phase' = [phase EXCEPT ![w] = "idle"]
  /\ job' = [job EXCEPT ![w] = NoJob]
  /\ attempt' = [attempt EXCEPT ![w] = 0]
  /\ UNCHANGED waiting

Proceed(w, p) == phase' = [phase EXCEPT ![w] = p] /\ UNCHANGED <<waiting, job, attempt>>

SetStatus(w, s) == status' = [status EXCEPT ![Of(w)] = s]

(* A worker takes a job and reads its event. *)
TakeJob(w, j) ==
  /\ phase[w] = "idle"
  /\ j \in waiting
  /\ waiting' = waiting \ {j}
  /\ job' = [job EXCEPT ![w] = j]
  /\ attempt' = [attempt EXCEPT ![w] = attempts[j.event] + 1]
  /\ phase' = [phase EXCEPT ![w] = "claim"]
  /\ UNCHANGED <<status, attempts, orders, announced, api>>

(* Mutant: only an event that is PENDING is worked on.                     *)
ClaimPending(w) ==
  /\ phase[w] = "claim"
  /\ IF status[Of(w)] = "PENDING"
     THEN /\ attempts' = [attempts EXCEPT ![Of(w)] = @ + 1]
          /\ SetStatus(w, "PROCESSING")
          /\ Proceed(w, "import")
     ELSE /\ Finish(w)
          /\ UNCHANGED <<attempts, status>>
  /\ UNCHANGED <<orders, announced, api>>

ClaimEvent(w) ==
  /\ phase[w] = "claim"
  /\ attempts' = [attempts EXCEPT ![Of(w)] = @ + 1]
  /\ SetStatus(w, "PROCESSING")
  /\ Proceed(w, "import")
  /\ UNCHANGED <<orders, announced, api>>

IgnoreEvent(w) ==
  /\ phase[w] = "import"
  /\ OrderOf[Of(w)] = NoOrder
  /\ SetStatus(w, "IGNORED")
  /\ Finish(w)
  /\ UNCHANGED <<attempts, orders, announced, api>>

(* Mutant: an attempt too early.                                           *)
GivenUpEarly(n) == IF n >= MAX_WEBHOOK_ATTEMPTS - 1 THEN "DEAD_LETTER" ELSE "FAILED"

GivenUp(n) == IF n >= MAX_WEBHOOK_ATTEMPTS THEN "DEAD_LETTER" ELSE "FAILED"

(* None of the order's SKUs is a product: products come and go.            *)
FailUnmatched(w) ==
  /\ "unmatched" \in Faults
  /\ phase[w] = "import"
  /\ OrderOf[Of(w)] # NoOrder
  /\ SetStatus(w, GivenUp(attempt[w]))
  /\ Finish(w)
  /\ UNCHANGED <<attempts, orders, announced, api>>

(* Mutant: a second attempt takes the order for granted.                   *)
FindGranted(w) ==
  /\ phase[w] = "import"
  /\ OrderOf[Of(w)] # NoOrder
  /\ Proceed(w, IF attempts[Of(w)] = 1 THEN "create" ELSE "mark")
  /\ UNCHANGED <<status, attempts, orders, announced, api>>

(* salesOrder.findFirst by code. *)
FindOrder(w) ==
  /\ phase[w] = "import"
  /\ OrderOf[Of(w)] # NoOrder
  /\ Proceed(w, IF orders[OrderOf[Of(w)]] = 0 THEN "create" ELSE "mark")
  /\ UNCHANGED <<status, attempts, orders, announced, api>>

(* Mutant: the code of an order is not unique in the table.                *)
CreateAnyway(w) ==
  /\ phase[w] = "create"
  /\ orders' = [orders EXCEPT ![OrderOf[Of(w)]] = @ + 1]
  /\ SetStatus(w, "PROCESSED")
  /\ Proceed(w, "announce")
  /\ UNCHANGED <<attempts, announced, api>>

(* One transaction: the order, its audit row and the event.  The unique    *)
(* (organizationId, code) refuses it if another worker was first.          *)
CreateOrder(w) ==
  /\ phase[w] = "create"
  /\ IF orders[OrderOf[Of(w)]] = 0
     THEN /\ orders' = [orders EXCEPT ![OrderOf[Of(w)]] = 1]
          /\ SetStatus(w, "PROCESSED")
          /\ Proceed(w, "announce")
     ELSE /\ Proceed(w, "catch")
          /\ UNCHANGED <<orders, status>>
  /\ UNCHANGED <<attempts, announced, api>>

(* Mutant: only the worker that created the order announces it.            *)
MarkProcessedOnly(w) ==
  /\ phase[w] = "mark"
  /\ SetStatus(w, "PROCESSED")
  /\ Finish(w)
  /\ UNCHANGED <<attempts, orders, announced, api>>

MarkProcessed(w) ==
  /\ phase[w] = "mark"
  /\ SetStatus(w, "PROCESSED")
  /\ Proceed(w, "announce")
  /\ UNCHANGED <<attempts, orders, announced, api>>

(* The low-stock and stock-sync jobs are published. *)
Announce(w) ==
  /\ phase[w] = "announce"
  /\ announced' = announced \cup {OrderOf[Of(w)]}
  /\ Finish(w)
  /\ UNCHANGED <<status, attempts, orders, api>>

(* A query or a publish in the try block throws. *)
Throws(w) ==
  /\ \/ "database" \in Faults /\ phase[w] \in {"import", "create", "mark"}
     \/ "queue" \in Faults /\ phase[w] = "announce"
  /\ Proceed(w, "catch")
  /\ UNCHANGED <<status, attempts, orders, announced, api>>

(* The catch block: BullMQ sees a job that returned. *)
RecordFailure(w) ==
  /\ phase[w] = "catch"
  /\ SetStatus(w, GivenUp(attempt[w]))
  /\ Finish(w)
  /\ UNCHANGED <<attempts, orders, announced, api>>

-----------------------------------------------------------------------------
(* BullMQ: a job that throws or whose worker died runs again, so many      *)
(* times.                                                                  *)

Requeue(w, again) ==
  /\ waiting' = waiting \cup again
  /\ phase' = [phase EXCEPT ![w] = "idle"]
  /\ job' = [job EXCEPT ![w] = NoJob]
  /\ attempt' = [attempt EXCEPT ![w] = 0]
  /\ UNCHANGED <<status, attempts, orders, announced, api>>

(* The update before the try block or the one in the catch block throws. *)
JobThrows(w) ==
  /\ "database" \in Faults
  /\ phase[w] \in {"claim", "catch"}
  /\ Requeue(w, IF job[w].thrown + 1 < JobAttempts
                THEN {[job[w] EXCEPT !.thrown = @ + 1]} ELSE {})

WorkerDies(w) ==
  /\ phase[w] # "idle"
  /\ \/ "worker" \in Faults
     \/ "restart" \in Faults /\ job[w].stalled < MaxStalled
  /\ Requeue(w, IF job[w].stalled < MaxStalled
                THEN {[job[w] EXCEPT !.stalled = @ + 1]} ELSE {})

-----------------------------------------------------------------------------
Serve(r) == StoreEvent(r) \/ PublishEvent(r) \/ ResetEvent(r) \/ PublishReplay(r)

Process(w) ==
  \/ \E j \in waiting : TakeJob(w, j)
  \/ ClaimEvent(w) \/ IgnoreEvent(w) \/ FailUnmatched(w) \/ FindOrder(w)
  \/ CreateOrder(w) \/ MarkProcessed(w) \/ Announce(w) \/ RecordFailure(w)

Next ==
  \/ \E r \in Request : \/ \E e \in Event : Accept(r, e) \/ ReadReplayable(r, e)
                        \/ Serve(r) \/ RequestFails(r)
  \/ \E w \in Worker : Process(w) \/ Throws(w) \/ JobThrows(w) \/ WorkerDies(w)

Spec == Init /\ [][Next]_vars

(* A request that was accepted and a job that was queued go on; nobody has *)
(* to deliver an event, and nobody has to replay one.                      *)
Fairness == /\ \A r \in Request : WF_vars(Serve(r))
            /\ \A w \in Worker : WF_vars(Process(w))

FairSpec == Spec /\ Fairness

-----------------------------------------------------------------------------
(* Properties. *)

(* However often an event is delivered, replayed or run again, and however *)
(* many events tell of one order, it is imported once: findFirst and       *)
(* create are two steps, and two workers may take them together.           *)
ImportedOnce == \A o \in Order : orders[o] <= 1

(* An event counts as processed only when its order is there, although a   *)
(* worker that did not create it may be the one that says so.              *)
ProcessedHasOrder ==
  \A e \in Event : status[e] = "PROCESSED" => OrderOf[e] # NoOrder /\ orders[OrderOf[e]] >= 1

(* An event is given up only after the attempts it is entitled to, though  *)
(* the count a worker decides by is the one it read before its own         *)
(* increment.                                                              *)
DeadLetterEarned ==
  \A e \in Event : status[e] = "DEAD_LETTER" => attempts[e] >= MAX_WEBHOOK_ATTEMPTS

(* An order that was imported reaches the other channels: the stock-sync   *)
(* job is published even when the worker died after the import.            *)
ImportIsAnnounced == \A o \in Order : orders[o] = 1 ~> o \in announced

(* A stored event comes to an end that an operator sees.                   *)
Settled == {"PROCESSED", "IGNORED", "FAILED", "DEAD_LETTER"}
StoredIsSettled == \A e \in Event : status[e] = "PENDING" ~> status[e] \in Settled

(* An event nobody works on and no job will ever work on is finished or    *)
(* can be replayed.  One whose first publish failed is not (README,        *)
(* section 5); no run claims it.                                           *)
Abandoned(e) ==
  /\ \A r \in Request : about[r] # e
  /\ \A w \in Worker : job[w] # NoJob => Of(w) # e
  /\ \A j \in waiting : j.event # e
StuckIsReplayable ==
  \A e \in Event : Abandoned(e) => status[e] \in {"none", "PROCESSED", "IGNORED"} \cup Replayable

=============================================================================
