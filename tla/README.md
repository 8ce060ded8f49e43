# StockOps: a TLA+ verification development

StockOps is a warehouse and order management system: a NestJS API
(`apps/api`), a Next.js web application (`apps/web`), a background worker
(`apps/worker`), a customer portal (`apps/portal`) and shared packages
(`packages/*`). Paths below are relative to the root of the repository; `svc`
stands for `apps/api/src/domain/stockops-api.service.ts` and `web` for
`apps/web/src/lib/repository.ts`.

This directory holds TLA+ models of the parts that change shared state
concurrently or across failures, and of the algorithms they decide by, TLC
configurations that check them on small instances, and proofs of the main
invariants for every value of the constants. The models are of **database
mode** (`APP_DATA_SOURCE=database`): PostgreSQL under READ COMMITTED, reached
through `prisma.$transaction`, and BullMQ for jobs. The web application's other
mode, an in-memory demo store, is a mode of `BackOffice` and its specification.

1. [Inventory](#1-inventory) of the system and what makes each part correct
2. [Modules](#2-modules) and how they correspond to the code
3. [Runs](#3-runs): what TLC checks, with which bounds
4. [Proofs](#4-proofs)
5. [What the models say about the code](#5-what-the-models-say-about-the-code)
6. [What is not modelled](#6-what-is-not-modelled)
7. [Plan](#7-plan)

## 1. Inventory

| Part | State | Operations | Hard behaviour | Correct when |
|---|---|---|---|---|
| Stock balance rows (`packages/db/src/stock-balance.ts`) | one `StockBalance` row per (product, warehouse, ...): `onHand`, `reserved`, `available` | `adjustBalance`, `adjustReservation`, both behind `SELECT ... FOR UPDATE` | many transactions on one row; a row inserted by two at a time | agrees with the movement ledger and the reservations; never negative |
| Stock documents (`svc`) | sales, purchases, returns, stocktakes with their status; `StockMovement`, `StockReservation` | create, confirm, receive, approve, transfer, plain movement | status read without a lock; row locks in the order of the lines; failure half way | each document posts once; all of its lines or none; no stuck transaction |
| Reconciliation (`svc` `runReconciliation`) | none of its own; repairs balance rows | compare the ledger with the balances, overwrite, record | several queries without a transaction, while others post | what it settled agrees with the ledger; reserved stock stays reserved |
| Fulfilment (`svc`, `packages/core/src/warehouse-ops.ts`) | order status, line quantities, pick lists, shipments | start picking, update an item, pack, ship, deliver | two clerks on one order; an item updated after the order moved on | ships what was ordered, releases what it ships, status moves forward |
| Webhook inbox and import (`apps/api/src/webhooks`, `apps/worker/src/webhook-processor.ts`) | `WebhookEvent` rows, sales orders, jobs | accept, publish, process, replay | database and queue are two systems; duplicates; restarts; retries | an order is imported once, and an event ends in a state somebody sees |
| Job queue (`packages/queue`, `apps/worker/src/main.ts`) | waiting and active jobs | publish, take, retry, restart a stalled job | at-least-once execution, job ids that deduplicate | (an assumption of the two pipelines) |
| Offline queue and idempotency keys (`apps/web/src/utils/sync-queue.ts`, `apps/api/src/security/idempotency.interceptor.ts`) | actions in IndexedDB, `IdempotencyKey` rows | queue, process, look up, handle, store, expire | several runs and calls for one key; every message can be lost | an action takes effect once and none is lost |
| Invoices and payments (`svc`, `web`, `invoice-status-form.tsx`) | invoice status, payments | create, record a payment, change the status by a form | two payments at a time; a page older than the invoice | the status follows from the payments |
| Accounting sync (`apps/worker/src/accounting-sync-dispatcher.ts`, `packages/integrations/{xero,quickbooks}`) | sync logs, the copy in the other system | trigger, replay, push, log | pushed and logged in two systems; jobs at a time, in any order | nothing pushed twice, no payment before its invoice |
| Web repository (`web`) | the ledger, through Prisma | the same documents again, plus manufacturing and shipping | writes the ledger but no balance row; sums without locks | stock is not overdrawn; agrees with the API's tables |
| Demo store (`apps/web/src/lib/demo-store.ts`) | everything, in memory | the same, synchronously | long sequences of legal calls | the atomic meaning of every operation |
| Mobile lists, service worker (`apps/web/src/components/mobile`, `apps/web/public/sw.js`) | queued work in IndexedDB | queue, replay | two replays; a refusal at the head; overtaking | in order, once, none lost |
| Server actions (`apps/web/src/lib/actions.ts`, `packages/core/src/schemas.ts`) | none | parse a form, call one repository function | forms that a schema lets through | nothing that the schema refuses reaches a table |
| Master data (`svc`, `web`) | products, variants, partners, price tiers, warehouses, members, settings | create, update, delete by the API and by the web application | unique keys, look-ups before inserts, counts before codes | somebody manages; equal to the demo store when nobody overlaps |
| Marketplace packages (`packages/integrations/{shopify,woocommerce,trendyol,hepsiburada,pazarama}`) | circuit breaker, access token, upload tickets | push, pull, resolve, reconcile, poll, webhooks | concurrent requests share the breaker; work from an old read; lost answers | what a job reports as settled is; orders say what was sold |
| Costing (`packages/core/src/costing.ts`) | cost layers, average | receipt, FIFO cost, weighted average | rounding, exact and short layers | costs add up to what was paid |
| Stock rows, advice, alerts (`inventory.ts`, `purchase-recommendations.ts`, `dashboard.ts`, `notifications.ts`) | none | stock rows, reorder quantities, readiness, alerts | netting of stock, orders and demand | what is not advised is covered |
| Forecasting (`forecast.ts`, `forecasting.service.ts`) | none | three methods, smart purchase | gaps, short histories, windows | bounded by history, enough is bought |
| Authentication, UI, SDKs, exports, realtime | | | | see section 6 |

How they interact:

- The API's handlers and the web application's server actions write the same
  PostgreSQL tables. Only the API keeps `StockBalance`; the reconciliation is
  what brings the two together.
- A marketplace delivers to the inbox; the inbox stores an event and publishes
  a job; the worker imports the order and publishes stock-sync and
  notification jobs. An imported order is then confirmed, fulfilled and
  invoiced like any other.
- Invoices and payments are read by the accounting sync, which writes only its
  own logs. `AccountingSync` therefore extends `InvoicePayments`, and a theorem
  (`SyncLeavesBilling`) says that nothing in it changes a billing variable.
- The offline queue and the idempotency interceptor meet at the
  `Idempotency-Key` header only. The mobile lists use another queue, without
  keys, and post server actions.
- Pages read one snapshot (`getAppSnapshot`) and show what
  `packages/core` computes of it: stock rows, advice, forecasts.

## 2. Modules

| Module | Models | State | Actions |
|---|---|---|---|
| `StockTransactions` | the API's stock postings as concurrent transactions | committed tables, row locks, the private rows of each transaction | `CreateStockMovement`, `CreateStockTransfer`, `ConfirmSalesOrder`, `ReceivePurchaseOrder`, `ApproveSalesReturn`, `ApproveStocktakeVariance`; then `Probe`, `Move`, `Hold`, `Commit`; `Fail`, `DeadlockAbort`; `UpdateWarehouse` |
| `StockBook` | what the stock tables promise to a reader (abstract) | the committed books | `Post` |
| `StockReconciliation` | `runReconciliation` against both writers of the ledger | balances, ledger totals, what each run has read | `ApiPost`, `WebCheck`, `WebPost`, `ReadLedger`, `ReadBalances`, `Repair`, `RepairMissingRow`, `Record`, `Crash` |
| `Fulfilment` | pick, pack, ship, deliver | status, line quantities, pick lists, reservations, shipments | `StartPicking`, `UpdatePickListItem`, `PackOrder`, `ShipOrder`, `DeliverOrder`, `Fail` |
| `WebhookPipeline` | the inbox, the import job, replay, BullMQ's retries | events, orders, jobs | `Accept`, `Serve`, `ReadReplayable`, `Process`, `RequestFails`, `Throws`, `JobThrows`, `WorkerDies` |
| `IdempotentSync` | the offline queue and the interceptor | IndexedDB, calls under way, keys | `QueueAction`, `ProcessSyncQueue`, `SendAction`, `FindExisting`, `Handle`, `Refuse`, `Store`, `LoseAnswer`, `ServerDies`, `CloseTab`, `Expire`, ... |
| `InvoicePayments` | invoices, payments, the status form | status, payments, open transactions, rendered pages | `CreateInvoice`, `ReadInvoice`, `RecordPayment`, `Rollback`, `OpenPage`, `TransitionInvoiceStatus` |
| `AccountingSync` | the push to Xero and QuickBooks, on top of it | the other system's copies, logs, jobs | `TriggerSync`, `ReplaySyncLog`, `TakeJob`, `Claim`, `ReadUnsynced`, `Push`, `LogSuccess`, `FinishJob`, ... and each failure |
| `ServerActions` | what each form must look like to reach the repository | none | (operators on a submitted `job`) |
| `WebTables` | the tables of the web repository, a request's life, the snapshot of the pages | all of `BackOffice`'s but `mode` | `Begin`, `Fail` |
| `WebStock`, `WebOrders`, `WebAdmin` | the functions of `web`, by subject (`WebOrders` has the invoices, too) | the same | one action per function, with its steps |
| `ApiService` | the API beside it: which endpoint accepts what; orders, purchases, returns, credit notes, products, partners, warehouses | the same | `Route`, `Serve` |
| `DemoStore` | the in-memory store: a mode, and the abstract specification of the repository | the tables | one action per function, atomic |
| `BackOffice` | all of these over one database, or the store without one | the tables, requests, `mode` | `Handle`, `Route`, `Serve`, `InDemoMode` |
| `MobileQueues` | the three mobile lists and the service worker on one phone | stored items, replays, requests on the wire, the server's documents | `Perform`, `Intercept`, `GoOnline`, `SyncQueue`, `Send`, `Lose`, `Close`, `Answer`, `RemoveFromQueue`, `Handle`, `Sell` |
| `Storefront` | what the marketplace packages share: look-ups, breaker, retries, results of webhooks | none | (operators) |
| `Shopify`, `WooCommerce`, `Trendyol`, `Hepsiburada`, `Pazarama` | what each has of its own | none | (operators) |
| `MarketplaceSync` | jobs that share a client of one marketplace | stock, listings, breaker, token, jobs, tickets | `Push`, `Pull`, `Resolve`, `RunReconciliation`, `GetOrders`, `PollAllPendingTickets`, `Ask`, `GetToken`, `Attempt`, `Apply`, `Sell`, `Ship`, `Process`, `Cool`, `TokenEnds` |
| `Costing`, `Forecasting`, `StockAdvice` | the algorithms of `packages/core` | none | (operators) |
| `Planning` | an organization that sells, buys and looks ahead by them | orders, purchases, movements, costs, the day | `Arrives`, `Imports`, `Ship`, `Refund`, `Buy`, `Receive`, `NextDay` |

`MC*` modules give the constants of an instance and, where a property needs
it, a history variable; `*Proofs` modules hold theorems, and `FiniteSums` the
lemmas about sums over finite sets that several of them rest on. `PROJECT.json` maps
every definition to the lines it models.

Conventions that all modules share:

- **Steps.** Under READ COMMITTED a query sees what has committed before it.
  One action is the code between two points at which another actor can
  intervene: a query outside a transaction, a statement that takes a row lock,
  a commit, an answer from another system. Writes inside a transaction are
  kept apart from the committed tables (`row`, `moved`, `booked` in
  `StockTransactions`), or delayed to the commit where nothing in between can
  block (`InvoicePayments`, `Fulfilment`).
- **Failure.** Faults are actions of their own (`Fail`, `WorkerDies`,
  `LoseAnswer`, ...). Where a model has several, the constant `Faults` names
  those that an instance allows; the runs about safety allow all of them.
- **Data.** A document is a model value with its lines in a constant; a
  quantity is a small number; codes, texts, prices and dates appear only where
  a property depends on them (the shipment code does, because of its unique
  index).
- **Mutants.** An operator introduced by "Mutant:" is not part of the model.
  It is the same operator with a plausible mistake; `PROJECT.json` pairs each
  with the property it must break.

Notes on single modules:

- *StockTransactions.* All six handlers have one skeleton (read the document,
  probe the rows to take from, insert movements and adjust balances, reserve),
  so they share the phases `probe`, `move` and `hold`, and each handler's
  action builds a `plan` from what the handler reads. `LockBalance` is the only
  thing that waits; `WaitsFor` and `DeadlockVictim` are PostgreSQL's deadlock
  detector. `confirmSalesOrder` both deducts `onHand` and reserves the same
  quantity, as the code does, so `available` may well be negative; what is
  promised is that `onHand` is not.
- *StockBook* is a relation between books before and after. It has no notion
  of requests, so refinement says that the committed tables change only by
  whole postings, each justified by what was available when it became visible.
- *StockReconciliation* takes an API posting as one step: this is what
  `ImplementsStockBook` and `LedgerMatchesBalance` of the first module justify.
- *Fulfilment* takes one warehouse and one bin per pick-list item: the
  allocation of a line to bins is not modelled.
- *WebhookPipeline* follows an event from `PENDING` to its end. A job carries
  BullMQ's counters of throws and stalls, since they bound what is retried.
- *IdempotentSync.* A call goes on at the server when its caller has given up,
  which is where a second call for the same key comes from. `Keyed` are the
  actions sent with POST, PATCH or DELETE; the queue takes PUT as well
  (`sync-queue.ts:8`), for which the interceptor neither looks up nor stores a
  key (`isUnsafeMethod`).
- *BackOffice.* A request is a `job` (what a form or an endpoint was given) and
  a place (`at`) in its function; between two places other requests run.
  `ServerActions` and the controllers in `ApiService` say which jobs begin, the
  modules of the repository and the rest of the service what each step reads
  and writes. `stock` is the
  ledger summed by product and warehouse, because this repository reads nothing
  else of it. Who works together is given by *desks* (`Menu`): a desk is a set
  of jobs about one subject (stock, sales, workshop, invoices, warehouses,
  members, catalogue, partners, and three of the API beside the web
  application); requests of different desks touch different tables or are
  covered by the desk that has both. `clashed` is a history variable: the
  subjects (documents, products, `"members"`, `"application"`) that two
  requests worked on at a time. Properties that the code cannot keep for two
  requests on one subject make an exception for exactly these. The forms that post stock
  offer the warehouses there are (`Offered`). The snapshot of the pages is here its
  documents and members; its stock rows, which come from balances or from the
  newest 200 movements, are in `Planning`.
- *DemoStore* is used twice. Instantiated as `Demo` it is what the program does
  without a database; instantiated as `Twin` it is the specification of the
  database mode: as long as no two requests overlap, every commit of the
  repository or of the API is a step of the store or none (`LikeDemoStore`).
  `Seen` maps the states: the store has no pick lists and leaves an order
  `CONFIRMED`. `AsForm` maps the jobs: an endpoint of the API does what the
  store does for the form that stands for it. `OnlyInDatabase` names what the
  store has no counterpart of.
- *MobileQueues.* The worker's day is a script of items. A server action is one
  step (its races are those of `BackOffice`). It may be refused although the
  tables would allow it: `runMutation` answers every error alike, a missing
  permission, an expired session or a database that is down included. `Lose` and
  `Intercept`, the service worker's storing of a failed call, leave it open whether
  the request still reaches the server (`Drops`); `Close` ends a replay where it stands.
- *MarketplaceSync* chooses one of the five packages at the start. A job keeps
  what it has read and works it off call by call. `stirred` (history) says
  which listings others have changed since the job read them; `recent` and
  `waited` (history) are what the breaker is judged by. Nothing in `src/`
  starts these jobs: callers that pass present listings and movements, and
  apply the adjustments they are handed, are assumed. The store of Pazarama's
  token is outside, too. Keys may cross: the packages find the last product of a
  key, so that a listing may be matched to another product's (`Of`), or two
  listings to one; `listed = stock[Of(i)]` is what the code makes of such a
  catalogue, and whether it is what the shop meant is not asked. A small difference that
  `tryAutoFix` counts as repaired with nothing sent (`shopify_wins`,
  `woocommerce_wins`) is in `noted`: StockOps is to make the adjustment upstream,
  which nothing in `src/` does. `declined` (history) are the listings of which the
  marketplace answered with success and did not set them: Pazarama's flag in the answer
  and what became of Trendyol's batch are not looked at. Shopify's GraphQL request
  counts at the breaker only when it is answered with an error: one that throws
  is `"uncounted"`.
- *Planning* recomputes rows, advice, readiness, alerts, costs and forecasts in
  every state. The pages know the newest `SnapshotLimit` movements, and take the rows of the
  balances instead as soon as there is one (`ShownRows`): `Buy` follows either. What is
  checked of the rows holds for those of the balances as far as all who post
  keep them; that the web application does not is `StockReconciliation`. The
  pages of the forecasts look at the first products by name, the service at the first by sku
  (`PageLimit`, `ListLimit`), and the advice is for the supplier's `LeadTime` and
  `SafetyDays`. A line of a payload has its keys as they are written and the number
  its quantity reads as: `Text` and `Trimmed` are what `String()` and `trim()`
  make of a key, and only the importer trims. An order whose quantity is not
  `legible` is made by the handlers and cannot be stored. Amounts are ten-thousandths and forecasts are counted in
  `Scale`-ths of a unit with weights of one half, so that all divisions of the
  instance are exact up to the roundings the code makes itself.

## 3. Runs

| Run | Instance | What it shows |
|---|---|---|
| `StockPostings` | 2 transactions, 2 products, 2 warehouses; two sales with opposite line orders, a receipt, a return, a stocktake, movements and transfers of 1 or 2, a default warehouse that changes | `LedgerMatchesBalance`, `ReservationsMatchBalance`, `NoNegativeStock` under every interleaving and failure; the refinement `ImplementsStockBook`; `EveryTransactionEnds` under fairness |
| `StockPostedOnce` (violation) | 2 transactions, one document of each kind | a document can post twice |
| `ReconcileRows` | 2 API postings, 1 web posting, 2 runs, 2 tuples | `SettledRowsAgree`, `AvailableExcludesReserved` |
| `FulfilOrders` | 2 clerks, one order of two products, 2 shipments | `ReservationsMatchBalance`, `ShippedWithinOrder`, `UnshippedIsReserved`, `ShippedInFull` |
| `WebhookImport` | two events of one order, 2 requests, 2 workers, 1 replay, every fault | `ImportedOnce`, `ProcessedHasOrder`, `DeadLetterEarned` |
| `WebhookLiveness` | three events (two of one order, one about a product), worker restarts only | `StoredIsSettled`, `ImportIsAnnounced` under fairness |
| `SyncFaults` | 2 actions, 2 runs, 2 calls, every fault | `NothingSilentlyLost`, `KeyImpliesApplied`, `AppliedOnce` |
| `BillingSync` | one invoice, two payments, 2 clerks, 1 page, 2 workers, 2 logs, every fault | the status properties, `PaymentAfterInvoice`, `SyncedIsPushed`, `PushedOnce`, `DeadLetterEarned` |
| `BackOffice` | both modes, 12 desks, 7 starting tables, 2 requests at a time, 4 in a behaviour, any of them ending early | `BooksBalance`, `NeverOverdrawn`, `SomebodyManages`, and the refinement `LikeDemoStore` |
| `MobileQueue` | 3 scripts of 3 items, 2 replays, 2 outages, 1 lost answer or closed page | `QueueOrderKept`, `NothingDropped`, `BookIsShelf` |
| `MarketplaceSync` | 5 marketplaces, 3 listings, 2 jobs, 1 sale or shipment, 2 attempts, a breaker that opens after 2 failures | `SettledAgrees`, `RefusedExactly` |
| `Planning` | 2 products, 2 warehouses, 6 payloads, 2 prices, 5 events from nothing or 2 after one of 8 histories | `OrderedAsSold`, `CostsAddUp`, `AdviceCovers`, `ForecastSound` |

What the newer properties say:

- `BooksBalance`: the movements of a product, over all warehouses, come to what
  the documents on the pages sold, bought, returned, consumed and built, and what
  was posted without a document, wherever any request failed; and of a purchase
  that is not listed as open nothing is outstanding. Only a document that two
  requests worked on at a time is excepted from the first. In demo mode there
  are no exceptions for overlap, since nothing overlaps; what a start that runs
  short has taken there (`demo-store.ts:1693`) is counted with the movements
  that have no document, and the repository never takes such a thing.
- `NeverOverdrawn` excepts products that two requests worked on at a time and
  products that an order names twice: the sums read before posting are not
  locked (`web:1231`), and lines are tested one by one (`inventory.ts:109`).
- `SomebodyManages`: the organization keeps an owner or an administrator unless
  two requests about members overlap.
- `QueueOrderKept` and `NothingDropped`: two replays, lost answers and closed
  pages never let a page's later item take effect before an earlier one, and
  no page removes an item that was not applied. `BookIsShelf`: from a count that
  stock did not overtake on its way (`sound`, `stale`) the books agree with the shelf,
  whatever was refused or lost before, until a delivery is taken in that is not
  booked or a count is handled that stock did overtake.
- `AppliedOnce`: each effect of an action beyond the first has an event of its own that
  accounts for it (`excused`): it came as a PUT, or after the key's day, or while another
  request about the action was past its lookup, or an effect without such an
  excuse left no key. Each event lets one effect through, not any number.
- `SettledAgrees`: at the end of a job the listings it reports as settled have
  their product's stock, unless somebody else changed either, or the marketplace
  said that it would set them and did not; what a reconciliation calls repaired
  and only notes still differs by what it noted. `RefusedExactly`
  compares the breaker with its specification in terms of the requests' ends:
  it refuses exactly after `Threshold` counted failures in a row, until the reset time.
- `OrderedAsSold`: an imported order has, of each product, at most what the
  payload says and exactly that when the keys of each line name one and the same
  product; a handler and the importer read the same lines where every sku is text
  without blanks around it and every quantity can be read.
- `CostsAddUp`: what was paid for units is in the layers or in the costs of
  sales, by FIFO up to a rounding of each sale, by average up to that and half a
  part of each unit for each receipt.
- `AdviceCovers`, of the rows of all movements and of the newest: a product that
  is not advised is covered; advice that is followed ends; a product that is at or below
  its minimum in the sum of its warehouses is advised and alerted (one that is
  below it in each warehouse and above it in the sum is alerted only,
  `inventory.ts:70`, `purchase-recommendations.ts:60`); an order of active
  products is called ready exactly when the stock of the default warehouse
  covers it.
- `ForecastSound`: histories lose no sale of their days, forecasts stay within the
  history, a constant demand is forecast as it is, the organization's list says of the
  products on it what their own pages say, and what is advised covers the forecast of
  the lead time and the days of safety, as far as the forecast reaches, with no unit to
  spare.

**Bounds, and why they are enough to be interesting.** The hazards of this
code need two actors on one row, one document, one event or one key, and at
most one more who disturbs both: every run has two of each actor. Two products
are needed for opposed locks and for an order that is partly shipped, two
warehouses for transfers there and back. (`StockTransactions` with three
transactions, in one warehouse, was checked as well; the theorems hold for any
number.) Two attempts (instead of five) let an event be retried, fail again and
be given up; one restart and one replay let each happen before, between and
after the attempts. Quantities are 1 to 3, so that a row can hold enough for one
sale and not for two. `Bounded` of `MCIdempotentSync` stops at two effects of an
action: one too many is what the property is about; of its two actions one has a key. In `BackOffice`
`MaxRequests` = 4 lets a document be created, posted and followed up while
another request disturbs it, and the seven starting tables put an order at every
stage of its life, so that its whole life is covered although no behaviour
walks all of it. In `MobileQueues` three items are a whole pick, and a count
before and after a receipt. In `MarketplaceSync` two attempts and a threshold
of two let a breaker open in the middle of a job, cool down, half open and close
again by a late answer. `Season` = 2 and `Window` = 3 in `Planning` put both
sides of every boundary of the methods within four days; five events are an
order, advice, a receipt in two parts, and a sale. Model values of one sort are
symmetric where the instance gives them the same role (requests, workers,
replays); no run with a liveness property uses symmetry.

Deadlock is not checked (`CHECK_DEADLOCK FALSE`) in instances whose documents,
events, jobs or bounds run out: the system may stop there.

**Fairness.**

- `StockPostings`: a started handler keeps running (its Node.js process
  awaits the next query), and PostgreSQL looks for deadlocks after
  `deadlock_timeout`: weak fairness of `Continue(t)` and `DeadlockAbort(t)`.
  Nobody has to send a request, and nothing has to fail.
- `WebhookLiveness`: an accepted request goes on and the worker takes waiting
  jobs: weak fairness of `Serve` and `Process`. Nobody has to deliver or
  replay. Only restarts of a worker are allowed as faults, because each of the
  others defeats one of the two properties: a publish that fails or a request
  that dies leaves `PENDING` without a job (section 5); queries that fail
  until BullMQ gives up, or a worker that dies once too often, leave `PENDING`
  or `PROCESSING`; and if the products of an order disappear between the
  import and its restart, the event is given up as unmatched although its
  order is there, and the import is never announced.

**History variables** live in MC modules and never constrain a step. They name
the cases in which a property is known not to hold, so that the run shows
these are the *only* ones: `overlapped` (two requests worked on the order at a
time), `excuse` and `excused` (the events that account for an effect beyond the
first), `raced` (two payments at a time, or a
status posted from an old page), `doubtful` (pushed by two jobs at a time, or
pushed and not logged); in the modules themselves `clashed`, `last`,
`stale`, `sound`, `stirred`, `declined`, `recent` and `waited`, explained in section 2.

## 4. Proofs

TLAPS checks these for any sets of actors, documents, products, quantities and
any bounds. The assumptions are the `ASSUME`s of the modules, which TLC
evaluates in the runs: distinct model values, documents that belong to one
table, forms with the fields that their schema names, lines with a product and
an integer quantity (positive, where a schema has parsed them), and finite
tables in the modules that sum over them. Where a theorem has a hypothesis of
its own, it is named below. Every theorem about an invariant goes the same way:
an inductive invariant that TLC has checked first, one step of the proof per
action, and one lemma for what several actions do alike.

- **`StockTransactionsProofs`**: `TypeCorrect`, `LedgerInSync`,
  `ReservationsInSync`, `StockNeverNegative`, `TablesImplementBook`. Type correctness needs `Placed`:
  a handler in a phase stands on a line of its plan. The books are kept by
  `BooksInv`: a transaction's private row of a tuple is the committed row plus
  what it has moved and reserved *as long as it holds the lock*, and it holds
  the lock of every row it has touched; so a commit adds the same quantities
  to both sides. `StockInv` adds that after the probe the row still has what
  the remaining lines take. `StockNeverNegative` assumes that a sale names
  a product once (`OneLinePerProduct`) and that no stocktake finds less than was
  recorded (`NothingMissing`): with repeated lines the probe tests each line by
  itself (section 5), and a stocktake may post any variance, unprobed.
  `TablesImplementBook` is the refinement of `StockBook` under the same two
  conditions. `PostInv` says how far a transaction is with each line that takes
  stock (`Done`): what it has moved and reserved in the row of that line is all
  of the line or nothing, and from its probe on it holds the row and the
  *committed* row covers the line; in any other row it has only added. So a
  commit is one `Post`, and every other step leaves the committed tables alone.
- **`StockReconciliationProofs`**: `TypeCorrect`, `SettledCorrect`,
  `AvailableCorrect`. `RunInv` says, for each run: the sums it holds are
  current for every tuple not in `touched` (`SumsCurrent`), the rows it read
  still exist (`RowsKnown`), and a row neither left to do nor touched agrees
  (`Settled`). The module also holds the theorems about the other copy of the
  stock, the listings of `MarketplaceSync`: `SettledListingsAgree` and
  `BreakerRefusesExactly`, for any number of jobs, listings, sales and attempts.
  `SyncInvariant` says what a job in progress goes by. The quantities it has
  yet to send are those of the present stock, the adjustments it will hand over
  are the present differences, and what it calls settled agrees, each for the
  listings not in `stirred` (`Current`); an upload that is done has set what it
  names (`CarriedOut`); and what is in hand fits the call (`Fits`). Two lemmas
  carry it: a step that changes some listings or their products keeps all of
  this for every other job, if those listings are added to its `stirred`
  (`MarketMoves`), and a step that changes one job keeps it, if that job is
  still right (`OneMoves`). A retry, or an answer that was lost, does no harm
  because setting a quantity again changes nothing. `BreakerInv` says that the breaker remembers
  exactly the end of `recent` (`Remembers`): its count is how many failures
  there are in a row, and it is cooled when `waited`. No assumption is made about
  keys: `ShopAssumption` has only kinds and finite sets, `LimitAssumption`
  the client's limits. Of a listing that was adjusted for, the theorem says so only if no
  other listing is of its product (`Alone`): each of two would be adjusted for.
- **`FulfilmentProofs`**: `TypeSafe`, `ReservedAsSummed`, `NeverOvershipped`,
  `UnshippedStaysReserved`, `NotShippedShort`: all five properties of the run.
  `Carried` says what a clerk's request carries from step to step, which list
  and which item. `WithinInv`: an item has no more taken than it asks for
  (`TakenWithin`), and of an order with one pick list neither what is packed nor
  what a clerk has read of it exceeds the order (`PackedWithin`); the sums over
  the items of a product are where `FiniteSums` is needed. `HistoryInv` is about
  the orders not in `overlapped` (`Orderly`): one clerk works on the order, what that
  clerk has read is still so, and reserved and shipped quantities add up to the
  order's.
- **`WebhookPipelineProofs`**: `TypeCorrect`, `ImportCorrect`,
  `ProcessedCorrect`, `AttemptsCorrect`, and of the data behind them (`Planning`)
  `PlansAreTyped`, `ImportsAsSold`, `AdviceIsEnough`. The import is safe because the
  external code is unique, not because of the look-up: `ImportInv` adds to
  `ImportedOnce` that a worker which marks or announces has an order to speak
  of. `AttemptInv` says that the attempt a
  worker decides by is never more than the row's count once it has claimed.
  `PlanInv` says of every order that it is a true one (`TrueSales`): it came from
  lines with the sku or the code of the product it names. Each handler makes
  nothing or one such order (`WebhookMakes`, `ImportsAsSold`): what is found by a key
  is named by the line (`MatchedTold`, `ToldIsSold`), and where every line has a
  bare sku (`Bare`) and one legible unit or more, the importer's lines are the
  handler's (`AllInOrder`). Of the conversions it is assumed only that they make keys
  of keys and nothing of nothing (`ConversionAssumption`). The advice
  is a matter of sums, for any sequence of movements, the newest or all: what is on hand is the sum over the rows (`OnHandIsSum`),
  what is on order the sum over the open purchases (`OrderedIsPending`), a product
  that is not advised is not short of the two together (`NotAdvised`). The attempt found
  that a line is plain only if all its keys name one product, and that an
  order of an inactive product has no readiness to compare: the importer does
  not filter inactive products, and the rows list active ones only. What may
  arrive is typed (`ArrivalAssumption`), products of the catalogue have
  different ids (`CatalogueAssumption`); warehouses are finitely many with the
  default one among them, minimums are numbers (`AdviceAssumption`).
- **`OfflineQueueProofs`**, of the two queues. Of the queue with keys:
  `TypeCorrect`, `NothingLost`, `KeysCorrect`, `EffectOnce`. `SyncInv` states
  what each phase of a run and each stage of a call *know*: who is about to
  delete an action has an answer for it, and an answer "ok" implies an effect.
  `OnceInv` counts (`Covered`): at most one call about an action is past its lookup
  without an excuse, while it handles the request every effect so far has its event,
  and otherwise one effect may be without, the one that left the key or whose call
  is about to store it.
  Of the mobile lists: `SentInOrder`, `RemovedAnswered`, `CountedIsShelf`.
  `QueueInv` says that what a replay has left is stored for its page and what it
  has on the wire is the oldest of that (`InHands`), and that whatever is stored
  before an item and not left with its replay has been applied (`InOrder`).
  `BookInv` says that a count on its way that is not `stale` is what is on the
  shelf, and that after a count that was `sound` the books lack at most the
  delivery. It needs that a purchase order arrives once in a script
  (`ArrivalAssumption`).
- **`AccountingSyncProofs`**: `StatusCorrect`, `SyncLeavesBilling`,
  `TypeCorrect`, `SyncedCorrect`, `PaymentCorrect`, `DeadLettersCorrect`,
  `PaidWhenCovered`, `PushesOnce`.
  `BillingInv` (`InHand`) says that a sum read by a transaction is a lower
  bound of what is recorded, which makes every status it writes earned;
  `PushInv` adds to `SyncedIsPushed` and `PaymentAfterInvoice` that every
  document a worker has left to push exists in StockOps (`Known`, which no step
  takes back) and that one it is about to log is in the other system;
  `AttemptInv` is as in the webhook pipeline. `PaidInv` (`InTurn`) turns
  `InHand` into an equation for an invoice not in `raced`: the sum that the one
  transaction has read is all that is recorded. The proof found a case that the run's instance
  did not have: an invoice of total 0 is covered by no payments at all and
  stays `DRAFT`, so `FullyPaidIsPaid` is about invoices of which something was
  paid. `OncePushedInv` (`PushedInTurn`) says that a
  document pushed has its log, or the worker that pushed it is about to write it,
  and that who has one left to push has not pushed it.
- **`BackOfficeProofs`**: `OfficeTyped`, `StockCovered`, `ManagerRemains`,
  `BooksAgree`, `RepositoryIsStore`: every
  operation of the repository and of the API in all its steps, and every operation
  of the demo store. `OfficeInv` has four parts. `TypeInv` adds to `TypeOK` what a request has
  to remember for its writes to be typed (`Knows`). `Apart` says that whatever
  two requests under way are both about is in `clashed`; this is what makes
  the rest inductive. `EnoughInv` says that what a request has found
  (`Holds`: the stock it tested, the difference it computed) is still true of
  every product not in `clashed`, and `BackedInv` the same of who let a change
  of a member in. A step of another request either is about the product, which is then
  in `clashed`, or leaves its stock alone (`Careful`). A count may be typed in
  while sales go on, an order may be started with what another receipt brought:
  the theorem needs no assumption about who works together.
  `BooksAgree` is about `BooksInv`, whose parts are: the ledger (`InStock`) is the sum of the
  documents' entries and of what was posted without one (`Balanced`); a warehouse
  that was not created holds nothing (`NothingNowhere`); of a purchase that is
  completed nothing is outstanding, and an order of the workshop that was not
  started has used nothing (`ReceivedInv`, `UsedInv`); and what a request has
  read of the document that it is about to post is still so, unless the document
  is in `clashed`. Every posting changes two places, the ledger and one
  document's entry, by the same amount of each product; the pages' documents are
  the tables' (`PageRows`, `PageSum`). The
  attempt found that a form could name a warehouse that was never created, and
  that a received purchase had been excepted without a reason; the model and the
  property were corrected.
  `RepositoryIsStore` is the refinement (`LikeDemoStore`). The store tests and writes
  at once; a request reads, tests and commits in steps of its own, and may end
  between them. `Recalls` says of each step what the request has tested or read
  and still has to rely on: enough stock, the rows of a bill, the invoice, the flags
  of the warehouses. `Undisturbed` says that this is so of every request as
  long as `"application"`, the subject that all jobs share, is not in
  `clashed`: then at most one request is under way (`AloneAtWork`), and it is
  `Attentive`. From there each operation has one lemma: its reading steps change
  nothing that the store has and establish `Recalls`, its commit is the store's
  operation on `Seen` for `AsForm` of its job (`Alike`). What the database leaves to a
  unique index or to a filtered write, the store tests first; the lemmas show that
  one refuses what the other does. The attempt found that the property had to
  name the form that stands for an endpoint: with the endpoint's own job the
  store took no step at all.
- **`FiniteSums`** has no theorem of its own. Sums (`SumFunction`) are defined
  by recursion over a set; its lemmas say that a sum of integers is one, that any
  element can be taken out, that a change in one place changes the sum by as much,
  that a part without values adds nothing, and what bounds, differences and
  renamings do to it, and that a finite set of numbers can be put in order
  (`Ranked`), for what the code takes from a sorted list. They rest on an induction over
  the subsets of a finite set (`SetInduction`) that needs no operator as a
  parameter, so that the provers can use it.

Type invariants of the modules whose runs do not list one are proved.

Only model-checked:

- liveness (`EveryTransactionEnds`, `StoredIsSettled`, `ImportIsAnnounced`),
  because TLAPS does not handle fairness;
- `CostsAddUp` and `ForecastSound` of `Planning`: what `Costing` and
  `Forecasting` compute by folds over sequences would need induction over
  sequences.

In the modules with proofs no `@` stands for a value inside an `EXCEPT` that is
itself inside an `EXCEPT`, and no `EXCEPT` names two places that may be the same:
the prover does not read those two forms the way TLC does.

## 5. What the models say about the code

One disagreement is a run with an expected violation: `StockPostedOnce`. The
status of a document is read without a lock and written by id (`svc:1183`,
1422, 2367), so two requests post it twice, although the error text at
`svc:2378` and `production_readiness_roadmap.md:121` say otherwise.

These were found with the models, too. They have no run of their own; three are
kept as definitions that a reader can check by naming them in a cfg:

- `web:1249`: the web application writes a movement without a balance row, so
  ledger and balances differ until a reconciliation, against the header of
  `packages/db/src/stock-balance.ts:4-6` (`LedgerMatchesBalance` of
  `StockReconciliation`).
- `svc:2729`: a late item update writes the order's status and reopens a
  delivered order, against `warehouse-ops.test.ts:145-147` and
  `warehouse-ops.ts:95` (`DeliveredIsFinal` of `Fulfilment`).
- `webhook-inbox.service.ts:309`: an event is stored and then published; when
  the publish fails it stays `PENDING`, and `PENDING` cannot be replayed,
  against the error text `accounting.controller.ts:193` (`StuckIsReplayable` of
  `WebhookPipeline`).
- `sw.js:85-94`: the comment says that a failed item makes later ones wait; the
  loop goes on with them.

Others were met while reading and modelling, and the models take them as the
code has them. They are consequences of a missing lock or visible in one line,
and where a property is about them it names them as its exceptions:

- `svc:1200`: the probe of `confirmSalesOrder` tests each line by itself, so a
  document that names a product twice can take more than there is
  (`IMPLEMENTATION_PLAN_V2.md:216` promises that it cannot).
- `svc:3163`: a posting between the two reads of a reconciliation is
  overwritten; `svc:3173`: the `INSERT` for a missing row names a conflict
  target whose unique index was dropped by the migration
  `20260501100000_phase_9_10_wms_commercial_schema` (line 192), so it fails.
- `web:1231`: two movements of the web application can overdraw a tuple.
- `svc:2456`: two requests to start picking make two pick lists; `svc:2878`:
  what is released is counted from lines that may be stale.
- `webhook-processor.ts:77`: `nextAttemptAt` is written and never read
  (`implementation_plan.md:419` describes the retry). Retries are BullMQ's.
- `webhook-processor.ts`: matching the products comes before the look-up of
  the order, so an event whose products are gone by the time a restarted job
  runs is given up although its order was imported.
- `idempotency.interceptor.ts:86`: two calls with one key both take effect
  (`production_readiness_roadmap.md:91`); line 174: an expired key's row is
  never replaced, so the action repeats on every retry from then on.
- `sync-queue.ts:84`: a tab closed while an action is `SYNCING` leaves it there
  (`production_readiness_roadmap.md:159`). The module is not imported by any
  page today; the mobile lists use `lib/offline-queue.ts`.
- `svc:1835`: two partial payments at a time may leave a covered invoice
  `PARTIALLY_PAID`; `web:1891`: an old page cancels an invoice that was paid.
- Accounting: a document that was pushed but could not be logged is pushed
  again; a push answered without an id is logged as success, and the payments
  of that invoice are then skipped for ever; a failed item does not fail its
  job; `PARTIALLY_PAID` invoices are not pushed until they are paid.
- `web:2529`, `web:2571`: two managers can demote or delete each other;
  `web:1388`: two requests that create a first warehouse leave two defaults;
  `web:2672`: two edits of a bill of material leave the lists of both;
  `web:3270`: a price tier is looked up and then created, so it may be there
  twice; `web:2954`: an item of a packed order can still be lowered; `web:875`:
  two counts of one tuple add both differences.
- `demo-store.ts:1691`: a start of manufacturing that runs short keeps the
  components it took before.
- `svc:3033`, `svc:3056`: completing and approving a stocktake test no status;
  no module registers the controller (`app.module.ts:47`). `svc:1099`: the
  answers of several handlers look for their document in the newest 50 only.
  `createSalesReturn` wants a `CONFIRMED` order, so a shipped one cannot be
  returned, and compares each line by itself with what was ordered.
- The page's stock rows are those of the balances as soon as there is one, which the web
  application never writes, and otherwise the sum of the newest 200 movements only
  (`web:609`, `web:734`): with more movements a page shows less or more than
  there is. The page of the forecasts knows the same 200, and the first 50 products.
- `idempotency.interceptor.ts:68`: a PUT has no key, though the queue takes it
  (`sync-queue.ts:8`); the API has one such endpoint (`extensions.controller.ts:196`).
- Mobile lists: a refused item at the head keeps all later ones of its page
  back; a second replay sends again what the first has removed; an action made
  online overtakes stored ones; a stored count undoes sales made since; what is
  refused while online is not stored, so that a delivery may be on the shelf and in
  no book until the next count (a `WarehouseStaff` may count and not receive,
  `inventory.ts:31`).
- Marketplaces: adjustments of two pulls from one state are both applied
  (`inventory-sync.ts:101`); `adjustInventoryLevel` is retried after a lost
  answer although it adds (`shopify/src/client.ts:279`); an upload whose answer
  is lost leaves no ticket (`hepsiburada/src/inventory-sync.ts:87`); retries do
  not look at the breaker again, and a late success closes one that others have
  opened; of two variants with one sku only the first is reconciled; a line
  with an unknown barcode and a known sku is dropped (`trendyol/src/mapper.ts:34`); an sku
  with a blank beside it is found by the importer and dropped by the handlers
  (`webhooks.ts:206`); a difference left to StockOps is reported as repaired
  (`shopify/src/reconciliation.ts:121`); the flag in Pazarama's answer is not
  looked at (`inventory-sync.ts:83`); a network error of Shopify's `graphql()` is
  not counted by the breaker (`client.ts:126`);
  `newest_wins` decides as `stockops_wins` does.
- Alerts are sent again when their job is delivered again
  (`notification-dispatcher.ts:105`); the stock sync logs `SUCCESS` and pushes
  nothing (`sync-dispatcher.ts`); what forecasting advises covers no more than
  its 14 days, however long the lead time.

## 6. What is not modelled

- **A stalled BullMQ worker that is still alive** and goes on with a job that
  another has taken. A restart here means that the first worker is gone. Two
  jobs about one event at a time are modelled (two events, replays).
- **Serialization of balance-row creation** beyond the row lock, variants,
  lots and bins: they refine the key of a row and change nothing else.
- **The accounting pull and the conflict detector**: the pull appends logs under
  the ids of the other system, and nothing calls the detector. The product sync
  has the shape of the invoice sync without a dependency, and token refresh is
  a call whose result nothing stores.
- **Stock sync to marketplaces by the worker**: the dispatcher builds clients
  and pushes nothing yet. The functions it would call are `MarketplaceSync`.
- **Snapshots that are torn**: the many queries of `getAppSnapshot` are taken as
  one moment. Pages only show what they read.
- **Balances that only some postings have kept**, on the pages: the rows of `Planning` are
  those of all movements, of the newest, or of balances that all have kept.
- **First pages, dry runs, duplicate skus** of the marketplace packages: the
  instances have one page of listings, each with a sku of its own, and jobs
  that send.
- **The width of forecast bands**: a square root; whether there is a band is
  modelled. Sorting and wording of advice and alerts.
- **Currency, taxes and invoice lines**: an invoice is its total.
- **Authentication, signatures, permissions, sessions**: the models start
  behind them, with inputs that pass.
- **Barcodes, formatting, exports, pagination, UI, SDKs, metrics, realtime**:
  conversions of what was read, with nothing written back.

## 7. Plan

Done: every component of the inventory that keeps state has a module and a run,
and every module with concurrent actors has proofs: all invariants and action
properties of the runs but `CostsAddUp` and `ForecastSound` of `Planning` are
theorems, and so are the refinements of `StockBook` and `DemoStore`. What is
left is `CostsAddUp`, as far as it does not need induction over sequences: its
cost layers would first have to be kept as functions, as the sums of the other
modules are.
