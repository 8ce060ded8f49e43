-------------------------- MODULE MarketplaceSync --------------------------
(***************************************************************************)
(* The stock of one warehouse and the listings of one marketplace, kept    *)
(* together by jobs that share one client of the marketplace.  A job reads *)
(* the listings and the stock, and then works from what it read: it sends  *)
(* quantities, adjusts the stock, repairs small differences or asks for    *)
(* tickets, one request after another, while the marketplace sells and the *)
(* stock moves.  Nothing in the repository starts these functions: a       *)
(* caller that passes the present listings and movements is assumed, and   *)
(* one that applies the adjustments it is given.  A dry run sends nothing  *)
(* and is left out.                                                        *)
(***************************************************************************)
EXTENDS Shopify, WooCommerce, Trendyol, Hepsiburada, Pazarama

CONSTANTS Shops, Jobs,        \* Jobs is 1 .. n, each begun in its turn
          Sizes,              \* the sizes a batch may have
          Ledger0, Listed0,   \* the quantities at the beginning
          MaxNews             \* bound: sales and movements; each job runs once

ASSUME ShopAssumption ==
  /\ Listed \subseteq Nat /\ IsFiniteSet(Listed)
  /\ Len(Catalogue) \in Nat /\ DOMAIN Catalogue = 1 .. Len(Catalogue) /\ None \notin Products
  /\ Shops \subseteq {"shopify", "woocommerce", "trendyol", "hepsiburada", "pazarama"}
  /\ Sizes \subseteq Nat \ {0}
  /\ Ledger0 \in [Products -> Int] /\ Listed0 \in [Listed -> Int]

VARIABLES
  shop,      \* the marketplace
  stock,     \* the sum of the movements of each product
  listed,    \* the quantity of each listing
  breaker, token, jobs,
  tickets,   \* the uploads to Hepsiburada, with what the caller was told of each
  news,
  recent,    \* history: how the last counted requests ended, at most Threshold of them
  waited     \* history: the reset time has passed since the last counted failure

world == <<stock, listed>>
client == <<breaker, token>>
history == <<recent, waited>>
marketVars == <<shop, world, client, jobs, tickets, news, history>>

Idle == [stage |-> "idle"]

MarketInit ==
  /\ shop \in Shops /\ stock = Ledger0 /\ listed = Listed0
  /\ breaker = Closed /\ token = "valid"
  /\ jobs = [j \in Jobs |-> Idle] /\ tickets = <<>> /\ news = 0
  /\ recent = <<>> /\ waited = FALSE

\* The product of a listing, as the packages match the two; keys may cross, and two
\* listings may be of one product.
Of(i) ==
  CASE shop \in {"shopify", "woocommerce"} -> Lookup({"sku"}, Listings[i].sku)
    [] shop = "trendyol" -> Lookup({"barcode", "sku"}, Listings[i].code)
    [] OTHER -> Lookup({"sku", "barcode"}, Listings[i].sku)

ListedOf(products) == {i \in Listed : Of(i) \in products}

\* The listing has its product to itself.
Alone(i) == \A k \in Listed : Of(k) = Of(i) => k = i

-----------------------------------------------------------------------------
(* A job: the calls it still has to make, the adjustments it will hand     *)
(* over, the listings it reports as settled, the differences it reports as *)
(* repaired and only noted, and two history variables: "stirred", the      *)
(* listings whose quantity, or whose product's, was changed by another     *)
(* since the job read them, and "declined", those the marketplace said it  *)
(* would set and did not.                                                  *)
NextStage(job) ==
  [job EXCEPT !.stage = IF job.plan # <<>> THEN "ask" ELSE IF job.adj # <<>> THEN "apply" ELSE "end"]

New(op, call, plan, adj, known, resolution) ==
  [stage |-> "new", op |-> op, call |-> call, plan |-> plan, adj |-> adj, tries |-> 0,
   stock |-> known, resolution |-> resolution, settled |-> {}, noted |-> {},
   stirred |-> {}, declined |-> {}]

Job(op, call, plan, adj) == NextStage(New(op, call, plan, adj, <<>>, "stockops_wins"))

PushPlan(size) ==
  CASE shop = "shopify" -> ShopifyPush(listed, stock)
    [] shop = "woocommerce" -> WooPush(listed, stock)
    [] shop = "trendyol" -> TrendyolPush(listed, stock, size)
    [] shop = "hepsiburada" -> HBPush(listed, stock)
    [] shop = "pazarama" -> PazaramaPush(listed, stock, size)

PullPlan ==
  CASE shop = "shopify" -> ShopifyPull(listed, stock)
    [] shop = "woocommerce" -> WooPull(listed, stock)
    [] shop = "trendyol" -> TrendyolPull(listed, stock)
    [] shop = "hepsiburada" -> HBPull(listed, stock)
    [] shop = "pazarama" -> PazaramaPull(listed, stock)

Begin(j, job) ==
  /\ jobs[j] = Idle /\ \A k \in Jobs : k < j => jobs[k] # Idle
  /\ jobs' = [jobs EXCEPT ![j] = job]
  /\ UNCHANGED <<shop, world, client, tickets, news, history>>

Push(j) ==
  \E size \in Sizes :
    Begin(j, Job("push", IF shop = "hepsiburada" THEN "upload" ELSE "set", PushPlan(size), <<>>))

Pull(j) == Begin(j, Job("pull", "none", <<>>, PullPlan))

\* Conflicts are resolved one way for all listings; only inventory items can be set.
Resolve(j) ==
  /\ shop = "shopify"
  /\ \E resolution \in {"stockops_wins", "newest_wins", "shop_wins"} :
       LET c == ShopifyConflicts(listed, stock, resolution)
       IN  Begin(j, Job("resolve", "set",
                        At(c.push, {n \in DOMAIN c.push : Listings[c.push[n][1].listing].item}),
                        c.pull))

\* The movements are read before the marketplace is asked for its products.
RunReconciliation(j) ==
  /\ shop \in {"shopify", "woocommerce"}
  /\ \E resolution \in {"stockops_wins", "shop_wins"} :
       Begin(j, NextStage(New("reconcile", "products", <<<<>>>>, <<>>, stock, resolution)))

GetOrders(j) == Begin(j, Job("orders", "orders", <<<<>>>>, <<>>))

PollAllPendingTickets(j) ==
  /\ shop = "hepsiburada"
  /\ LET pending == InOrder({t \in DOMAIN tickets : tickets[t].told = "PENDING"})
     IN  Begin(j, Job("poll", "ticket", [n \in DOMAIN pending |-> <<[ticket |-> pending[n]]>>], <<>>))

-----------------------------------------------------------------------------
(* Requests.                                                               *)
\* The small differences of a reconciliation that are repaired in a way.
Small(job, way) ==
  IF shop = "shopify"
  THEN LET small == ShopifyFixable(ShopifyDiscrepancies(listed, job.stock))
       IN  At(small, {n \in DOMAIN small : ShopifyAutoFix(small[n], job.resolution) = way})
  ELSE LET small == WooFixable(WooDiscrepancies(listed, job.stock))
       IN  At(small, {n \in DOMAIN small : WooAutoFix(small[n], job.resolution) = way})

\* A repair that is sent sets the first listing that has the sku of the difference.
FirstLike(d) == IF shop = "shopify" THEN ShopifyVariant(d) ELSE WooProduct(d)

Repairs(job) ==
  LET sent == Small(job, "send")
  IN  Singly([n \in DOMAIN sent |-> [sent[n] EXCEPT !.listing = FirstLike(sent[n])]])

\* One that is only noted is left to an adjustment that StockOps is to make upstream.
LeftUpstream(job) == ToSet(Adjustments(Small(job, "noted")))

\* What the job does with the end of its request.  A reconciliation that cannot read
\* the products ends; every other failure is one entry of the report.
After(job, ok) ==
  IF job.call = "products"
  THEN NextStage([job EXCEPT !.call = "set", !.tries = 0,
                             !.plan = IF ok THEN Repairs(job) ELSE <<>>,
                             !.noted = IF ok THEN LeftUpstream(job) ELSE {}])
  ELSE NextStage(
         [job EXCEPT !.plan = Tail(@), !.tries = 0,
            !.settled = @ \cup IF ok /\ job.call = "set"
                               THEN {e.listing : e \in ToSet(Head(job.plan))} ELSE {}])

Ask(j) ==
  /\ jobs[j].stage = "ask"
  /\ breaker' = GetCircuitState(breaker)
  /\ jobs' = [jobs EXCEPT ![j] =
       IF breaker'.state = "OPEN" THEN After(@, FALSE)
       ELSE [@ EXCEPT !.stage = IF shop = "pazarama" THEN "token" ELSE "try"]]
  /\ UNCHANGED <<shop, world, token, tickets, news, history>>

\* A renewal that fails says nothing to the breaker.
GetToken(j) ==
  /\ jobs[j].stage = "token"
  /\ \E renewed \in BOOLEAN :
       LET next == EnsureValidToken(token, renewed)
       IN  /\ token' = IF next = "try" THEN "valid" ELSE token
           /\ jobs' = [jobs EXCEPT ![j] =
                IF next = "try" THEN [@ EXCEPT !.stage = "try"] ELSE After(@, FALSE)]
  /\ UNCHANGED <<shop, world, breaker, tickets, news, history>>

\* The others' jobs and tickets hear that listings were changed.
Stir(js, others, changed) ==
  [k \in Jobs |-> IF k \in others /\ js[k] # Idle THEN [js[k] EXCEPT !.stirred = @ \cup changed]
                  ELSE js[k]]
StirTickets(ts, others, changed) ==
  [t \in DOMAIN ts |-> IF t \in others THEN [ts[t] EXCEPT !.stirred = @ \cup changed] ELSE ts[t]]

Sets(entries) ==
  [i \in Listed |-> IF \E e \in ToSet(entries) : e.listing = i
                    THEN (CHOOSE e \in ToSet(entries) : e.listing = i).here ELSE listed[i]]

Effect(call) ==
  CASE shop = "shopify" -> ShopifyEffect(call) [] shop = "woocommerce" -> WooEffect(call)
    [] shop = "trendyol" -> TrendyolEffect(call) [] shop = "hepsiburada" -> HBEffect(call)
    [] shop = "pazarama" -> PazaramaEffect(call)

\* Only the answers to Trendyol's and Pazarama's batches are not looked into.
MayAnswer(job, answer) ==
  answer = "declined" => job.call = "set" /\ shop \in {"trendyol", "pazarama"}

\* The marketplace carries out a call: stock is set at once, or a ticket is made.
Serves(j, job, answer) ==
  LET changed == {e.listing : e \in ToSet(Head(job.plan))}
  IN  CASE Effect(job.call) = "level" ->
             /\ listed' = Sets(Head(job.plan))
             /\ tickets' = StirTickets(tickets, DOMAIN tickets, changed)
        [] Effect(job.call) = "ticket" ->
             /\ tickets' = Append(tickets, [items |-> Head(job.plan), status |-> "PROCESSING",
                                            told |-> IF answer = "ok" THEN "PENDING" ELSE "UNSAVED",
                                            stirred |-> job.stirred])
             /\ UNCHANGED listed
        [] Effect(job.call) = "status" /\ answer = "ok" ->
             /\ tickets' = [tickets EXCEPT ![Head(job.plan)[1].ticket].told =
                              PollTicketStatus(tickets[Head(job.plan)[1].ticket].status)]
             /\ UNCHANGED listed
        [] OTHER -> UNCHANGED <<listed, tickets>>

Outcome(job, answer) ==
  CASE shop = "shopify" -> ShopifyAttempt(job.call, answer, job.tries)
    [] shop = "woocommerce" -> WooAttempt(job.call, answer, job.tries)
    [] shop = "trendyol" -> TrendyolAttempt(job.call, answer, job.tries)
    [] shop = "hepsiburada" -> HBAttempt(job.call, answer, job.tries)
    [] shop = "pazarama" -> PazaramaAttempt(job.call, answer, job.tries)

Attempt(j) ==
  LET job == jobs[j] IN
  /\ job.stage = "try"
  /\ \E answer \in Answers :
       LET outcome == Outcome(job, answer)
           served == answer \in {"ok", "lost"}
           told == IF answer # "declined" THEN job
                   ELSE [job EXCEPT !.declined = @ \cup {e.listing : e \in ToSet(Head(job.plan))}]
           mine == IF outcome = "again" THEN [job EXCEPT !.tries = @ + 1]
                   ELSE After(told, outcome = "done")
           touched == IF served /\ Effect(job.call) = "level"
                      THEN {e.listing : e \in ToSet(Head(job.plan))} ELSE {}
       IN  /\ MayAnswer(job, answer)
           /\ IF served THEN Serves(j, job, answer) ELSE UNCHANGED <<listed, tickets>>
           /\ jobs' = Stir([jobs EXCEPT ![j] = mine], Jobs \ {j}, touched)
           /\ breaker' = CASE outcome = "done" -> OnSuccess(breaker)
                           [] outcome = "failed" -> OnFailure(breaker)
                           [] OTHER -> breaker
           /\ recent' = IF outcome \in {"again", "uncounted"} THEN recent
                        ELSE LET all == Append(recent, outcome)
                             IN  IF Len(all) > Threshold THEN Tail(all) ELSE all
           /\ waited' = (waited /\ outcome # "failed")
  /\ UNCHANGED <<shop, stock, token, news>>

\* The caller writes the adjustments it was given: they are differences of what was read.
Apply(j) ==
  LET job == jobs[j]
      adjusted == {a.listing : a \in ToSet(job.adj)}
      touched == ListedOf({a.product : a \in ToSet(job.adj)})
      mine == [job EXCEPT !.stage = "end", !.settled = @ \cup adjusted]
      change(p) == SumFunction([n \in {m \in DOMAIN job.adj : job.adj[m].product = p} |->
                                  job.adj[n].change])
  IN  /\ job.stage = "apply"
      /\ stock' = [p \in Products |-> stock[p] + change(p)]
      /\ jobs' = Stir([jobs EXCEPT ![j] = mine], Jobs \ {j}, touched)
      /\ tickets' = StirTickets(tickets, DOMAIN tickets, touched)
      /\ UNCHANGED <<shop, listed, client, news, history>>

-----------------------------------------------------------------------------
(* The rest of the world.                                                  *)
Sell(i) ==
  /\ news < MaxNews /\ listed[i] > 0
  /\ listed' = [listed EXCEPT ![i] = @ - 1] /\ news' = news + 1
  /\ jobs' = Stir(jobs, Jobs, {i}) /\ tickets' = StirTickets(tickets, DOMAIN tickets, {i})
  /\ UNCHANGED <<shop, stock, client, history>>

Ship(p) ==
  LET of == ListedOf({p})
  IN  /\ news < MaxNews /\ stock[p] > 0
      /\ stock' = [stock EXCEPT ![p] = @ - 1] /\ news' = news + 1
      /\ jobs' = Stir(jobs, Jobs, of) /\ tickets' = StirTickets(tickets, DOMAIN tickets, of)
      /\ UNCHANGED <<shop, listed, client, history>>

\* Hepsiburada carries out an upload, all of it or nothing, in no particular order.
Process(t) ==
  LET touched == {e.listing : e \in ToSet(tickets[t].items)} IN
  /\ tickets[t].status = "PROCESSING"
  /\ \/ /\ listed' = Sets(tickets[t].items)
        /\ tickets' = StirTickets([tickets EXCEPT ![t].status = "DONE"],
                                  DOMAIN tickets \ {t}, touched)
        /\ jobs' = Stir(jobs, Jobs, touched)
     \/ /\ tickets' = [tickets EXCEPT ![t].status = "FAILED"]
        /\ UNCHANGED <<listed, jobs>>
  /\ UNCHANGED <<shop, stock, client, news, history>>

Cool ==
  /\ breaker.state = "OPEN" /\ ~breaker.cooled
  /\ breaker' = [breaker EXCEPT !.cooled = TRUE] /\ waited' = TRUE
  /\ UNCHANGED <<shop, world, token, jobs, tickets, news, recent>>

TokenEnds ==
  /\ shop = "pazarama" /\ token = "valid" /\ token' = "due"
  /\ UNCHANGED <<shop, world, breaker, jobs, tickets, news, history>>

MarketNext ==
  \/ \E j \in Jobs : \/ Push(j) \/ Pull(j) \/ Resolve(j) \/ RunReconciliation(j) \/ GetOrders(j)
                     \/ PollAllPendingTickets(j) \/ Ask(j) \/ GetToken(j) \/ Attempt(j) \/ Apply(j)
  \/ \E i \in Listed : Sell(i)
  \/ \E p \in Products : Ship(p)
  \/ \E t \in DOMAIN tickets : Process(t)
  \/ Cool \/ TokenEnds

MarketSpec == MarketInit /\ [][MarketNext]_marketVars

-----------------------------------------------------------------------------
\* When a job ends, the quantity of every listing it set is the stock of its product,
\* unless somebody else changed one of the two since the job read them or the marketplace
\* answered and did not set it; so is that of a listing whose product it adjusted, if the
\* listing has the product to itself (two listings of one product are adjusted for twice);
\* and so is that of the listings of an upload whose ticket is told to be done.  What a
\* reconciliation calls repaired and only noted still differs by exactly what it noted.
SettledAgrees ==
  /\ \A j \in Jobs : jobs[j].stage = "end" =>
       /\ \A i \in jobs[j].settled \ (jobs[j].stirred \cup jobs[j].declined) :
            (jobs[j].adj = <<>> \/ Alone(i)) => listed[i] = stock[Of(i)]
       /\ \A a \in jobs[j].noted :
            a.listing \notin jobs[j].stirred => listed[a.listing] = stock[a.product] + a.change
  /\ \A t \in DOMAIN tickets : tickets[t].told = "SUCCESS" =>
       \A e \in ToSet(tickets[t].items) :
         e.listing \notin tickets[t].stirred => listed[e.listing] = stock[Of(e.listing)]

\* A request is refused unsent exactly when the last Threshold requests that the client
\* counts, of whatever job, failed and the reset time has not passed since the last of them
\* did.  It counts every request but Shopify's reading of the products when that throws,
\* which neither opens the breaker nor closes it.
RefusedExactly ==
  [][\A j \in Jobs :
       jobs[j].stage = "ask" /\ jobs'[j] # jobs[j] /\ news' = news
         /\ jobs'[j].stirred = jobs[j].stirred
       => (jobs'[j].stage \in {"token", "try"}
           <=> ~(/\ Len(recent) = Threshold /\ \A n \in DOMAIN recent : recent[n] = "failed"
                 /\ ~waited))]_marketVars
=============================================================================
