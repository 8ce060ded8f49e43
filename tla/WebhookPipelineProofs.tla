------------------------ MODULE WebhookPipelineProofs ------------------------
(***************************************************************************)
(* How webhooks become orders, and what is planned with them: what holds of*)
(* WebhookPipeline for any number of events, orders, requests and workers, *)
(* under every fault of the model, and of Planning for any catalogue and   *)
(* any payloads.                                                           *)
(***************************************************************************)
EXTENDS WebhookPipeline, Planning, FiniteSums

(* A request or a job in progress is about an event, and a job past        *)
(* findFirst about an order.                                               *)
Underway ==
  /\ \A r \in Request : step[r] # "idle" => about[r] \in Event
  /\ \A w \in Worker : phase[w] # "idle" => job[w] \in Job
  /\ \A w \in Worker :
       phase[w] \in {"create", "mark", "announce"} => OrderOf[Of(w)] \in Order

TypeInv == TypeOK /\ Underway

(* nextAttempt was read before the increment, and the count only grows.    *)
Counted ==
  \A w \in Worker :
    /\ phase[w] = "claim" => attempt[w] <= attempts[Of(w)] + 1
    /\ phase[w] \notin {"idle", "claim"} => attempt[w] <= attempts[Of(w)]

(* A worker that found the order there may count on it: orders are not     *)
(* removed.                                                                *)
Found == \A w \in Worker : phase[w] = "mark" => orders[OrderOf[Of(w)]] >= 1

(* Together with the types, the inductive invariant. *)
ImportInv == ImportedOnce /\ ProcessedHasOrder /\ Found
-----------------------------------------------------------------------------

LEMMA InitTyped == Init => TypeInv
BY DEF Init, TypeInv, TypeOK, Underway, Status, Step, Phase, Job

LEMMA NewJob ==
  ASSUME NEW e \in Event, NEW n \in Nat
  PROVE  [event |-> e, replay |-> n, thrown |-> 0, stalled |-> 0] \in Job
BY DEF Job

LEMMA GivenUpStatus ==
  ASSUME NEW n \in Nat PROVE GivenUp(n) \in Status
BY DEF GivenUp, Status

LEMMA RunAgain ==
  ASSUME NEW j \in Job
  PROVE  /\ [j EXCEPT !.thrown = @ + 1] \in Job
         /\ [j EXCEPT !.stalled = @ + 1] \in Job
BY DEF Job

(* A step of a request keeps the types. *)
LEMMA RequestTyped ==
  ASSUME TypeInv, NEW r \in Request,
         \/ \E e \in Event : Accept(r, e) \/ ReadReplayable(r, e)
         \/ Serve(r)
         \/ RequestFails(r)
  PROVE  TypeInv'
<1> USE DEF TypeInv, TypeOK, Underway, GoTo, worker, Step, Status, Of
<1>1. CASE \E e \in Event : Accept(r, e)
  BY <1>1 DEF Accept
<1>2. CASE \E e \in Event : ReadReplayable(r, e)
  BY <1>2 DEF ReadReplayable
<1>3. CASE StoreEvent(r)
  BY <1>3 DEF StoreEvent
<1>4. CASE PublishEvent(r)
  BY <1>4, NewJob DEF PublishEvent, Publish
<1>5. CASE ResetEvent(r)
  BY <1>5 DEF ResetEvent
<1>6. CASE PublishReplay(r)
  BY <1>6, NewJob DEF PublishReplay, Publish
<1>7. CASE RequestFails(r)
  BY <1>7 DEF RequestFails
<1> QED BY <1>1, <1>2, <1>3, <1>4, <1>5, <1>6, <1>7 DEF Serve

(* So does a step of a worker. *)
LEMMA WorkerTyped ==
  ASSUME TypeInv, NEW w \in Worker,
         Process(w) \/ Throws(w) \/ JobThrows(w) \/ WorkerDies(w)
  PROVE  TypeInv'
<1> USE DEF TypeInv, TypeOK, Underway, Finish, Proceed, SetStatus, api, Phase, Of
<1>1. CASE \E j \in waiting : TakeJob(w, j)
  <2>1. PICK j \in waiting : TakeJob(w, j) BY <1>1
  <2>2. j \in Job /\ attempts[j.event] + 1 \in Nat BY DEF Job
  <2> QED BY <2>1, <2>2 DEF TakeJob
<1>2. CASE ClaimEvent(w)
  <2>0. Of(w) \in Event BY <1>2 DEF ClaimEvent, Job
  <2>1. status' \in [Event -> Status \cup {"none"}]
    BY <1>2, <2>0 DEF ClaimEvent, Status
  <2>3. attempts' \in [Event -> Nat]
    <3>1. attempts[Of(w)] + 1 \in Nat BY <2>0
    <3> QED BY <1>2, <2>0, <3>1 DEF ClaimEvent
  <2>2. phase' = [phase EXCEPT ![w] = "import"] /\ phase[w] = "claim"
    BY <1>2 DEF ClaimEvent
  <2> QED BY <1>2, <2>1, <2>2, <2>3 DEF ClaimEvent
<1>3. CASE IgnoreEvent(w)
  <2>1. status' \in [Event -> Status \cup {"none"}] BY <1>3 DEF IgnoreEvent, Status
  <2> QED BY <1>3, <2>1 DEF IgnoreEvent
<1>4. CASE FailUnmatched(w)
  BY <1>4, GivenUpStatus DEF FailUnmatched
<1>5. CASE FindOrder(w)
  <2>1. OrderOf[Of(w)] \in Order BY <1>5, OrderOfAssumption DEF FindOrder, Job
  <2> QED BY <1>5, <2>1 DEF FindOrder
<1>6. CASE CreateOrder(w)
  BY <1>6 DEF CreateOrder, Status
<1>7. CASE MarkProcessed(w)
  BY <1>7 DEF MarkProcessed, Status
<1>8. CASE Throws(w)
  BY <1>8 DEF Throws
<1>9. CASE RecordFailure(w)
  BY <1>9, GivenUpStatus DEF RecordFailure
<1>10. CASE JobThrows(w)
  BY <1>10, RunAgain DEF JobThrows, Requeue
<1>11. CASE WorkerDies(w)
  BY <1>11, RunAgain DEF WorkerDies, Requeue
<1>12. CASE Announce(w)
  BY <1>12 DEF Announce
<1> QED BY <1>1, <1>2, <1>3, <1>4, <1>5, <1>6, <1>7, <1>8, <1>9, <1>10, <1>11, <1>12 DEF Process

LEMMA StepTyped == TypeInv /\ [Next]_vars => TypeInv'
<1> SUFFICES ASSUME TypeInv, [Next]_vars PROVE TypeInv'
  OBVIOUS
<1>1. CASE UNCHANGED vars
  BY <1>1 DEF TypeInv, TypeOK, Underway, Of, vars, api, worker
<1>2. CASE Next
  BY <1>2, RequestTyped, WorkerTyped DEF Next
<1> QED BY <1>1, <1>2

(* Every reachable state is well typed.                                    *)
THEOREM TypeCorrect == Spec => []TypeOK
<1>1. Init => TypeInv BY InitTyped
<1>2. TypeInv /\ [Next]_vars => TypeInv' BY StepTyped
<1>3. TypeInv => TypeOK BY DEF TypeInv
<1> QED BY <1>1, <1>2, <1>3, PTL DEF Spec
-----------------------------------------------------------------------------

(* The orders and the events that count as processed.                      *)
LEMMA StepImport == TypeInv /\ ImportInv /\ [Next]_vars => ImportInv'
<1> SUFFICES ASSUME TypeInv, ImportInv, [Next]_vars PROVE ImportInv'
  OBVIOUS
<1> USE NoOrderAssumption
    DEF TypeInv, TypeOK, Underway, ImportInv, ImportedOnce, ProcessedHasOrder, Found, Of
<1>1. CASE UNCHANGED vars
  BY <1>1 DEF vars, api, worker
<1>2. ASSUME NEW r \in Request,
             \/ \E e \in Event : Accept(r, e) \/ ReadReplayable(r, e)
             \/ Serve(r)
             \/ RequestFails(r)
      PROVE  ImportInv'
  <2>1. /\ UNCHANGED <<orders, worker>>
        /\ \A e \in Event : status'[e] \in {status[e], "PENDING"}
    BY <1>2 DEF Accept, ReadReplayable, Serve, StoreEvent, PublishEvent, ResetEvent,
                PublishReplay, RequestFails
  <2> QED BY <2>1 DEF worker
<1>3. ASSUME NEW w \in Worker, \E j \in waiting : TakeJob(w, j) PROVE ImportInv'
  BY <1>3 DEF TakeJob
<1>4. ASSUME NEW w \in Worker, ClaimEvent(w) PROVE ImportInv'
  BY <1>4 DEF ClaimEvent, SetStatus, Proceed
<1>5. ASSUME NEW w \in Worker, IgnoreEvent(w) PROVE ImportInv'
  BY <1>5 DEF IgnoreEvent, SetStatus, Finish
<1>6. ASSUME NEW w \in Worker, FailUnmatched(w) \/ RecordFailure(w) PROVE ImportInv'
  BY <1>6 DEF FailUnmatched, RecordFailure, SetStatus, Finish, GivenUp
<1>7. ASSUME NEW w \in Worker, FindOrder(w) PROVE ImportInv'
  BY <1>7, OrderOfAssumption DEF FindOrder, Proceed, Job
<1>8. ASSUME NEW w \in Worker, CreateOrder(w) PROVE ImportInv'
  <2>1. phase[w] = "create" /\ OrderOf[Of(w)] \in Order /\ Of(w) \in Event
    BY <1>8 DEF CreateOrder, Job
  <2>2. CASE orders[OrderOf[Of(w)]] = 0
    <3>1. /\ orders' = [orders EXCEPT ![OrderOf[Of(w)]] = 1]
          /\ SetStatus(w, "PROCESSED") /\ Proceed(w, "announce")
      BY <1>8, <2>2 DEF CreateOrder
    <3>2. \A o \in Order : orders'[o] \in Nat /\ orders'[o] >= orders[o] /\ orders'[o] <= 1
      BY <2>1, <2>2, <3>1
    <3>3. ProcessedHasOrder'
      BY <2>1, <3>1, <3>2, OrderOfAssumption DEF SetStatus
    <3>4. Found'
      BY <2>1, <3>1, <3>2 DEF Proceed
    <3> QED BY <3>2, <3>3, <3>4
  <2>3. CASE orders[OrderOf[Of(w)]] # 0
    BY <1>8, <2>3 DEF CreateOrder, Proceed
  <2> QED BY <2>2, <2>3
<1>9. ASSUME NEW w \in Worker, MarkProcessed(w) PROVE ImportInv'
  BY <1>9 DEF MarkProcessed, SetStatus, Proceed
<1>10. ASSUME NEW w \in Worker, Announce(w) PROVE ImportInv'
  BY <1>10 DEF Announce, Finish
<1>11. ASSUME NEW w \in Worker, Throws(w) PROVE ImportInv'
  BY <1>11 DEF Throws, Proceed
<1>12. ASSUME NEW w \in Worker, JobThrows(w) \/ WorkerDies(w) PROVE ImportInv'
  BY <1>12 DEF JobThrows, WorkerDies, Requeue
<1> QED BY <1>1, <1>2, <1>3, <1>4, <1>5, <1>6, <1>7, <1>8, <1>9, <1>10, <1>11, <1>12
        DEF Next, Process

LEMMA InitImport == Init => ImportInv
BY DEF Init, ImportInv, ImportedOnce, ProcessedHasOrder, Found

LEMMA AlwaysImport == Spec => []ImportInv
<1>1. Init => TypeInv /\ ImportInv BY InitTyped, InitImport
<1>2. TypeInv /\ ImportInv /\ [Next]_vars => (TypeInv /\ ImportInv)'
  BY StepTyped, StepImport
<1> QED BY <1>1, <1>2, PTL DEF Spec

(* Redelivery, replay and concurrent workers import no order twice.        *)
THEOREM ImportCorrect == Spec => []ImportedOnce
<1>1. ImportInv => ImportedOnce BY DEF ImportInv
<1> QED BY <1>1, AlwaysImport, PTL

(* What counts as processed has its order.                                 *)
THEOREM ProcessedCorrect == Spec => []ProcessedHasOrder
<1>1. ImportInv => ProcessedHasOrder BY DEF ImportInv
<1> QED BY <1>1, AlwaysImport, PTL
-----------------------------------------------------------------------------

(* The attempts: a worker never counts further than the row does.          *)
AttemptInv == DeadLetterEarned /\ Counted

LEMMA StepAttempt == TypeInv /\ AttemptInv /\ [Next]_vars => AttemptInv'
<1> SUFFICES ASSUME TypeInv, AttemptInv, [Next]_vars PROVE AttemptInv'
  OBVIOUS
<1> USE BoundsAssumption
    DEF TypeInv, TypeOK, Underway, AttemptInv, DeadLetterEarned, Counted, Of
<1>1. CASE UNCHANGED vars
  BY <1>1 DEF vars, api, worker
<1>2. ASSUME NEW r \in Request,
             \/ \E e \in Event : Accept(r, e) \/ ReadReplayable(r, e)
             \/ Serve(r)
             \/ RequestFails(r)
      PROVE  AttemptInv'
  <2>1. /\ UNCHANGED <<attempts, worker>>
        /\ \A e \in Event : status'[e] \in {status[e], "PENDING"}
    BY <1>2 DEF Accept, ReadReplayable, Serve, StoreEvent, PublishEvent, ResetEvent,
                PublishReplay, RequestFails
  <2> QED BY <2>1 DEF worker
<1>3. ASSUME NEW w \in Worker, \E j \in waiting : TakeJob(w, j) PROVE AttemptInv'
  BY <1>3 DEF TakeJob, Job
<1>4. ASSUME NEW w \in Worker, ClaimEvent(w) PROVE AttemptInv'
  <2>1. Of(w) \in Event BY <1>4 DEF ClaimEvent, Job
  <2>2. \A e \in Event : attempts'[e] \in Nat /\ attempts'[e] >= attempts[e]
    BY <1>4, <2>1 DEF ClaimEvent
  <2>3. attempts'[Of(w)] = attempts[Of(w)] + 1
    BY <1>4, <2>1 DEF ClaimEvent
  <2>4. DeadLetterEarned'
    BY <1>4, <2>1, <2>2 DEF ClaimEvent, SetStatus
  <2>5. Counted'
    BY <1>4, <2>1, <2>2, <2>3 DEF ClaimEvent, Proceed, Job
  <2> QED BY <2>4, <2>5
<1>5. ASSUME NEW w \in Worker, IgnoreEvent(w) PROVE AttemptInv'
  BY <1>5 DEF IgnoreEvent, SetStatus, Finish
<1>6. ASSUME NEW w \in Worker, FailUnmatched(w) \/ RecordFailure(w) PROVE AttemptInv'
  <2>1. Of(w) \in Event /\ attempt[w] <= attempts[Of(w)]
    BY <1>6 DEF FailUnmatched, RecordFailure, Job
  <2> QED BY <1>6, <2>1 DEF FailUnmatched, RecordFailure, SetStatus, Finish, GivenUp
<1>7. ASSUME NEW w \in Worker, FindOrder(w) PROVE AttemptInv'
  BY <1>7 DEF FindOrder, Proceed
<1>8. ASSUME NEW w \in Worker, CreateOrder(w) PROVE AttemptInv'
  BY <1>8 DEF CreateOrder, SetStatus, Proceed
<1>9. ASSUME NEW w \in Worker, MarkProcessed(w) PROVE AttemptInv'
  BY <1>9 DEF MarkProcessed, SetStatus, Proceed
<1>10. ASSUME NEW w \in Worker, Announce(w) PROVE AttemptInv'
  BY <1>10 DEF Announce, Finish
<1>11. ASSUME NEW w \in Worker, Throws(w) PROVE AttemptInv'
  BY <1>11 DEF Throws, Proceed
<1>12. ASSUME NEW w \in Worker, JobThrows(w) \/ WorkerDies(w) PROVE AttemptInv'
  BY <1>12 DEF JobThrows, WorkerDies, Requeue
<1> QED BY <1>1, <1>2, <1>3, <1>4, <1>5, <1>6, <1>7, <1>8, <1>9, <1>10, <1>11, <1>12
        DEF Next, Process

(* No event is given up before it has had its attempts.                    *)
THEOREM AttemptsCorrect == Spec => []DeadLetterEarned
<1>1. Init => TypeInv /\ AttemptInv
  BY InitTyped DEF Init, AttemptInv, DeadLetterEarned, Counted
<1>2. TypeInv /\ AttemptInv /\ [Next]_vars => (TypeInv /\ AttemptInv)'
  BY StepTyped, StepAttempt
<1>3. AttemptInv => DeadLetterEarned BY DEF AttemptInv
<1> QED BY <1>1, <1>2, <1>3, PTL DEF Spec

-----------------------------------------------------------------------------
(* Planning: what orders, purchases and movements are. *)
Line == [product : Products, quantity : Nat \ {0}, legible : BOOLEAN]
OrderStatus ==
  {"DRAFT", "CONFIRMED", "PICKING", "PACKED", "SHIPPED", "DELIVERED", "CANCELLED"}
Sold ==
  [lines : Seq(Line), status : OrderStatus, by : {"handler", "importer"}, shop : Shops,
   payload : DOMAIN Payloads, day : Nat, refunded : BOOLEAN]
Wanted ==
  [product : Active, quantity : Nat, received : Nat,
   status : {"SENT", "PARTIALLY_RECEIVED", "RECEIVED"}]

TrueSales == {o \in Sold : AsSold(o)}

PlanInv ==
  placed \in Seq(TrueSales) /\ bought \in Seq(Wanted) /\ moved \in Seq(Moved) /\ today \in Nat

(***************************************************************************)
(* What is found by a key is a product that has the key.                   *)
(***************************************************************************)
LEMMA IdsOf ==
  /\ DOMAIN Catalogue \subseteq Nat /\ IsFiniteSet(DOMAIN Catalogue)
  /\ \A i \in DOMAIN Catalogue : Catalogue[i].id \in Products /\ Catalogue[i].id # None
<1>1. PICK n \in Nat : DOMAIN Catalogue = 1 .. n
  BY CatalogueAssumption
<1>2. IsFiniteSet(1 .. n)
  BY <1>1, FS_Interval
<1> QED BY <1>1, <1>2, CatalogueAssumption DEF Products

Holders(fields, key) == {i \in DOMAIN Catalogue : \E f \in fields : Catalogue[i][f] = key}

LEMMA HolderFound ==
  ASSUME NEW fields, NEW key
  PROVE  IF key = None \/ Holders(fields, key) = {} THEN Lookup(fields, key) = None
         ELSE \E i \in Holders(fields, key) : Lookup(fields, key) = Catalogue[i].id
<1> DEFINE S == Holders(fields, key)
<1>1. CASE key = None \/ S = {}
  BY <1>1 DEF Lookup, Holders
<1>2. CASE ~ (key = None \/ S = {})
  <2>1. S \in SUBSET DOMAIN Catalogue
    BY DEF Holders
  <2>2. \E i \in S : \A k \in S : k <= i
    <3> HIDE DEF S
    <3> QED BY <1>2, <2>1, IdsOf, Greatest
  <2>3. \E i \in S : \A k \in S : i >= k
    BY <2>1, <2>2, IdsOf
  <2>4. Max(S) \in S
    <3> HIDE DEF S
    <3> QED BY <2>3 DEF Max
  <2>5. Lookup(fields, key) = Catalogue[Max(S)].id
    BY <1>2 DEF Lookup, Holders
  <2> QED BY <1>2, <2>4, <2>5
<1> QED BY <1>1, <1>2

Fields == {{"sku"}, {"barcode", "sku"}}

(* The key of a line that is looked for: the sku, as it is written or in   *)
(* another form, if that is all that is looked at, or one of the two.      *)
Forms(line) == {line.sku, Text[line.sku], Trimmed[line.sku]}

KeyOf(fields, key, line) ==
  /\ fields \in Fields /\ key \in Forms(line) \cup {line.code}
  /\ line.sku # None /\ Bare(line) => key # None
  /\ fields = {"sku"} => key \in Forms(line)

LEMMA FoundIsNamed ==
  ASSUME NEW fields, NEW key, NEW line, KeyOf(fields, key, line),
         NEW i \in DOMAIN Catalogue, Lookup(fields, key) = Catalogue[i].id
  PROVE  Names(line, Catalogue[i])
<1>1. PICK k \in Holders(fields, key) : key # None /\ Catalogue[k].id = Catalogue[i].id
  BY HolderFound, IdsOf
<1>2. k = i
  BY <1>1, CatalogueAssumption DEF Holders
<1>3. key \in {Catalogue[i].sku, Catalogue[i].barcode}
  BY <1>1, <1>2 DEF Holders, KeyOf, Fields
<1> QED BY <1>1, <1>3 DEF Names, KeyOf, Forms

LEMMA NamedIsFound ==
  ASSUME NEW fields, NEW key, NEW line, KeyOf(fields, key, line), line.sku # None,
         Bare(line), NEW i \in DOMAIN Catalogue, line.sku = Catalogue[i].sku,
         line.code \in {None, Catalogue[i].sku, Catalogue[i].barcode},
         \A k \in DOMAIN Catalogue : Names(line, Catalogue[k]) => k = i
  PROVE  Lookup(fields, key) = Catalogue[i].id
<1>1. i \in Holders(fields, key)
  <2>1. Forms(line) = {line.sku}
    BY DEF Forms, Bare
  <2> QED BY <2>1 DEF Holders, KeyOf, Fields
<1>2. PICK k \in Holders(fields, key) : Lookup(fields, key) = Catalogue[k].id
  BY <1>1, HolderFound DEF KeyOf
<1>3. k \in DOMAIN Catalogue /\ Names(line, Catalogue[k])
  BY <1>2, FoundIsNamed DEF Holders
<1> QED BY <1>2, <1>3

LEMMA FoundIsThere ==
  ASSUME NEW fields, NEW key, Lookup(fields, key) # None
  PROVE  Lookup(fields, key) \in Products
BY HolderFound, IdsOf DEF Holders

(***************************************************************************)
(* The lines of an order, and what its payload says of a product.          *)
(***************************************************************************)
Told(lines, keys, fields, p) ==
  [n \in DOMAIN lines |->
     IF Lookup(fields, keys[n]) = p THEN AtLeastNone(lines[n].quantity) ELSE 0]

PayloadLine == [sku : Keys, code : Keys, quantity : Int, legible : BOOLEAN]

LEMMA PayloadLines ==
  ASSUME NEW k \in DOMAIN Payloads
  PROVE  /\ Payloads[k].lines \in Seq(PayloadLine)
         /\ \A n \in DOMAIN Payloads[k].lines :
              /\ Payloads[k].lines[n] \in PayloadLine
              /\ ~ Payloads[k].lines[n].legible => Payloads[k].lines[n].quantity = 0
<1>1. PICK lines \in Seq(PayloadLine) : lines = Payloads[k].lines
  BY ArrivalAssumption DEF PayloadLine
<1>2. \A n \in DOMAIN lines : lines[n] \in PayloadLine
  OBVIOUS
<1> QED BY <1>1, <1>2, ArrivalAssumption

LEMMA PlacesOf ==
  ASSUME NEW T, NEW list \in Seq(T), NEW S \in SUBSET (DOMAIN list)
  PROVE  /\ IsFiniteSet(DOMAIN list) /\ DOMAIN list \subseteq Nat
         /\ IsFiniteSet(S) /\ Cardinality(S) \in Nat
         /\ InOrder(S) \in [1 .. Cardinality(S) -> S]
         /\ \A n, m \in 1 .. Cardinality(S) : InOrder(S)[n] = InOrder(S)[m] => n = m
         /\ \A x \in S : \E n \in 1 .. Cardinality(S) : InOrder(S)[n] = x
<1>1. IsFiniteSet(DOMAIN list) /\ DOMAIN list \subseteq Nat
  <2>1. PICK n \in Nat : DOMAIN list = 1 .. n
    OBVIOUS
  <2> QED BY <2>1, FS_Interval
<1>2. IsFiniteSet(S) /\ S \subseteq Nat
  BY <1>1, FS_Subset
<1>3. /\ Cardinality(S) \in Nat /\ InOrder(S) \in [1 .. Cardinality(S) -> S]
      /\ \A n, m \in 1 .. Cardinality(S) : InOrder(S)[n] = InOrder(S)[m] => n = m
      /\ \A x \in S : \E n \in 1 .. Cardinality(S) : InOrder(S)[n] = x
  BY <1>2, Places DEF InOrder
<1> QED BY <1>1, <1>2, <1>3

(* A sum over some places in order is the sum over the list, if the rest   *)
(* has nothing.                                                            *)
LEMMA SumInOrder ==
  ASSUME NEW T, NEW list \in Seq(T), NEW S \in SUBSET (DOMAIN list),
         NEW f, NEW g, \A n \in DOMAIN list : g[n] \in Int,
         \A n \in DOMAIN list \ S : g[n] = 0,
         \A n \in 1 .. Cardinality(S) : f[n] = g[InOrder(S)[n]]
  PROVE  SumFunctionOnSet(f, 1 .. Cardinality(S)) = SumFunctionOnSet(g, DOMAIN list)
<1>1. PICK c \in Nat : c = Cardinality(S)
  BY PlacesOf
<1>2. PICK m : m = InOrder(S)
  OBVIOUS
<1>3. /\ m \in [1 .. c -> S] /\ \A x, y \in 1 .. c : m[x] = m[y] => x = y
      /\ \A y \in S : \E x \in 1 .. c : m[x] = y
      /\ IsFiniteSet(DOMAIN list)
  BY <1>1, <1>2, PlacesOf
<1>4. IsFiniteSet(1 .. c)
  BY <1>1, FS_Interval
<1>5. \A x \in 1 .. c : f[x] \in Int /\ g[m[x]] = f[x]
  BY <1>1, <1>2, <1>3
<1>6. SumFunctionOnSet(g, S) = SumFunctionOnSet(f, 1 .. c)
  <2>1. PICK D : D = 1 .. c
    OBVIOUS
  <2>2. SumFunctionOnSet(g, {m[x] : x \in D}) = SumFunctionOnSet(f, D)
    <3>1. /\ IsFiniteSet(D) /\ \A x \in D : f[x] \in Int /\ g[m[x]] = f[x]
          /\ \A x, y \in D : m[x] = m[y] => x = y
      BY <1>3, <1>4, <1>5, <2>1
    <3> QED BY <3>1, SumRenamed
  <2>3. {m[x] : x \in D} = S
    BY <1>3, <2>1
  <2> QED BY <2>1, <2>2, <2>3
<1>7. SumFunctionOnSet(g, DOMAIN list) = SumFunctionOnSet(g, S)
  BY <1>3, SumWithin
<1> QED BY <1>1, <1>6, <1>7

InLine(lines, p) == [n \in DOMAIN lines |-> IF lines[n].product = p THEN lines[n].quantity ELSE 0]

LEMMA QuantityIsSum ==
  ASSUME NEW lines, NEW p
  PROVE  QuantityIn(lines, p) = SumFunctionOnSet(InLine(lines, p), DOMAIN lines)
BY DEF QuantityIn, InLine, Added, SumFunction

LEMMA MatchedTold ==
  ASSUME NEW lines \in Seq(PayloadLine), NEW keys, NEW fields,
         \A n \in DOMAIN lines : Lookup(fields, keys[n]) # None => lines[n].quantity > 0
  PROVE  /\ Matched(lines, keys, fields) \in Seq(Line)
         /\ \A p \in Products :
              QuantityIn(Matched(lines, keys, fields), p)
                = SumFunctionOnSet(Told(lines, keys, fields, p), DOMAIN lines)
<1> DEFINE known == {n \in DOMAIN lines : Lookup(fields, keys[n]) # None}
<1>1. PICK S \in SUBSET (DOMAIN lines) : S = known
  OBVIOUS
<1>2. PICK c \in Nat : c = Cardinality(S)
  BY PlacesOf
<1>3. PICK m \in [1 .. c -> S] : m = InOrder(S)
  BY <1>2, PlacesOf
<1>4. PICK made : made = Matched(lines, keys, fields)
  OBVIOUS
<1>5. made = [k \in 1 .. c |-> [product |-> Lookup(fields, keys[m[k]]),
                                quantity |-> lines[m[k]].quantity,
                                legible |-> lines[m[k]].legible]]
  BY <1>1, <1>3, <1>4 DEF Matched
<1>6. ASSUME NEW k \in 1 .. c
      PROVE  /\ m[k] \in DOMAIN lines /\ Lookup(fields, keys[m[k]]) # None
             /\ made[k].product = Lookup(fields, keys[m[k]])
             /\ made[k].quantity = lines[m[k]].quantity
             /\ made[k] \in Line
  <2>1. m[k] \in DOMAIN lines /\ Lookup(fields, keys[m[k]]) # None
    BY <1>1
  <2>2. /\ Lookup(fields, keys[m[k]]) \in Products
        /\ lines[m[k]].quantity \in Nat \ {0} /\ lines[m[k]].legible \in BOOLEAN
    <3>0. lines[m[k]] \in PayloadLine
      BY <2>1
    <3>1. /\ lines[m[k]].quantity \in Int /\ lines[m[k]].quantity > 0
          /\ lines[m[k]].legible \in BOOLEAN
      BY <2>1, <3>0 DEF PayloadLine
    <3> QED BY <2>1, <3>1, FoundIsThere
  <2> QED BY <1>5, <2>1, <2>2 DEF Line
<1>7. DOMAIN made = 1 .. c /\ made \in Seq(Line)
  <2>1. made \in [1 .. c -> Line]
    BY <1>5, <1>6
  <2> QED BY <1>2, <2>1
<1>8. ASSUME NEW p \in Products
      PROVE  QuantityIn(made, p) = SumFunctionOnSet(Told(lines, keys, fields, p), DOMAIN lines)
  <2>1. p # None
    BY CatalogueAssumption
  <2>2. PICK g : g = Told(lines, keys, fields, p)
    OBVIOUS
  <2>3. \A n \in DOMAIN lines :
          /\ lines[n].quantity \in Int
          /\ g[n] = IF Lookup(fields, keys[n]) = p THEN lines[n].quantity ELSE 0
    <3>1. \A n \in DOMAIN lines : lines[n] \in PayloadLine
      OBVIOUS
    <3>2. \A n \in DOMAIN lines :
            /\ lines[n].quantity \in Int
            /\ Lookup(fields, keys[n]) = p => lines[n].quantity > 0
      BY <2>1, <3>1 DEF PayloadLine
    <3> QED BY <2>2, <3>2 DEF Told, AtLeastNone
  <2>4. /\ \A n \in DOMAIN lines : g[n] \in Int
        /\ \A n \in DOMAIN lines \ S : g[n] = 0
    BY <1>1, <2>1, <2>3
  <2>5. PICK f : f = InLine(made, p)
    OBVIOUS
  <2>6. \A k \in 1 .. c : f[k] = g[m[k]]
    BY <1>6, <1>7, <2>3, <2>5 DEF InLine
  <2>7. SumFunctionOnSet(f, 1 .. c) = SumFunctionOnSet(g, DOMAIN lines)
    <3>1. \A k \in 1 .. Cardinality(S) : f[k] = g[InOrder(S)[k]]
      BY <1>2, <1>3, <2>6
    <3>2. SumFunctionOnSet(f, 1 .. Cardinality(S)) = SumFunctionOnSet(g, DOMAIN lines)
      BY <2>4, <3>1, SumInOrder
    <3> QED BY <1>2, <3>2
  <2> QED BY <1>7, <2>2, <2>5, <2>7, QuantityIsSum
<1> QED BY <1>4, <1>7, <1>8

(* What is found by the keys of the lines is what the payload says, or     *)
(* less if a key is of another product.                                    *)
LEMMA ToldIsSold ==
  ASSUME NEW k \in DOMAIN Payloads, NEW keys, NEW fields,
         \A n \in DOMAIN Payloads[k].lines : KeyOf(fields, keys[n], Payloads[k].lines[n]),
         NEW i \in DOMAIN Catalogue, NEW quantity,
         quantity = SumFunctionOnSet(Told(Payloads[k].lines, keys, fields, Catalogue[i].id),
                                     DOMAIN Payloads[k].lines)
  PROVE  /\ quantity <= SoldOf(Payloads[k], i)
         /\ Plain(Payloads[k]) => quantity = SoldOf(Payloads[k], i)
<1>1. PICK lines \in Seq(PayloadLine) : lines = Payloads[k].lines
  BY ArrivalAssumption DEF PayloadLine
<1>2. IsFiniteSet(DOMAIN lines)
  BY <1>1, PlacesOf
<1>3. PICK f : f = Told(lines, keys, fields, Catalogue[i].id)
  OBVIOUS
<1>4. PICK g : g = [n \in DOMAIN lines |-> IF Names(lines[n], Catalogue[i])
                                           THEN AtLeastNone(lines[n].quantity) ELSE 0]
  OBVIOUS
<1>5. SoldOf(Payloads[k], i) = SumFunctionOnSet(g, DOMAIN lines)
  BY <1>1, <1>4 DEF SoldOf, Added, SumFunction
<1>6. \A n \in DOMAIN lines : AtLeastNone(lines[n].quantity) \in Nat
  <2>1. \A n \in DOMAIN lines : lines[n] \in PayloadLine
    BY <1>1
  <2> QED BY <2>1 DEF AtLeastNone, PayloadLine
<1>7. \A n \in DOMAIN lines :
        Lookup(fields, keys[n]) = Catalogue[i].id => Names(lines[n], Catalogue[i])
  BY <1>1, FoundIsNamed
<1>8. \A n \in DOMAIN lines : f[n] \in Int /\ g[n] \in Int /\ f[n] <= g[n]
  BY <1>3, <1>4, <1>6, <1>7 DEF Told
<1>9. SumFunctionOnSet(f, DOMAIN lines) <= SumFunctionOnSet(g, DOMAIN lines)
  BY <1>2, <1>8, SumLeq
<1>10. ASSUME Plain(Payloads[k])
       PROVE  SumFunctionOnSet(f, DOMAIN lines) = SumFunctionOnSet(g, DOMAIN lines)
  <2>1. ASSUME NEW n \in DOMAIN lines, Names(lines[n], Catalogue[i])
        PROVE  Lookup(fields, keys[n]) = Catalogue[i].id
    <3>1. PICK l \in PayloadLine : l = lines[n]
      BY <1>1
    <3>2. /\ l.sku # None
          /\ Bare(l)
          /\ \E j \in DOMAIN Catalogue :
               /\ l.sku = Catalogue[j].sku
               /\ l.code \in {None, Catalogue[j].sku, Catalogue[j].barcode}
               /\ \A x \in DOMAIN Catalogue : Names(l, Catalogue[x]) => x = j
      BY <1>1, <1>10, <3>1 DEF Plain
    <3>3. /\ Bare(l) /\ l.sku = Catalogue[i].sku
          /\ l.code \in {None, Catalogue[i].sku, Catalogue[i].barcode}
          /\ \A x \in DOMAIN Catalogue : Names(l, Catalogue[x]) => x = i
      BY <2>1, <3>1, <3>2
    <3>4. KeyOf(fields, keys[n], l)
      BY <1>1, <3>1
    <3> QED BY <3>2, <3>3, <3>4, NamedIsFound
  <2>2. \A n \in DOMAIN lines : f[n] = g[n]
    BY <1>3, <1>4, <1>7, <2>1 DEF Told
  <2> QED BY <1>2, <2>2, SumSame
<1> QED BY <1>1, <1>3, <1>5, <1>9, <1>10

(***************************************************************************)
(* The orders that the handlers and the importer make.                     *)
(***************************************************************************)
LEMMA AllInOrder ==
  ASSUME NEW T, NEW list \in Seq(T)
  PROVE  At(list, DOMAIN list) = list
<1>1. PICK n \in Nat : DOMAIN list = 1 .. n
  OBVIOUS
<1>2. Cardinality(1 .. n) = n
  BY FS_Interval
<1>3. \A x \in 1 .. n : Cardinality({y \in 1 .. n : y < x}) = x - 1
  <2> TAKE x \in 1 .. n
  <2>1. {y \in 1 .. n : y < x} = 1 .. (x - 1)
    OBVIOUS
  <2>2. Cardinality(1 .. (x - 1)) = x - 1
    BY FS_Interval
  <2> QED BY <2>1, <2>2
<1>4. ASSUME NEW k \in 1 .. n PROVE InOrder(1 .. n)[k] = k
  <2>1. InOrder(1 .. n)[k] = CHOOSE x \in 1 .. n : Cardinality({y \in 1 .. n : y < x}) = k - 1
    BY <1>2 DEF InOrder
  <2>2. \A x \in 1 .. n : Cardinality({y \in 1 .. n : y < x}) = k - 1 <=> x = k
    BY <1>3
  <2> QED BY <2>1, <2>2
<1>5. At(list, DOMAIN list) = [k \in 1 .. n |-> list[k]]
  BY <1>1, <1>2, <1>4 DEF At
<1> QED BY <1>1, <1>5

SkuKeys(lines) == {Skus(lines), WooSkus(lines), TrimmedSkus(lines)}

LEMMA SkuIsKey ==
  ASSUME NEW lines, NEW keys \in SkuKeys(lines), NEW n \in DOMAIN lines
  PROVE  KeyOf({"sku"}, keys[n], lines[n])
<1>1. keys[n] \in Forms(lines[n])
  BY DEF SkuKeys, Skus, WooSkus, TrimmedSkus, Forms
<1>2. lines[n].sku # None /\ Bare(lines[n]) => keys[n] # None
  BY <1>1 DEF Forms, Bare
<1> QED BY <1>1, <1>2 DEF KeyOf, Fields

LEMMA ImportTold ==
  ASSUME NEW k \in DOMAIN Payloads, ImportedOrder(Payloads[k]).lines # <<>>
  PROVE  LET lines == Payloads[k].lines
             order == ImportedOrder(Payloads[k])
         IN  /\ order.lines \in Seq(Line) /\ order.status = "DRAFT"
             /\ \A p \in Products :
                  QuantityIn(order.lines, p)
                    = SumFunctionOnSet(Told(lines, TrimmedSkus(lines), {"sku"}, p), DOMAIN lines)
<1>1. PICK lines \in Seq(PayloadLine) : lines = Payloads[k].lines
  BY ArrivalAssumption DEF PayloadLine
<1>2. PICK S \in SUBSET (DOMAIN lines) : S = {n \in DOMAIN lines : lines[n].quantity > 0}
  OBVIOUS
<1>3. PICK some : some = ExtractExternalOrder(Payloads[k])
  OBVIOUS
<1>4. some = At(lines, S)
  <2>1. CASE Payloads[k].id
    BY <1>1, <1>2, <1>3, <2>1 DEF ExtractExternalOrder
  <2>2. CASE ~ Payloads[k].id
    <3>1. some = <<>>
      BY <1>3, <2>2 DEF ExtractExternalOrder
    <3>2. PICK known : known = {n \in DOMAIN some : Lookup({"sku"}, TrimmedSkus(some)[n]) # None}
      OBVIOUS
    <3>3. known = {}
      BY <3>1, <3>2
    <3>4. Cardinality(known) = 0
      BY <3>3, FS_EmptySet
    <3>5. InOrder(known) = <<>>
      BY <3>4 DEF InOrder
    <3>6. PICK none : none = InOrder(known)
      OBVIOUS
    <3>7. DOMAIN none = {}
      BY <3>5, <3>6
    <3>8. Matched(some, TrimmedSkus(some), {"sku"})
            = [n \in DOMAIN none |-> [product |-> Lookup({"sku"}, TrimmedSkus(some)[none[n]]),
                                     quantity |-> some[none[n]].quantity,
                                     legible |-> some[none[n]].legible]]
      BY <3>2, <3>6 DEF Matched
    <3>9. Matched(some, TrimmedSkus(some), {"sku"}) = <<>>
      BY <3>7, <3>8
    <3>10. ImportedOrder(Payloads[k]).lines = <<>>
      BY <1>3, <3>9 DEF ImportedOrder
    <3> QED BY <3>10
  <2> QED BY <2>1, <2>2
<1>5. PICK c \in Nat : c = Cardinality(S)
  BY PlacesOf
<1>6. \A n \in 1 .. c : InOrder(S)[n] \in S /\ some[n] = lines[InOrder(S)[n]]
  BY <1>4, <1>5, PlacesOf DEF At
<1>7. \A n \in 1 .. c : some[n] \in PayloadLine /\ some[n].quantity > 0
  <2> TAKE n \in 1 .. c
  <2>1. PICK x \in S : x = InOrder(S)[n]
    BY <1>6
  <2>2. lines[x] \in PayloadLine /\ lines[x].quantity > 0
    BY <1>2
  <2> QED BY <1>6, <2>1, <2>2
<1>8. DOMAIN some = 1 .. c /\ some \in Seq(PayloadLine)
  <2>1. some = [n \in 1 .. c |-> some[n]]
    BY <1>4, <1>5 DEF At
  <2>2. some \in [1 .. c -> PayloadLine]
    BY <1>7, <2>1
  <2> QED BY <1>5, <2>2
<1>9. PICK made : made = Matched(some, TrimmedSkus(some), {"sku"})
  OBVIOUS
<1>10. /\ made \in Seq(Line)
       /\ \A p \in Products :
            QuantityIn(made, p) = SumFunctionOnSet(Told(some, TrimmedSkus(some), {"sku"}, p), DOMAIN some)
  BY <1>7, <1>8, <1>9, MatchedTold
<1>11. ImportedOrder(Payloads[k]) = [lines |-> made, status |-> "DRAFT"]
  BY <1>3, <1>9 DEF ImportedOrder
<1>12. ASSUME NEW p \in Products
       PROVE  SumFunctionOnSet(Told(some, TrimmedSkus(some), {"sku"}, p), DOMAIN some)
                = SumFunctionOnSet(Told(lines, TrimmedSkus(lines), {"sku"}, p), DOMAIN lines)
  <2>1. PICK f, g : /\ f = Told(some, TrimmedSkus(some), {"sku"}, p)
                    /\ g = Told(lines, TrimmedSkus(lines), {"sku"}, p)
    OBVIOUS
  <2>2. \A n \in DOMAIN lines : lines[n].quantity \in Int
    <3>1. \A n \in DOMAIN lines : lines[n] \in PayloadLine
      OBVIOUS
    <3> QED BY <3>1 DEF PayloadLine
  <2>3. \A n \in DOMAIN lines : g[n] \in Int /\ (n \notin S => g[n] = 0)
    BY <1>2, <2>1, <2>2 DEF Told, AtLeastNone
  <2>4. \A n \in 1 .. c : f[n] = g[InOrder(S)[n]]
    BY <1>6, <1>8, <2>1 DEF Told, TrimmedSkus
  <2>5. SumFunctionOnSet(f, 1 .. Cardinality(S)) = SumFunctionOnSet(g, DOMAIN lines)
    BY <1>5, <2>3, <2>4, SumInOrder
  <2> QED BY <1>5, <1>8, <2>1, <2>5
<1> QED BY <1>1, <1>10, <1>11, <1>12

(* What a handler makes of a payload: nothing, or one order of the lines   *)
(* found by the keys that its package looks for.                           *)
MadeBy(shop, payload, order) ==
  \E fields \in Fields, keys \in [DOMAIN payload.lines -> Keys] :
    /\ Sane(payload)
    /\ \A n \in DOMAIN payload.lines : KeyOf(fields, keys[n], payload.lines[n])
    /\ order.lines = Matched(payload.lines, keys, fields)
    /\ shop \in {"shopify", "woo"} =>
         payload.id /\ fields = {"sku"} /\ keys \in SkuKeys(payload.lines)

Makes(shop, payload, given) ==
  \/ given = <<>>
  \/ \E lines : \E state \in OrderStatus :
       /\ given = <<[lines |-> lines, status |-> state]>>
       /\ MadeBy(shop, payload, [lines |-> lines, status |-> state])

LEMMA SkusAreKeys ==
  ASSUME NEW k \in DOMAIN Payloads, NEW keys \in SkuKeys(Payloads[k].lines)
  PROVE  keys \in [DOMAIN Payloads[k].lines -> Keys]
<1>1. PICK lines : lines = Payloads[k].lines
  OBVIOUS
<1>2. \A n \in DOMAIN lines : lines[n].sku \in Keys
  BY <1>1, PayloadLines DEF PayloadLine
<1>3. \A n \in DOMAIN lines : Text[lines[n].sku] \in Keys /\ Trimmed[lines[n].sku] \in Keys
  BY <1>2, ConversionAssumption
<1> QED BY <1>1, <1>2, <1>3 DEF SkuKeys, Skus, WooSkus, TrimmedSkus

LEMMA ImportedMakes ==
  ASSUME NEW shop, NEW payload, NEW fields \in Fields, NEW keys \in [DOMAIN payload.lines -> Keys],
         NEW state \in OrderStatus, Sane(payload),
         \A n \in DOMAIN payload.lines : KeyOf(fields, keys[n], payload.lines[n]),
         shop \in {"shopify", "woo"} =>
           payload.id /\ fields = {"sku"} /\ keys \in SkuKeys(payload.lines)
  PROVE  Makes(shop, payload,
               Imported([lines |-> Matched(payload.lines, keys, fields), status |-> state]).orders)
<1>1. PICK lines : lines = Matched(payload.lines, keys, fields)
  OBVIOUS
<1>2. PICK order : order = [lines |-> lines, status |-> state]
  OBVIOUS
<1>3. MadeBy(shop, payload, order)
  BY <1>1, <1>2 DEF MadeBy
<1>4. Imported(order).orders = <<>> \/ Imported(order).orders = <<order>>
  BY DEF Imported, Ignored, Noted
<1>5. PICK given : given = Imported(order).orders
  OBVIOUS
<1>6. Makes(shop, payload, given)
  <2>1. CASE given = <<>>
    BY <2>1 DEF Makes
  <2>2. CASE given = <<order>>
    <3>1. \E l : \E s \in OrderStatus : /\ given = <<[lines |-> l, status |-> s]>>
                                        /\ MadeBy(shop, payload, [lines |-> l, status |-> s])
      BY <1>2, <1>3, <2>2
    <3> QED BY <3>1 DEF Makes
  <2> QED BY <1>4, <1>5, <2>1, <2>2
<1> QED BY <1>1, <1>2, <1>5, <1>6

LEMMA EitherKeys ==
  ASSUME NEW k \in DOMAIN Payloads
  PROVE  LET lines == Payloads[k].lines
             first == [n \in DOMAIN lines |-> Either(lines[n].sku, lines[n].code)]
             second == [n \in DOMAIN lines |-> Either(lines[n].code, lines[n].sku)]
         IN  /\ first \in [DOMAIN lines -> Keys] /\ second \in [DOMAIN lines -> Keys]
             /\ \A n \in DOMAIN lines : /\ KeyOf({"barcode", "sku"}, first[n], lines[n])
                                        /\ KeyOf({"barcode", "sku"}, second[n], lines[n])
<1>1. PICK lines \in Seq(PayloadLine) : lines = Payloads[k].lines
  BY ArrivalAssumption DEF PayloadLine
<1>2. \A n \in DOMAIN lines : lines[n] \in PayloadLine
  BY <1>1
<1>3. \A n \in DOMAIN lines : lines[n].sku \in Keys /\ lines[n].code \in Keys
  BY <1>2 DEF PayloadLine
<1>4. {"barcode", "sku"} # {"sku"}
  <2>1. "barcode" \in {"barcode", "sku"} /\ "barcode" \notin {"sku"}
    OBVIOUS
  <2> QED BY <2>1
<1> QED BY <1>1, <1>3, <1>4 DEF Either, KeyOf, Fields, Forms

LEMMA WebhookMakes ==
  ASSUME NEW k \in DOMAIN Payloads, NEW shop \in Shops, NEW topic
  PROVE  Makes(shop, Payloads[k], Webhook(shop, topic, Payloads[k]).orders)
<1>1. PICK payload : payload = Payloads[k]
  OBVIOUS
<1>2. PICK lines : lines = payload.lines
  OBVIOUS
<1>3. /\ {"sku"} \in Fields
      /\ \A keys \in SkuKeys(lines) :
           /\ keys \in [DOMAIN lines -> Keys]
           /\ \A n \in DOMAIN lines : KeyOf({"sku"}, keys[n], lines[n])
  BY <1>1, <1>2, SkusAreKeys, SkuIsKey DEF Fields
<1>4. /\ {"barcode", "sku"} \in Fields
      /\ HBKeys(lines) \in [DOMAIN lines -> Keys] /\ TrendyolKeys(lines) \in [DOMAIN lines -> Keys]
      /\ \A n \in DOMAIN lines : /\ KeyOf({"barcode", "sku"}, HBKeys(lines)[n], lines[n])
                                 /\ KeyOf({"barcode", "sku"}, TrendyolKeys(lines)[n], lines[n])
  BY <1>1, <1>2, EitherKeys DEF HBKeys, TrendyolKeys, Fields
<1>5. /\ PazaramaKeys(lines) = HBKeys(lines)
      /\ Skus(lines) \in SkuKeys(lines) /\ WooSkus(lines) \in SkuKeys(lines)
  BY DEF PazaramaKeys, HBKeys, SkuKeys
<1>6. \A given : given = <<>> => Makes(shop, payload, given)
  BY DEF Makes
<1>7. Failed.orders = <<>> /\ Ignored.orders = <<>> /\ Noted.orders = <<>>
  BY DEF Failed, Ignored, Noted
<1>8. \A valid : NotedIf(valid).orders = <<>>
  BY <1>7 DEF NotedIf
<1>9. \A skus : Importable(skus).orders = <<>>
  BY DEF Importable, Ignored, Noted
<1>10. CASE shop = "shopify"
  <2>1. Webhook(shop, topic, payload) = ShopifyWebhook(topic, payload)
    BY <1>10 DEF Webhook
  <2>2. Makes(shop, payload, ShopifyOrderCreate(payload).orders)
    <3>1. CASE ShopifyValid(payload)
      <4>1. PICK state \in OrderStatus : state = ShopifyOrder(payload).status
        BY DEF ShopifyOrder, OrderStatus
      <4>2. ShopifyOrder(payload) = [lines |-> Matched(lines, Skus(lines), {"sku"}), status |-> state]
        BY <1>2, <4>1 DEF ShopifyOrder
      <4>3. Makes(shop, payload, Imported(ShopifyOrder(payload)).orders)
        BY <1>2, <1>3, <1>5, <3>1, <4>2, ImportedMakes DEF ShopifyValid
      <4> QED BY <3>1, <4>3 DEF ShopifyOrderCreate
    <3> QED BY <1>6, <1>7, <3>1 DEF ShopifyOrderCreate
  <2>3. \/ ShopifyWebhook(topic, payload) = ShopifyOrderCreate(payload)
        \/ ShopifyWebhook(topic, payload).orders = <<>>
    BY <1>7, <1>8, <1>9 DEF ShopifyWebhook, ShopifyOrderChange, ShopifyProductCreate,
         ShopifyProductChange, ShopifyOther
  <2> QED BY <1>1, <1>6, <2>1, <2>2, <2>3
<1>11. CASE shop = "woo"
  <2>1. Webhook(shop, topic, payload) = WooWebhook(topic, payload)
    BY <1>11 DEF Webhook
  <2>2. Makes(shop, payload, WooOrderCreate(payload).orders)
    <3>1. CASE WooValid(payload)
      <4>1. PICK state \in OrderStatus : state = WooOrder(payload).status
        BY DEF WooOrder, OrderStatus
      <4>2. WooOrder(payload) = [lines |-> Matched(lines, WooSkus(lines), {"sku"}), status |-> state]
        BY <1>2, <4>1 DEF WooOrder
      <4>3. Makes(shop, payload, Imported(WooOrder(payload)).orders)
        BY <1>2, <1>3, <1>5, <3>1, <4>2, ImportedMakes DEF WooValid
      <4> QED BY <3>1, <4>3 DEF WooOrderCreate
    <3> QED BY <1>6, <1>7, <3>1 DEF WooOrderCreate
  <2>3. \/ WooWebhook(topic, payload) = WooOrderCreate(payload)
        \/ WooWebhook(topic, payload).orders = <<>>
    BY <1>7, <1>8, <1>9 DEF WooWebhook, WooOrderChange, WooProductCreate, WooProductChange
  <2> QED BY <1>1, <1>6, <2>1, <2>2, <2>3
<1>12. CASE shop = "trendyol"
  <2>1. Webhook(shop, topic, payload) = TrendyolWebhook(topic, payload)
    BY <1>12 DEF Webhook
  <2>2. Makes(shop, payload, TrendyolOrderCreate(payload).orders)
    <3>1. CASE TrendyolValid(payload)
      <4>1. PICK state \in OrderStatus : state = TrendyolOrder(payload).status
        <5>1. \A s \in DOMAIN TrendyolStatus : TrendyolStatus[s] \in OrderStatus
          BY DEF TrendyolStatus, OrderStatus
        <5> QED BY <5>1 DEF TrendyolOrder, StatusBy, OrderStatus
      <4>2. TrendyolOrder(payload)
              = [lines |-> Matched(lines, TrendyolKeys(lines), {"barcode", "sku"}), status |-> state]
        BY <1>2, <4>1 DEF TrendyolOrder
      <4>3. Makes(shop, payload, Imported(TrendyolOrder(payload)).orders)
        BY <1>2, <1>4, <1>12, <3>1, <4>2, ImportedMakes DEF TrendyolValid
      <4> QED BY <3>1, <4>3 DEF TrendyolOrderCreate
    <3> QED BY <1>6, <1>7, <3>1 DEF TrendyolOrderCreate
  <2>3. \/ TrendyolWebhook(topic, payload) = TrendyolOrderCreate(payload)
        \/ TrendyolWebhook(topic, payload).orders = <<>>
    BY <1>7, <1>8 DEF TrendyolWebhook, TrendyolOrderChange
  <2> QED BY <1>1, <1>6, <2>1, <2>2, <2>3
<1>13. CASE shop = "hepsiburada"
  <2>1. Webhook(shop, topic, payload) = HBWebhook(topic, payload)
    BY <1>13 DEF Webhook
  <2>2. Makes(shop, payload, HBOrderCreate(payload).orders)
    <3>1. CASE HBValid(payload)
      <4>1. PICK state \in OrderStatus : state = HBOrder(payload).status
        <5>1. \A s \in DOMAIN HBStatus : HBStatus[s] \in OrderStatus
          BY DEF HBStatus, OrderStatus
        <5> QED BY <5>1 DEF HBOrder, StatusBy, OrderStatus
      <4>2. HBOrder(payload)
              = [lines |-> Matched(lines, HBKeys(lines), {"barcode", "sku"}), status |-> state]
        BY <1>2, <4>1 DEF HBOrder
      <4>3. Makes(shop, payload, Imported(HBOrder(payload)).orders)
        BY <1>2, <1>4, <1>13, <3>1, <4>2, ImportedMakes DEF HBValid
      <4> QED BY <3>1, <4>3 DEF HBOrderCreate
    <3> QED BY <1>6, <1>7, <3>1 DEF HBOrderCreate
  <2>3. \/ HBWebhook(topic, payload) = HBOrderCreate(payload)
        \/ HBWebhook(topic, payload).orders = <<>>
    BY <1>7, <1>8 DEF HBWebhook, HBOrderChange
  <2> QED BY <1>1, <1>6, <2>1, <2>2, <2>3
<1>14. CASE shop = "pazarama"
  <2>1. Webhook(shop, topic, payload) = PazaramaWebhook(topic, payload)
    BY <1>14 DEF Webhook
  <2>2. Makes(shop, payload, PazaramaOrderCreate(payload).orders)
    <3>1. CASE PazaramaValid(payload)
      <4>1. PICK state \in OrderStatus : state = PazaramaOrder(payload).status
        <5>1. \A s \in DOMAIN PazaramaStatus : PazaramaStatus[s] \in OrderStatus
          BY DEF PazaramaStatus, OrderStatus
        <5> QED BY <5>1 DEF PazaramaOrder, StatusBy, OrderStatus
      <4>2. PazaramaOrder(payload)
              = [lines |-> Matched(lines, HBKeys(lines), {"barcode", "sku"}), status |-> state]
        BY <1>2, <1>5, <4>1 DEF PazaramaOrder
      <4>3. Makes(shop, payload, Imported(PazaramaOrder(payload)).orders)
        BY <1>2, <1>4, <1>14, <3>1, <4>2, ImportedMakes DEF PazaramaValid
      <4> QED BY <3>1, <4>3 DEF PazaramaOrderCreate
    <3> QED BY <1>6, <1>7, <3>1 DEF PazaramaOrderCreate
  <2>3. \/ PazaramaWebhook(topic, payload) = PazaramaOrderCreate(payload)
        \/ PazaramaWebhook(topic, payload).orders = <<>>
    BY <1>7, <1>8 DEF PazaramaWebhook, PazaramaOrderChange
  <2> QED BY <1>1, <1>6, <2>1, <2>2, <2>3
<1> QED BY <1>10, <1>11, <1>12, <1>13, <1>14 DEF Shops

SameAsImported(o) ==
  (/\ o.by = "handler" /\ o.shop \in {"shopify", "woo"}
   /\ \A n \in DOMAIN Payloads[o.payload].lines :
        Bare(Payloads[o.payload].lines[n]) /\ Payloads[o.payload].lines[n].legible)
  => ImportedOrder(Payloads[o.payload]).lines = o.lines

(* An order whose lines are found by such keys sells what its payload says. *)
LEMMA FoundIsAsSold ==
  ASSUME NEW k \in DOMAIN Payloads, NEW keys, NEW fields,
         \A n \in DOMAIN Payloads[k].lines : KeyOf(fields, keys[n], Payloads[k].lines[n]),
         NEW o, o.payload = k, o.lines \in Seq(Line),
         \A p \in Products :
           QuantityIn(o.lines, p) = SumFunctionOnSet(Told(Payloads[k].lines, keys, fields, p),
                                                     DOMAIN Payloads[k].lines),
         SameAsImported(o)
  PROVE  AsSold(o)
<1>1. \A l \in DOMAIN o.lines : o.lines[l].quantity > 0
  <2> TAKE l \in DOMAIN o.lines
  <2>1. o.lines[l] \in Line
    OBVIOUS
  <2> QED BY <2>1 DEF Line
<1>2. ASSUME NEW i \in DOMAIN Catalogue
      PROVE  /\ QuantityIn(o.lines, Catalogue[i].id) <= SoldOf(Payloads[k], i)
             /\ Plain(Payloads[k]) => QuantityIn(o.lines, Catalogue[i].id) = SoldOf(Payloads[k], i)
  <2>1. Catalogue[i].id \in Products
    BY IdsOf
  <2>2. PICK quantity : quantity = QuantityIn(o.lines, Catalogue[i].id)
    OBVIOUS
  <2>3. quantity = SumFunctionOnSet(Told(Payloads[k].lines, keys, fields, Catalogue[i].id),
                                    DOMAIN Payloads[k].lines)
    BY <2>1, <2>2
  <2>4. quantity <= SoldOf(Payloads[k], i) /\ (Plain(Payloads[k]) => quantity = SoldOf(Payloads[k], i))
    BY <2>3, ToldIsSold
  <2> QED BY <2>2, <2>4
<1> QED BY <1>1, <1>2 DEF AsSold, SameAsImported

\* Every line that is found is among the lines found.
LEMMA AllMatched ==
  ASSUME NEW lines \in Seq(PayloadLine), NEW keys, NEW fields, NEW m \in DOMAIN lines,
         Lookup(fields, keys[m]) # None,
         \A x \in DOMAIN Matched(lines, keys, fields) : Matched(lines, keys, fields)[x].legible
  PROVE  lines[m].legible
<1>1. PICK S \in SUBSET (DOMAIN lines) : S = {n \in DOMAIN lines : Lookup(fields, keys[n]) # None}
  OBVIOUS
<1>2. PICK c \in Nat : c = Cardinality(S)
  BY PlacesOf
<1>3. PICK p \in [1 .. c -> S] : p = InOrder(S)
  BY <1>2, PlacesOf
<1>4. Matched(lines, keys, fields) =
        [k \in 1 .. c |-> [product |-> Lookup(fields, keys[p[k]]), quantity |-> lines[p[k]].quantity,
                          legible |-> lines[p[k]].legible]]
  BY <1>1, <1>3 DEF Matched
<1>5. PICK x \in 1 .. c : p[x] = m
  BY <1>1, <1>2, <1>3, PlacesOf
<1>6. PICK made : made = Matched(lines, keys, fields)
  OBVIOUS
<1>7. x \in DOMAIN made /\ made[x].legible = lines[m].legible
  BY <1>4, <1>5, <1>6
<1> QED BY <1>6, <1>7

LEMMA MadeIsAsSold ==
  ASSUME NEW k \in DOMAIN Payloads, NEW shop \in Shops, NEW given, Makes(shop, Payloads[k], given),
         NEW n \in DOMAIN given, NEW day \in Nat,
         \A l \in DOMAIN given[n].lines : given[n].lines[l].legible,
         NEW o, o = [lines |-> given[n].lines, status |-> given[n].status, by |-> "handler",
                     shop |-> shop, payload |-> k, day |-> day, refunded |-> FALSE]
  PROVE  o \in Sold /\ AsSold(o)
<1>1. PICK payload : payload = Payloads[k]
  OBVIOUS
<1>2. PICK lines \in Seq(PayloadLine) : lines = payload.lines
  BY <1>1, PayloadLines
<1>3. given # <<>>
  OBVIOUS
<1>4. PICK l : \E s \in OrderStatus :
        /\ given = <<[lines |-> l, status |-> s]>>
        /\ MadeBy(shop, payload, [lines |-> l, status |-> s])
  BY <1>1, <1>3 DEF Makes
<1>5. PICK s \in OrderStatus :
        /\ given = <<[lines |-> l, status |-> s]>>
        /\ MadeBy(shop, payload, [lines |-> l, status |-> s])
  BY <1>4
<1>6. n = 1 /\ o.lines = l /\ o.status = s
  BY <1>5
<1>7. PICK fields \in Fields, keys \in [DOMAIN payload.lines -> Keys] :
        /\ Sane(payload)
        /\ \A m \in DOMAIN payload.lines : KeyOf(fields, keys[m], payload.lines[m])
        /\ l = Matched(payload.lines, keys, fields)
        /\ shop \in {"shopify", "woo"} =>
             payload.id /\ fields = {"sku"} /\ keys \in SkuKeys(payload.lines)
  BY <1>5 DEF MadeBy
<1>8. \A m \in DOMAIN lines : Lookup(fields, keys[m]) # None => lines[m].quantity > 0
  <2> TAKE m \in DOMAIN lines
  <2>1. SUFFICES ASSUME Lookup(fields, keys[m]) # None PROVE lines[m].legible
    BY <1>2, <1>7 DEF Sane
  <2>2. \A x \in DOMAIN l : l[x].legible
    BY <1>5, <1>6
  <2> QED BY <1>2, <1>7, <2>1, <2>2, AllMatched
<1>9. /\ l \in Seq(Line)
      /\ \A p \in Products :
           QuantityIn(l, p) = SumFunctionOnSet(Told(lines, keys, fields, p), DOMAIN lines)
  BY <1>2, <1>7, <1>8, MatchedTold
<1>10. ASSUME shop \in {"shopify", "woo"}, \A m \in DOMAIN lines : Bare(lines[m]) /\ lines[m].legible
       PROVE  ImportedOrder(payload).lines = l
  <2>1. {m \in DOMAIN lines : lines[m].quantity > 0} = DOMAIN lines
    BY <1>2, <1>7, <1>10 DEF Sane
  <2>2. ExtractExternalOrder(payload) = lines
    <3>1. ExtractExternalOrder(payload) = At(lines, DOMAIN lines)
      BY <1>2, <1>7, <1>10, <2>1 DEF ExtractExternalOrder
    <3> QED BY <1>2, <3>1, AllInOrder
  <2>3. keys = TrimmedSkus(lines)
    <3>1. \A m \in DOMAIN lines : Text[lines[m].sku] = lines[m].sku /\ Trimmed[lines[m].sku] = lines[m].sku
      BY <1>10 DEF Bare
    <3>2. /\ TrimmedSkus(lines) = [m \in DOMAIN lines |-> lines[m].sku]
          /\ Skus(lines) = [m \in DOMAIN lines |-> lines[m].sku]
          /\ WooSkus(lines) = [m \in DOMAIN lines |-> lines[m].sku]
      BY <3>1 DEF TrimmedSkus, Skus, WooSkus
    <3> QED BY <1>2, <1>7, <1>10, <3>2 DEF SkuKeys
  <2> QED BY <1>2, <1>7, <1>10, <2>2, <2>3 DEF ImportedOrder
<1>11. o \in Sold
  BY <1>5, <1>6, <1>9 DEF Sold
<1>12. AsSold(o)
  <2>1. \A m \in DOMAIN Payloads[k].lines : KeyOf(fields, keys[m], Payloads[k].lines[m])
    BY <1>1, <1>7
  <2>2. o.payload = k /\ o.lines \in Seq(Line)
    BY <1>6, <1>9
  <2>3. \A p \in Products :
          QuantityIn(o.lines, p) = SumFunctionOnSet(Told(Payloads[k].lines, keys, fields, p),
                                                    DOMAIN Payloads[k].lines)
    BY <1>1, <1>2, <1>6, <1>9
  <2>4. SameAsImported(o)
    <3>1. o.payload = k /\ o.shop = shop
      OBVIOUS
    <3> QED BY <1>1, <1>2, <1>6, <1>10, <3>1 DEF SameAsImported
  <2> QED BY ONLY k \in DOMAIN Payloads, <2>1, <2>2, <2>3, <2>4, FoundIsAsSold
<1> QED BY <1>11, <1>12

LEMMA ImportedIsAsSold ==
  ASSUME NEW k \in DOMAIN Payloads, NEW shop \in Shops, NEW day \in Nat,
         ImportedOrder(Payloads[k]).lines # <<>>,
         NEW o, o = [lines |-> ImportedOrder(Payloads[k]).lines,
                     status |-> ImportedOrder(Payloads[k]).status, by |-> "importer",
                     shop |-> shop, payload |-> k, day |-> day, refunded |-> FALSE]
  PROVE  o \in Sold /\ AsSold(o)
<1>1. PICK lines : lines = Payloads[k].lines
  OBVIOUS
<1>2. /\ o.lines \in Seq(Line) /\ o.status = "DRAFT"
      /\ \A p \in Products :
           QuantityIn(o.lines, p)
             = SumFunctionOnSet(Told(lines, TrimmedSkus(lines), {"sku"}, p), DOMAIN lines)
  BY <1>1, ImportTold
<1>3. o \in Sold
  BY <1>2 DEF Sold, OrderStatus
<1>4. AsSold(o)
  <2>1. \A n \in DOMAIN lines : KeyOf({"sku"}, TrimmedSkus(lines)[n], lines[n])
    BY SkuIsKey DEF SkuKeys
  <2>2. o.payload = k /\ SameAsImported(o)
    BY DEF SameAsImported
  <2> QED BY <1>1, <1>2, <2>1, <2>2, FoundIsAsSold
<1> QED BY <1>3, <1>4

\* Shipping and refunding leave what an order sells.
LEMMA StaysAsSold ==
  ASSUME NEW o, AsSold(o), NEW u, u.lines = o.lines, u.payload = o.payload, u.by = o.by, u.shop = o.shop
  PROVE  AsSold(u)
BY DEF AsSold

(***************************************************************************)
(* What is advised: the sums that the rows, the demand and the purchases   *)
(* on order are made of.                                                   *)
(***************************************************************************)
LEMMA QuantityOfLines ==
  ASSUME NEW lines \in Seq(Line), NEW p
  PROVE  /\ QuantityIn(lines, p) \in Nat
         /\ QuantityIn(lines, p) > 0 <=> \E l \in DOMAIN lines : lines[l].product = p
<1>1. IsFiniteSet(DOMAIN lines)
  BY PlacesOf
<1>2. PICK f : f = InLine(lines, p)
  OBVIOUS
<1>3. \A l \in DOMAIN lines : lines[l].quantity \in Nat \ {0}
  <2>1. \A l \in DOMAIN lines : lines[l] \in Line
    OBVIOUS
  <2> QED BY <2>1 DEF Line
<1>4. \A l \in DOMAIN lines : f[l] \in Nat /\ f[l] = IF lines[l].product = p THEN lines[l].quantity ELSE 0
  BY <1>2, <1>3 DEF InLine
<1>5. QuantityIn(lines, p) = SumFunctionOnSet(f, DOMAIN lines)
  BY <1>2, QuantityIsSum
<1>6. SumFunctionOnSet(f, DOMAIN lines) \in Nat
  BY <1>1, <1>4, SumNat
<1>7. ASSUME NEW l \in DOMAIN lines, lines[l].product = p
      PROVE  SumFunctionOnSet(f, DOMAIN lines) > 0
  <2>1. SumFunctionOnSet(f, DOMAIN lines) = f[l] + SumFunctionOnSet(f, DOMAIN lines \ {l})
    <3>1. \A x \in DOMAIN lines : f[x] \in Int
      BY <1>4
    <3> QED BY <1>1, <3>1, SumRemove
  <2>2. IsFiniteSet(DOMAIN lines \ {l})
    BY <1>1, FS_Subset
  <2>3. SumFunctionOnSet(f, DOMAIN lines \ {l}) \in Nat
    BY <1>4, <2>2, SumNat
  <2>4. f[l] \in Nat \ {0}
    BY <1>3, <1>4, <1>7
  <2> QED BY <2>1, <2>3, <2>4
<1>8. ASSUME \A l \in DOMAIN lines : lines[l].product # p
      PROVE  SumFunctionOnSet(f, DOMAIN lines) = 0
  BY <1>1, <1>4, <1>8, SumZero
<1> QED BY <1>5, <1>6, <1>7, <1>8

LEMMA StockOfMoves ==
  ASSUME NEW mo \in Seq(Moved), NEW p, NEW w
  PROVE  /\ GetStockOnHand(mo, p, w) \in Int
         /\ (\A n \in DOMAIN mo : ~ (mo[n].product = p /\ mo[n].warehouse = w))
              => GetStockOnHand(mo, p, w) = 0
<1>1. IsFiniteSet(DOMAIN mo)
  BY PlacesOf
<1>2. PICK f : f = [n \in DOMAIN mo |-> IF mo[n].product = p /\ mo[n].warehouse = w
                                        THEN mo[n].change ELSE 0]
  OBVIOUS
<1>3. GetStockOnHand(mo, p, w) = SumFunctionOnSet(f, DOMAIN mo)
  BY <1>2 DEF GetStockOnHand, Added, SumFunction
<1>4. \A n \in DOMAIN mo : mo[n].change \in Int
  <2>1. \A n \in DOMAIN mo : mo[n] \in Moved
    OBVIOUS
  <2> QED BY <2>1 DEF Moved
<1>5. \A n \in DOMAIN mo : f[n] \in Int
  BY <1>2, <1>4
<1>6. SumFunctionOnSet(f, DOMAIN mo) \in Int
  BY <1>1, <1>5, SumInt
<1>7. ASSUME \A n \in DOMAIN mo : ~ (mo[n].product = p /\ mo[n].warehouse = w)
      PROVE  SumFunctionOnSet(f, DOMAIN mo) = 0
  BY <1>1, <1>2, <1>7, SumZero
<1> QED BY <1>3, <1>6, <1>7

Row(mo, p, w) ==
  [product |-> p, warehouse |-> w, onHand |-> GetStockOnHand(mo, p, w),
   isCritical |-> GetStockOnHand(mo, p, w) <= Minimum[p]]

LEMMA OnHandIsSum ==
  ASSUME NEW mo \in Seq(Moved), NEW p \in Active
  PROVE  LET at == [w \in Warehouses |-> GetStockOnHand(mo, p, w)]
         IN  /\ OnHandOf(BuildStockRows(mo), p) = SumFunctionOnSet(at, Warehouses)
             /\ SumFunctionOnSet(at, Warehouses) \in Int
             /\ \A w \in Warehouses : at[w] \in Int
<1>1. PICK at : at = [w \in Warehouses |-> GetStockOnHand(mo, p, w)]
  OBVIOUS
<1>2. \A w \in Warehouses : at[w] \in Int
  BY <1>1, StockOfMoves
<1>3. PICK m : m = [w \in Warehouses |-> Row(mo, p, w)]
  OBVIOUS
<1>4. PICK D : D = {r \in BuildStockRows(mo) : r.product = p}
  OBVIOUS
<1>5. D = {m[w] : w \in Warehouses}
  <2>1. \A r \in D : r \in {m[w] : w \in Warehouses}
    <3> TAKE r \in D
    <3>1. r \in BuildStockRows(mo) /\ r.product = p
      BY <1>4
    <3>2. PICK q \in Active, w \in Warehouses : r = Row(mo, q, w)
      BY <3>1 DEF BuildStockRows, Row
    <3>3. r.product = q
      BY <3>2 DEF Row
    <3> QED BY <1>3, <3>1, <3>2, <3>3
  <2>2. \A w \in Warehouses : m[w] \in D
    <3> TAKE w \in Warehouses
    <3>1. Row(mo, p, w) \in BuildStockRows(mo)
      BY DEF BuildStockRows, Row
    <3>2. Row(mo, p, w).product = p
      BY DEF Row
    <3> QED BY <1>3, <1>4, <3>1, <3>2
  <2> QED BY <2>1, <2>2
<1>6. PICK g : g = [row \in D |-> row.onHand]
  OBVIOUS
<1>7. OnHandOf(BuildStockRows(mo), p) = SumFunctionOnSet(g, D)
  BY <1>4, <1>6 DEF OnHandOf, Added, SumFunction
<1>8. \A w \in Warehouses : m[w] \in D /\ m[w].onHand = at[w] /\ m[w].warehouse = w
  BY <1>1, <1>3, <1>5 DEF Row
<1>9. \A w \in Warehouses : g[m[w]] = at[w]
  BY <1>6, <1>8
<1>10. \A v, w \in Warehouses : m[v] = m[w] => v = w
  BY <1>8
<1>11. IsFiniteSet(Warehouses)
  BY AdviceAssumption
<1>12. SumFunctionOnSet(g, {m[w] : w \in Warehouses}) = SumFunctionOnSet(at, Warehouses)
  BY <1>2, <1>9, <1>10, <1>11, SumRenamed
<1>13. SumFunctionOnSet(at, Warehouses) \in Int
  BY <1>2, <1>11, SumInt
<1> QED BY <1>1, <1>2, <1>5, <1>7, <1>12, <1>13

LEMMA DemandIsNat ==
  ASSUME NEW pl \in Seq(Sold), NEW p
  PROVE  SalesDemand(pl, p) \in Nat
<1>1. IsFiniteSet(OpenSales(pl))
  BY PlacesOf DEF OpenSales
<1>2. PICK f : f = [n \in OpenSales(pl) |-> QuantityIn(pl[n].lines, p)]
  OBVIOUS
<1>3. SalesDemand(pl, p) = SumFunctionOnSet(f, OpenSales(pl))
  BY <1>2 DEF SalesDemand, Added, SumFunction
<1>4. \A n \in OpenSales(pl) : f[n] \in Nat
  <2> TAKE n \in OpenSales(pl)
  <2>1. pl[n] \in Sold
    BY DEF OpenSales
  <2>2. pl[n].lines \in Seq(Line)
    BY <2>1 DEF Sold
  <2> QED BY <1>2, <2>2, QuantityOfLines
<1> QED BY <1>1, <1>3, <1>4, SumNat

OnOrder(bo, p) ==
  [n \in OpenPurchases(bo) |->
     IF bo[n].product = p THEN AtLeastNone(bo[n].quantity - bo[n].received) ELSE 0]

LEMMA PendingIsNat ==
  ASSUME NEW bo \in Seq(Wanted), NEW p
  PROVE  /\ PendingUnits(bo, p) = SumFunctionOnSet(OnOrder(bo, p), OpenPurchases(bo))
         /\ IsFiniteSet(OpenPurchases(bo)) /\ OpenPurchases(bo) \subseteq DOMAIN bo
         /\ \A n \in OpenPurchases(bo) : OnOrder(bo, p)[n] \in Nat
         /\ PendingUnits(bo, p) \in Nat
<1>1. IsFiniteSet(OpenPurchases(bo)) /\ OpenPurchases(bo) \subseteq DOMAIN bo
  BY PlacesOf DEF OpenPurchases
<1>2. PendingUnits(bo, p) = SumFunctionOnSet(OnOrder(bo, p), OpenPurchases(bo))
  BY DEF PendingUnits, OnOrder, Added, SumFunction
<1>3. \A n \in OpenPurchases(bo) : OnOrder(bo, p)[n] \in Nat
  <2> TAKE n \in OpenPurchases(bo)
  <2>1. bo[n] \in Wanted
    BY <1>1
  <2>2. bo[n].quantity \in Nat /\ bo[n].received \in Nat
    BY <2>1 DEF Wanted
  <2> QED BY <2>2 DEF OnOrder, AtLeastNone
<1>4. SumFunctionOnSet(OnOrder(bo, p), OpenPurchases(bo)) \in Nat
  BY <1>1, <1>3, SumNat
<1> QED BY <1>1, <1>2, <1>3, <1>4

(* What is ordered is on order.                                            *)
LEMMA OrderedIsPending ==
  ASSUME NEW bo \in Seq(Wanted), NEW p \in Active, NEW quantity \in Nat
  PROVE  LET more == Append(bo, [product |-> p, quantity |-> quantity, received |-> 0, status |-> "SENT"])
         IN  /\ more \in Seq(Wanted)
             /\ PendingUnits(more, p) = PendingUnits(bo, p) + quantity
<1>1. PICK one : one = [product |-> p, quantity |-> quantity, received |-> 0, status |-> "SENT"]
  OBVIOUS
<1>2. one \in Wanted
  BY <1>1 DEF Wanted
<1>3. PICK more \in Seq(Wanted) : more = Append(bo, one)
  <2>1. PICK W : W = Wanted
    OBVIOUS
  <2>2. bo \in Seq(W) /\ one \in W
    BY <1>2, <2>1
  <2>3. Append(bo, one) \in Seq(W)
    BY <2>2
  <2> QED BY <2>1, <2>3
<1>4. PICK z \in Nat : z = Len(bo) + 1
  OBVIOUS
<1>5. /\ \A n \in DOMAIN bo : more[n] = bo[n] /\ n # z
      /\ more[z] = one /\ DOMAIN more = DOMAIN bo \cup {z} /\ z \notin DOMAIN bo
  BY <1>3, <1>4
<1>6. PICK S, T : S = OpenPurchases(bo) /\ T = OpenPurchases(more)
  OBVIOUS
<1>7. T = S \cup {z} /\ z \notin S /\ T \ {z} = S /\ z \in T
  BY <1>1, <1>5, <1>6 DEF OpenPurchases
<1>8. PICK f, g : f = OnOrder(bo, p) /\ g = OnOrder(more, p)
  OBVIOUS
<1>9. /\ PendingUnits(bo, p) = SumFunctionOnSet(f, S) /\ PendingUnits(more, p) = SumFunctionOnSet(g, T)
      /\ IsFiniteSet(S) /\ IsFiniteSet(T) /\ S \subseteq DOMAIN bo
      /\ \A n \in S : f[n] \in Nat
      /\ \A n \in T : g[n] \in Nat
  BY <1>3, <1>6, <1>8, PendingIsNat
<1>10. \A n \in S : f[n] = g[n]
  BY <1>5, <1>6, <1>7, <1>8, <1>9 DEF OnOrder
<1>11. g[z] = quantity
  <2>1. z \in T /\ more[z].product = p /\ more[z].quantity = quantity /\ more[z].received = 0
    BY <1>1, <1>5, <1>7
  <2>2. AtLeastNone(quantity - 0) = quantity
    BY DEF AtLeastNone
  <2> QED BY <1>6, <1>8, <2>1, <2>2 DEF OnOrder
<1>12. SumFunctionOnSet(g, T) = g[z] + SumFunctionOnSet(g, S)
  <2>1. \A n \in T : g[n] \in Int
    BY <1>9
  <2> QED BY <1>7, <1>9, <2>1, SumRemove
<1>13. SumFunctionOnSet(g, S) = SumFunctionOnSet(f, S)
  BY <1>9, <1>10, SumSame
<1>14. SumFunctionOnSet(f, S) \in Nat
  BY <1>9, SumNat
<1> QED BY <1>1, <1>3, <1>9, <1>11, <1>12, <1>13, <1>14

LEMMA SuggestedIsNat ==
  ASSUME NEW pl \in Seq(Sold), NEW bo \in Seq(Wanted), NEW mo \in Seq(Moved), NEW p \in Active
  PROVE  /\ OnHandOf(BuildStockRows(mo), p) \in Int
         /\ SalesDemand(pl, p) \in Nat /\ PendingUnits(bo, p) \in Nat /\ Minimum[p] \in Nat
         /\ Projected(BuildStockRows(mo), pl, bo, p) \in Int
         /\ Suggested(BuildStockRows(mo), pl, bo, p) \in Nat
<1>1. OnHandOf(BuildStockRows(mo), p) \in Int
  BY OnHandIsSum
<1>2. SalesDemand(pl, p) \in Nat /\ PendingUnits(bo, p) \in Nat /\ Minimum[p] \in Nat
  BY DemandIsNat, PendingIsNat, AdviceAssumption
<1>3. PICK rows : rows = BuildStockRows(mo)
  OBVIOUS
<1>4. Projected(rows, pl, bo, p) \in Int
  BY <1>1, <1>2, <1>3 DEF Projected
<1>5. Suggested(rows, pl, bo, p) \in Nat
  BY <1>2, <1>4 DEF Suggested, AtLeastNone
<1> QED BY <1>1, <1>2, <1>3, <1>4, <1>5

LEMMA BalancesAgree ==
  ASSUME NEW mo \in Seq(Moved)
  PROVE  LET balances == [pw \in {<<m.product, m.warehouse>> : m \in ToSet(mo)} |->
                            GetStockOnHand(mo, pw[1], pw[2])]
         IN  BuildStockRowsFromBalances(balances) = BuildStockRows(mo)
<1>1. PICK D : D = {<<m.product, m.warehouse>> : m \in ToSet(mo)}
  OBVIOUS
<1>2. PICK b : b = [pw \in D |-> GetStockOnHand(mo, pw[1], pw[2])]
  OBVIOUS
<1>3. ASSUME NEW p \in Active, NEW w \in Warehouses
      PROVE  (IF <<p, w>> \in DOMAIN b THEN b[<<p, w>>] ELSE 0) = GetStockOnHand(mo, p, w)
  <2>1. CASE <<p, w>> \in D
    BY <1>2, <2>1
  <2>2. CASE <<p, w>> \notin D
    <3>1. \A n \in DOMAIN mo : mo[n] \in ToSet(mo)
      BY DEF ToSet
    <3>2. \A n \in DOMAIN mo : ~ (mo[n].product = p /\ mo[n].warehouse = w)
      BY <1>1, <2>2, <3>1
    <3>3. GetStockOnHand(mo, p, w) = 0
      BY <3>2, StockOfMoves
    <3> QED BY <1>2, <2>2, <3>3
  <2> QED BY <2>1, <2>2
<1>4. \A r : r \in BuildStockRowsFromBalances(b) <=> r \in BuildStockRows(mo)
  <2> TAKE r
  <2>1. r \in BuildStockRowsFromBalances(b) <=>
          \E p \in Active, w \in Warehouses :
            r = [product |-> p, warehouse |-> w,
                 onHand |-> IF <<p, w>> \in DOMAIN b THEN b[<<p, w>>] ELSE 0,
                 isCritical |-> (IF <<p, w>> \in DOMAIN b THEN b[<<p, w>>] ELSE 0) <= Minimum[p]]
    BY DEF BuildStockRowsFromBalances
  <2>2. r \in BuildStockRows(mo) <=>
          \E p \in Active, w \in Warehouses :
            r = [product |-> p, warehouse |-> w, onHand |-> GetStockOnHand(mo, p, w),
                 isCritical |-> GetStockOnHand(mo, p, w) <= Minimum[p]]
    BY DEF BuildStockRows
  <2> QED BY <1>3, <2>1, <2>2
<1>5. BuildStockRowsFromBalances(b) = BuildStockRows(mo)
  BY <1>4
<1> QED BY <1>1, <1>2, <1>5

LEMMA NotAdvised ==
  ASSUME NEW pl \in Seq(Sold), NEW bo \in Seq(Wanted), NEW mo \in Seq(Moved), NEW p \in Active
  PROVE  LET rows == BuildStockRows(mo)
             more == Append(bo, [product |-> p, quantity |-> Suggested(rows, pl, bo, p),
                                 received |-> 0, status |-> "SENT"])
         IN  /\ p \notin BuildPurchaseRecommendations(rows, pl, bo) =>
                  OnHandOf(rows, p) + PendingUnits(bo, p) >= SalesDemand(pl, p)
             /\ p \notin BuildPurchaseRecommendations(rows, pl, more)
             /\ OnHandOf(rows, p) <= Minimum[p] /\ Minimum[p] > 0 /\ PendingUnits(bo, p) = 0 =>
                  p \in BuildPurchaseRecommendations(rows, pl, bo)
<1>1. PICK rows : rows = BuildStockRows(mo)
  OBVIOUS
<1>2. PICK suggested \in Nat : suggested = Suggested(rows, pl, bo, p)
  BY <1>1, SuggestedIsNat
<1>3. PICK more \in Seq(Wanted) :
        more = Append(bo, [product |-> p, quantity |-> suggested, received |-> 0, status |-> "SENT"])
  BY OrderedIsPending
<1>4. PendingUnits(more, p) = PendingUnits(bo, p) + suggested
  BY <1>3, OrderedIsPending
<1>5. PICK have \in Int, demand \in Nat, pending \in Nat, least \in Nat :
        /\ have = OnHandOf(rows, p) /\ demand = SalesDemand(pl, p)
        /\ pending = PendingUnits(bo, p) /\ least = Minimum[p]
  BY <1>1, SuggestedIsNat
<1>6. PICK target \in Nat : target = IF demand > least THEN least + demand ELSE 2 * least
  BY <1>5
<1>7. /\ Projected(rows, pl, bo, p) = have + pending - demand
      /\ Projected(rows, pl, more, p) = have + (pending + suggested) - demand
  BY <1>4, <1>5 DEF Projected
<1>8. /\ suggested = AtLeastNone(target - (have + pending - demand))
      /\ Suggested(rows, pl, more, p) = AtLeastNone(target - (have + (pending + suggested) - demand))
  BY <1>2, <1>5, <1>6, <1>7 DEF Suggested
<1>9. Suggested(rows, pl, more, p) = 0
  BY <1>8 DEF AtLeastNone
<1>10. p \in BuildPurchaseRecommendations(rows, pl, bo)
         <=> suggested > 0 /\ have + pending - demand <= least
  BY <1>2, <1>5, <1>7 DEF BuildPurchaseRecommendations
<1>11. p \notin BuildPurchaseRecommendations(rows, pl, more)
  BY <1>9 DEF BuildPurchaseRecommendations
<1>12. ~ (suggested > 0 /\ have + pending - demand <= least) => have + pending >= demand
  BY <1>6, <1>8 DEF AtLeastNone
<1>13. have <= least /\ least > 0 /\ pending = 0 =>
         suggested > 0 /\ have + pending - demand <= least
  BY <1>6, <1>8 DEF AtLeastNone
<1> QED BY <1>1, <1>2, <1>3, <1>5, <1>10, <1>11, <1>12, <1>13

(* If no row of a product were critical, its stock would be above the      *)
(* minimum.                                                                *)
LEMMA CriticalSomewhere ==
  ASSUME NEW mo \in Seq(Moved), NEW p \in Active, OnHandOf(BuildStockRows(mo), p) <= Minimum[p]
  PROVE  \E a \in HandleLowStockNotificationDispatch(mo, TRUE) : a.product = p /\ a.status = "SENT"
<1>1. PICK at : at = [w \in Warehouses |-> GetStockOnHand(mo, p, w)]
  OBVIOUS
<1>2. /\ OnHandOf(BuildStockRows(mo), p) = SumFunctionOnSet(at, Warehouses)
      /\ \A w \in Warehouses : at[w] \in Int
  BY <1>1, OnHandIsSum
<1>3. IsFiniteSet(Warehouses) /\ DefaultWarehouse \in Warehouses /\ Minimum[p] \in Nat
  BY AdviceAssumption
<1>4. PICK w \in Warehouses : at[w] <= Minimum[p]
  <2>1. SUFFICES ASSUME \A v \in Warehouses : ~ (at[v] <= Minimum[p])
                 PROVE  FALSE
    OBVIOUS
  <2>2. \A v \in Warehouses : at[v] \in Nat /\ at[v] > Minimum[p]
    BY <1>2, <1>3, <2>1
  <2>3. SumFunctionOnSet(at, Warehouses)
          = at[DefaultWarehouse] + SumFunctionOnSet(at, Warehouses \ {DefaultWarehouse})
    BY <1>2, <1>3, SumRemove
  <2>4. SumFunctionOnSet(at, Warehouses \ {DefaultWarehouse}) \in Nat
    <3>1. IsFiniteSet(Warehouses \ {DefaultWarehouse})
      BY <1>3, FS_Subset
    <3> QED BY <2>2, <3>1, SumNat
  <2> QED BY <1>2, <1>3, <2>2, <2>3, <2>4
<1>5. PICK row : row = Row(mo, p, w)
  OBVIOUS
<1>6. row \in BuildStockRows(mo) /\ row.isCritical /\ row.product = p /\ row.warehouse = w
  <2>1. row \in BuildStockRows(mo)
    BY <1>5 DEF BuildStockRows, Row
  <2>2. (GetStockOnHand(mo, p, w) <= Minimum[p]) = TRUE
    BY <1>1, <1>4
  <2>3. row = [product |-> p, warehouse |-> w, onHand |-> GetStockOnHand(mo, p, w), isCritical |-> TRUE]
    BY <1>5, <2>2 DEF Row
  <2> QED BY <2>1, <2>3
<1>7. PICK draft : draft = [product |-> p, warehouse |-> w, status |-> "PENDING"]
  OBVIOUS
<1>8. draft \in CreateLowStockNotificationDrafts(BuildStockRows(mo), TRUE)
  <2>1. draft = [product |-> row.product, warehouse |-> row.warehouse,
                 status |-> IF TRUE THEN "PENDING" ELSE "SKIPPED"]
    BY <1>6, <1>7
  <2> QED BY <1>6, <2>1 DEF CreateLowStockNotificationDrafts
<1>9. PICK sent : sent = [draft EXCEPT !.status = IF @ = "PENDING" THEN "SENT" ELSE @]
  OBVIOUS
<1>10. sent \in HandleLowStockNotificationDispatch(mo, TRUE)
  BY <1>8, <1>9 DEF HandleLowStockNotificationDispatch
<1>11. sent.product = p /\ sent.status = "SENT"
  BY <1>7, <1>9
<1> QED BY <1>10, <1>11

(* The dashboard's comparison is that of the stock of the default          *)
(* warehouse with what the order needs of each product.                    *)
LEMMA ReadyIsShippable ==
  ASSUME NEW mo \in Seq(Moved), NEW order, order.lines \in Seq(Line),
         \A l \in DOMAIN order.lines : order.lines[l].product \in Active
  PROVE  BlockedLines(BuildStockRows(mo), order) = {} <=>
           \A p \in Active : QuantityIn(order.lines, p) > 0 =>
             GetStockOnHand(mo, p, DefaultWarehouse) >= QuantityIn(order.lines, p)
<1>1. PICK rows : rows = BuildStockRows(mo)
  OBVIOUS
<1>2. PICK some : some = {order.lines[n].product : n \in DOMAIN order.lines}
  OBVIOUS
<1>3. some \subseteq Active /\ \A p : p \in some <=> QuantityIn(order.lines, p) > 0
  BY <1>2, QuantityOfLines
<1>4. ASSUME NEW p \in Active
      PROVE  LET there == {row \in rows : row.product = p /\ row.warehouse = DefaultWarehouse}
             IN  /\ \E row \in rows : row.product = p /\ row.warehouse = DefaultWarehouse
                 /\ OnHandOf(there, p) = GetStockOnHand(mo, p, DefaultWarehouse)
                 /\ OnHandOf(there, p) \in Int
  <2>1. PICK one : one = Row(mo, p, DefaultWarehouse)
    OBVIOUS
  <2>2. PICK there : there = {row \in rows : row.product = p /\ row.warehouse = DefaultWarehouse}
    OBVIOUS
  <2>3. one \in rows /\ one.product = p /\ one.warehouse = DefaultWarehouse
    BY <1>1, <2>1, AdviceAssumption DEF BuildStockRows, Row
  <2>4. ASSUME NEW row \in rows, row.product = p, row.warehouse = DefaultWarehouse
        PROVE  row = one
    <3>1. PICK q \in Active, w \in Warehouses : row = Row(mo, q, w)
      BY <1>1 DEF BuildStockRows, Row
    <3>2. row.product = q /\ row.warehouse = w
      BY <3>1 DEF Row
    <3> QED BY <2>1, <2>4, <3>1, <3>2
  <2>5. there = {one}
    BY <2>2, <2>3, <2>4
  <2>6. PICK f : f = [row \in {one} |-> row.onHand]
    OBVIOUS
  <2>7. {r \in there : r.product = p} = {one}
    BY <2>3, <2>5
  <2>8. OnHandOf(there, p) = SumFunctionOnSet(f, {one})
    BY <2>6, <2>7 DEF OnHandOf, Added, SumFunction
  <2>9. f[one] = GetStockOnHand(mo, p, DefaultWarehouse) /\ f[one] \in Int
    BY <2>1, <2>6, StockOfMoves DEF Row
  <2>10. SumFunctionOnSet(f, {one}) = f[one]
    <3>1. IsFiniteSet({one})
      BY FS_Singleton
    <3>2. SumFunctionOnSet(f, {one}) = f[one] + SumFunctionOnSet(f, {one} \ {one})
      <4>1. \A x \in {one} : f[x] \in Int
        BY <2>9
      <4> QED BY <3>1, <4>1, SumRemove
    <3>3. {one} \ {one} = {}
      OBVIOUS
    <3>4. SumFunctionOnSet(f, {one} \ {one}) = 0
      BY <3>3, SumEmpty
    <3> QED BY <2>9, <3>2, <3>4
  <2> QED BY <2>2, <2>3, <2>8, <2>9, <2>10
<1>5. ASSUME NEW p \in Active
      PROVE  p \in BlockedLines(rows, order) <=>
               p \in some /\ GetStockOnHand(mo, p, DefaultWarehouse) < QuantityIn(order.lines, p)
  BY <1>2, <1>4 DEF BlockedLines
<1>6. BlockedLines(rows, order) \subseteq some
  BY <1>2 DEF BlockedLines
<1>7. \A p \in Active : QuantityIn(order.lines, p) \in Nat /\ GetStockOnHand(mo, p, DefaultWarehouse) \in Int
  BY QuantityOfLines, StockOfMoves
<1> QED BY <1>1, <1>3, <1>5, <1>6, <1>7

LEMMA NewestMoved ==
  ASSUME moved \in Seq(Moved)
  PROVE  Newest \in Seq(Moved)
<1>1. PICK T : T = Moved
  OBVIOUS
<1>2. PICK mo \in Seq(T) : mo = moved
  BY <1>1
<1>3. PICK first \in 1 .. Len(mo) + 1 :
        first = IF SnapshotLimit < Len(mo) THEN Len(mo) - SnapshotLimit + 1 ELSE 1
  <2>1. PICK all \in Nat : all = Len(mo)
    OBVIOUS
  <2>2. PICK limit \in Nat : limit = SnapshotLimit
    BY PageAssumption
  <2>3. (IF limit < all THEN all - limit + 1 ELSE 1) \in 1 .. all + 1
    OBVIOUS
  <2> QED BY <2>1, <2>2, <2>3
<1>4. SubSeq(mo, first, Len(mo)) \in Seq(T)
  BY <1>2, <1>3
<1> QED BY <1>1, <1>2, <1>3, <1>4 DEF Newest

(* No product has more than all of them.                                   *)
LEMMA WithinAll ==
  ASSUME NEW pl \in Seq(Sold), NEW bo \in Seq(Wanted), NEW p, NEW rows
  PROVE  /\ SalesDemand(pl, p) <= BuildDashboardSummary(rows, pl, bo).openSalesUnits
         /\ PendingUnits(bo, p) <= BuildDashboardSummary(rows, pl, bo).pendingPurchaseUnits
<1>1. ASSUME NEW n \in OpenSales(pl)
      PROVE  LET all == [l \in DOMAIN pl[n].lines |-> pl[n].lines[l].quantity]
             IN  QuantityIn(pl[n].lines, p) \in Int /\ Added(all) \in Int
                 /\ QuantityIn(pl[n].lines, p) <= Added(all)
  <2>0. pl[n] \in Sold
    BY DEF OpenSales
  <2>1. PICK lines \in Seq(Line) : lines = pl[n].lines
    BY <2>0 DEF Sold
  <2>2. PICK f, g : f = InLine(lines, p) /\ g = [l \in DOMAIN lines |-> lines[l].quantity]
    OBVIOUS
  <2>3. \A l \in DOMAIN lines : lines[l].quantity \in Nat
    <3>1. \A l \in DOMAIN lines : lines[l] \in Line
      OBVIOUS
    <3> QED BY <3>1 DEF Line
  <2>4. /\ IsFiniteSet(DOMAIN lines)
        /\ \A l \in DOMAIN lines : f[l] \in Int /\ g[l] \in Int /\ f[l] <= g[l]
    BY <2>2, <2>3, PlacesOf DEF InLine
  <2>5. SumFunctionOnSet(f, DOMAIN lines) <= SumFunctionOnSet(g, DOMAIN lines)
    BY <2>4, SumLeq
  <2>6. /\ QuantityIn(lines, p) = SumFunctionOnSet(f, DOMAIN lines)
        /\ Added(g) = SumFunctionOnSet(g, DOMAIN lines)
    BY <2>2, QuantityIsSum DEF Added, SumFunction
  <2>7. SumFunctionOnSet(f, DOMAIN lines) \in Int /\ SumFunctionOnSet(g, DOMAIN lines) \in Int
    BY <2>4, SumInt
  <2> QED BY <2>1, <2>2, <2>5, <2>6, <2>7
<1>2. SalesDemand(pl, p) <= BuildDashboardSummary(rows, pl, bo).openSalesUnits
  <2>1. PICK f, g : /\ f = [n \in OpenSales(pl) |-> QuantityIn(pl[n].lines, p)]
                    /\ g = [n \in OpenSales(pl) |->
                              Added([l \in DOMAIN pl[n].lines |-> pl[n].lines[l].quantity])]
    OBVIOUS
  <2>2. \A n \in OpenSales(pl) : f[n] \in Int /\ g[n] \in Int /\ f[n] <= g[n]
    BY <1>1, <2>1
  <2>3. IsFiniteSet(OpenSales(pl))
    BY PlacesOf DEF OpenSales
  <2>4. SumFunctionOnSet(f, OpenSales(pl)) <= SumFunctionOnSet(g, OpenSales(pl))
    BY <2>2, <2>3, SumLeq
  <2>5. SalesDemand(pl, p) = SumFunctionOnSet(f, OpenSales(pl))
    BY <2>1 DEF SalesDemand, Added, SumFunction
  <2>6. BuildDashboardSummary(rows, pl, bo).openSalesUnits = Added(g)
    BY <2>1 DEF BuildDashboardSummary
  <2>7. Added(g) = SumFunctionOnSet(g, OpenSales(pl))
    BY <2>1 DEF Added, SumFunction
  <2> QED BY <2>4, <2>5, <2>6, <2>7
<1>3. PendingUnits(bo, p) <= BuildDashboardSummary(rows, pl, bo).pendingPurchaseUnits
  <2>1. PICK f, g : /\ f = OnOrder(bo, p)
                    /\ g = [n \in OpenPurchases(bo) |-> AtLeastNone(bo[n].quantity - bo[n].received)]
    OBVIOUS
  <2>2. ASSUME NEW n \in OpenPurchases(bo) PROVE f[n] \in Int /\ g[n] \in Int /\ f[n] <= g[n]
    <3>1. bo[n] \in Wanted
      BY DEF OpenPurchases
    <3>2. bo[n].quantity \in Nat /\ bo[n].received \in Nat
      BY <3>1 DEF Wanted
    <3> QED BY <2>1, <3>2 DEF OnOrder, AtLeastNone
  <2>3. IsFiniteSet(OpenPurchases(bo)) /\ PendingUnits(bo, p) = SumFunctionOnSet(f, OpenPurchases(bo))
    BY <2>1, PendingIsNat
  <2>4. SumFunctionOnSet(f, OpenPurchases(bo)) <= SumFunctionOnSet(g, OpenPurchases(bo))
    BY <2>2, <2>3, SumLeq
  <2>5. BuildDashboardSummary(rows, pl, bo).pendingPurchaseUnits = Added(g)
    BY <2>1 DEF BuildDashboardSummary
  <2>6. Added(g) = SumFunctionOnSet(g, OpenPurchases(bo))
    BY <2>1 DEF Added, SumFunction
  <2> QED BY <2>3, <2>4, <2>5, <2>6
<1> QED BY <1>2, <1>3

LEMMA TypedCovers ==
  ASSUME placed \in Seq(Sold), bought \in Seq(Wanted), moved \in Seq(Moved)
  PROVE  AdviceCovers
<1>1. BuildStockRowsFromBalances(Balances) = BuildStockRows(moved)
  BY BalancesAgree DEF Balances
<1>2. \A known \in {moved, Newest} : known \in Seq(Moved)
  BY NewestMoved
<1>3. ASSUME NEW known \in {moved, Newest}, NEW p \in Active
      PROVE  LET rows == BuildStockRows(known)
                 advised == BuildPurchaseRecommendations(rows, placed, bought)
                 summary == BuildDashboardSummary(rows, placed, bought)
                 demand == SalesDemand(placed, p)
                 pending == PendingUnits(bought, p)
                 more == Append(bought, [product |-> p, received |-> 0, status |-> "SENT",
                                         quantity |-> Suggested(rows, placed, bought, p)])
             IN  /\ p \notin advised => OnHandOf(rows, p) + pending >= demand
                 /\ p \notin BuildPurchaseRecommendations(rows, placed, more)
                 /\ OnHandOf(rows, p) <= Minimum[p] /\ Minimum[p] > 0 /\ pending = 0 =>
                      p \in advised
                 /\ demand <= summary.openSalesUnits
                 /\ pending <= summary.pendingPurchaseUnits
  <2>1. PICK rows : rows = BuildStockRows(known)
    OBVIOUS
  <2>2. PICK more : more = Append(bought, [product |-> p, received |-> 0, status |-> "SENT",
                                           quantity |-> Suggested(rows, placed, bought, p)])
    OBVIOUS
  <2>3. more = Append(bought, [product |-> p, quantity |-> Suggested(rows, placed, bought, p),
                               received |-> 0, status |-> "SENT"])
    BY <2>2
  <2>4. /\ p \notin BuildPurchaseRecommendations(rows, placed, bought) =>
             OnHandOf(rows, p) + PendingUnits(bought, p) >= SalesDemand(placed, p)
        /\ p \notin BuildPurchaseRecommendations(rows, placed, more)
        /\ OnHandOf(rows, p) <= Minimum[p] /\ Minimum[p] > 0 /\ PendingUnits(bought, p) = 0 =>
             p \in BuildPurchaseRecommendations(rows, placed, bought)
    BY <1>2, <2>1, <2>3, NotAdvised
  <2> QED BY <2>1, <2>2, <2>4, WithinAll
<1>4. ASSUME NEW known \in {moved, Newest}, NEW n \in DOMAIN placed,
             \A l \in DOMAIN placed[n].lines : placed[n].lines[l].product \in Active
      PROVE  LET once == [p \in Active |-> QuantityIn(placed[n].lines, p)]
             IN  BlockedLines(BuildStockRows(known), placed[n]) = {} <=>
                   \A p \in Active : once[p] > 0 =>
                     GetStockOnHand(known, p, DefaultWarehouse) >= once[p]
  <2>1. placed[n] \in Sold
    OBVIOUS
  <2>2. placed[n].lines \in Seq(Line)
    BY <2>1 DEF Sold
  <2> QED BY <1>2, <1>4, <2>2, ReadyIsShippable
<1>5. \A p \in Active : OnHandOf(BuildStockRows(moved), p) <= Minimum[p] =>
        \E a \in HandleLowStockNotificationDispatch(moved, TRUE) : a.product = p /\ a.status = "SENT"
  BY CriticalSomewhere
<1> QED BY <1>1, <1>3, <1>4, <1>5 DEF AdviceCovers

(***************************************************************************)
(* The invariant.                                                          *)
(***************************************************************************)
LEMMA Joined ==
  ASSUME NEW T, NEW a \in Seq(T), NEW b \in Seq(T)
  PROVE  a \o b \in Seq(T)
OBVIOUS

LEMMA PlanStarts ==
  ASSUME PlanInit
  PROVE  PlanInv
<1>1. moved \in Seq(Moved)
  BY ArrivalAssumption DEF PlanInit
<1>2. today \in Nat
  <2>1. PICK list \in Seq(Moved) : list = moved
    BY <1>1
  <2>2. PICK c \in Nat : DOMAIN list = 1 .. c
    BY <2>1
  <2>3. PICK day : day = [n \in 1 .. c |-> list[n].day]
    OBVIOUS
  <2>4. \A n \in 1 .. c : day[n] \in Nat
    <3>1. \A n \in 1 .. c : list[n] \in Moved
      BY <2>2
    <3> QED BY <2>3, <3>1 DEF Moved
  <2>5. PICK days : days = {day[n] : n \in 1 .. c}
    OBVIOUS
  <2>6. IsFiniteSet(days)
    <3>1. IsFiniteSet(1 .. c)
      BY <2>2, FS_Interval
    <3>2. day \in Surjection(1 .. c, days)
      BY <2>3, <2>5 DEF Surjection
    <3> QED BY <3>1, <3>2, FS_Surjection
  <2>7. PICK S : S = {0} \cup days
    OBVIOUS
  <2>8. IsFiniteSet(S) /\ S \subseteq Nat /\ S # {}
    <3>1. IsFiniteSet(days \cup {0})
      BY <2>6, FS_AddElement
    <3>2. S = days \cup {0}
      BY <2>7
    <3>3. days \subseteq Nat
      BY <2>4, <2>5
    <3>4. IsFiniteSet(S)
      BY <3>1, <3>2
    <3>5. S \subseteq Nat
      BY <2>7, <3>3
    <3>6. 0 \in S
      BY <2>7
    <3> QED BY <3>4, <3>5, <3>6
  <2>9. \E x \in S : \A y \in S : y <= x
    BY <2>8, Greatest
  <2>10. \E x \in S : \A y \in S : x >= y
    BY <2>8, <2>9
  <2>11. Max(S) \in S
    BY <2>10 DEF Max
  <2>12. S = {0} \cup {moved[n].day : n \in DOMAIN moved}
    BY <2>1, <2>2, <2>3, <2>5, <2>7
  <2>13. today = 1 + Max(S)
    BY <2>12 DEF PlanInit
  <2>14. PICK x \in Nat : x = Max(S)
    BY <2>8, <2>11
  <2> QED BY <2>13, <2>14
<1>3. placed \in Seq(TrueSales) /\ bought \in Seq(Wanted)
  BY DEF PlanInit
<1> QED BY <1>1, <1>2, <1>3 DEF PlanInv

LEMMA PlacedTyped ==
  ASSUME NEW pl \in Seq(TrueSales)
  PROVE  pl \in Seq(Sold) /\ \A n \in DOMAIN pl : pl[n] \in Sold /\ AsSold(pl[n])
<1>1. \A n \in DOMAIN pl : pl[n] \in TrueSales
  OBVIOUS
<1>2. \A n \in DOMAIN pl : pl[n] \in Sold /\ AsSold(pl[n])
  BY <1>1 DEF TrueSales
<1>3. PICK c \in Nat : DOMAIN pl = 1 .. c /\ pl \in [1 .. c -> TrueSales]
  OBVIOUS
<1>4. pl \in [1 .. c -> Sold]
  BY <1>2, <1>3
<1> QED BY <1>2, <1>3, <1>4

LEMMA ArrivesKeeps ==
  ASSUME PlanInv, NEW shop \in Shops, NEW topic, NEW k \in DOMAIN Payloads, Arrives(shop, topic, k)
  PROVE  PlanInv'
<1>1. PICK given : given = Webhook(shop, topic, Payloads[k]).orders
  OBVIOUS
<1>2. Makes(shop, Payloads[k], given)
  BY <1>1, WebhookMakes
<1>3. PICK day \in Nat : day = today
  BY DEF PlanInv
<1>4. PICK new : new = [n \in DOMAIN given |->
                          [lines |-> given[n].lines, status |-> given[n].status, by |-> "handler",
                           shop |-> shop, payload |-> k, day |-> day, refunded |-> FALSE]]
  OBVIOUS
<1>5. placed' = placed \o new
  BY <1>1, <1>3, <1>4 DEF Arrives, Stored
<1>6. ASSUME NEW n \in DOMAIN given PROVE new[n] \in TrueSales
  <2>0. \A l \in DOMAIN given[n].lines : given[n].lines[l].legible
    BY <1>1 DEF Arrives
  <2>1. PICK o : o = new[n]
    OBVIOUS
  <2>2. o \in Sold /\ AsSold(o)
    BY <1>2, <1>3, <1>4, <2>0, <2>1, MadeIsAsSold
  <2> QED BY <2>1, <2>2 DEF TrueSales
<1>7. DOMAIN given = {} \/ DOMAIN given = 1 .. 1
  <2>1. CASE given = <<>>
    BY <2>1
  <2>2. CASE given # <<>>
    <3>1. PICK o : given = <<o>>
      BY <1>2, <2>2 DEF Makes
    <3> QED BY <3>1
  <2> QED BY <2>1, <2>2
<1>8. new \in Seq(TrueSales)
  <2>1. PICK c \in Nat : DOMAIN given = 1 .. c
    <3>1. CASE DOMAIN given = {}
      <4>1. DOMAIN given = 1 .. 0
        BY <3>1
      <4> QED BY <4>1
    <3>2. CASE DOMAIN given = 1 .. 1
      BY <3>2
    <3> QED BY <1>7, <3>1, <3>2
  <2>2. new \in [1 .. c -> TrueSales]
    BY <1>4, <1>6, <2>1
  <2> QED BY <2>1, <2>2
<1>9. placed' \in Seq(TrueSales)
  BY <1>5, <1>8, Joined DEF PlanInv
<1>10. bought' \in Seq(Wanted) /\ moved' \in Seq(Moved) /\ today' \in Nat
  BY DEF Arrives, PlanInv
<1> QED BY <1>9, <1>10 DEF PlanInv

LEMMA ImportsKeeps ==
  ASSUME PlanInv, NEW shop \in {"shopify", "woo"}, NEW k \in DOMAIN Payloads, Imports(shop, k)
  PROVE  PlanInv'
<1>1. shop \in Shops
  BY DEF Shops
<1>2. PICK day \in Nat : day = today
  BY DEF PlanInv
<1>3. PICK o : o = [lines |-> ImportedOrder(Payloads[k]).lines,
                    status |-> ImportedOrder(Payloads[k]).status, by |-> "importer",
                    shop |-> shop, payload |-> k, day |-> day, refunded |-> FALSE]
  OBVIOUS
<1>4. ImportedOrder(Payloads[k]).lines # <<>> /\ placed' = Append(placed, o)
  BY <1>2, <1>3 DEF Imports, Stored
<1>5. o \in Sold /\ AsSold(o)
  BY <1>1, <1>3, <1>4, ImportedIsAsSold
<1>6. o \in TrueSales
  BY <1>5 DEF TrueSales
<1>7. placed' \in Seq(TrueSales)
  <2>1. PICK T : T = TrueSales
    OBVIOUS
  <2>2. placed \in Seq(T) /\ o \in T
    BY <1>6, <2>1 DEF PlanInv
  <2>3. Append(placed, o) \in Seq(T)
    BY <2>2
  <2> QED BY <1>4, <2>1, <2>3
<1>8. bought' \in Seq(Wanted) /\ moved' \in Seq(Moved) /\ today' \in Nat
  BY DEF Imports, PlanInv
<1> QED BY <1>7, <1>8 DEF PlanInv

(* What a change of an order that keeps what it sells leaves.              *)
LEMMA ChangedStaysTrue ==
  ASSUME NEW pl \in Seq(TrueSales), NEW n \in DOMAIN pl, NEW u, u \in Sold,
         u.lines = pl[n].lines, u.payload = pl[n].payload, u.by = pl[n].by, u.shop = pl[n].shop
  PROVE  [pl EXCEPT ![n] = u] \in Seq(TrueSales)
<1>1. AsSold(pl[n])
  BY PlacedTyped
<1>2. AsSold(u)
  BY <1>1, StaysAsSold
<1>3. u \in TrueSales
  BY <1>2 DEF TrueSales
<1>4. PICK T : T = TrueSales
  OBVIOUS
<1>5. pl \in Seq(T) /\ u \in T
  BY <1>3, <1>4
<1>6. [pl EXCEPT ![n] = u] \in Seq(T)
  BY <1>5
<1> QED BY <1>4, <1>6

LEMMA ShipKeeps ==
  ASSUME PlanInv, NEW n \in DOMAIN placed, Ship(n)
  PROVE  PlanInv'
<1>1. PICK o \in Sold : o = placed[n]
  BY PlacedTyped DEF PlanInv
<1>2. PICK u : u = [o EXCEPT !.status = "SHIPPED"]
  OBVIOUS
<1>3. /\ u \in Sold /\ u.lines = o.lines /\ u.payload = o.payload
      /\ u.by = o.by /\ u.shop = o.shop
  <2>1. "SHIPPED" \in OrderStatus
    BY DEF OrderStatus
  <2> QED BY <1>2, <2>1 DEF Sold
<1>4. placed' = [placed EXCEPT ![n] = u]
  BY <1>1, <1>2 DEF Ship
<1>5. placed' \in Seq(TrueSales)
  BY <1>1, <1>3, <1>4, ChangedStaysTrue DEF PlanInv
<1>6. PICK lines \in Seq(Line) : lines = placed[n].lines
  BY <1>1 DEF Sold
<1>7. PICK new : new = [i \in DOMAIN lines |->
                          Movement(lines[i].product, DefaultWarehouse, -lines[i].quantity, "SALE")]
  OBVIOUS
<1>8. moved' = moved \o new
  BY <1>6, <1>7 DEF Ship
<1>9. ASSUME NEW i \in DOMAIN lines PROVE new[i] \in Moved
  <2>1. lines[i] \in Line
    OBVIOUS
  <2>2. lines[i].product \in Products /\ -lines[i].quantity \in Int
    BY <2>1 DEF Line
  <2>3. today \in Nat /\ DefaultWarehouse \in Warehouses
    BY AdviceAssumption DEF PlanInv
  <2> QED BY <1>7, <2>2, <2>3 DEF Movement, Moved
<1>10. new \in Seq(Moved)
  <2>1. PICK c \in Nat : DOMAIN lines = 1 .. c
    OBVIOUS
  <2>2. new \in [1 .. c -> Moved]
    BY <1>7, <1>9, <2>1
  <2> QED BY <2>1, <2>2
<1>11. moved' \in Seq(Moved)
  BY <1>8, <1>10, Joined DEF PlanInv
<1>12. bought' \in Seq(Wanted) /\ today' \in Nat
  BY DEF Ship, PlanInv
<1> QED BY <1>5, <1>11, <1>12 DEF PlanInv

Refunded == [line : Nat, quantity : Int, restock : {"return", "cancel", "no_restock"}]

(* What a refund brings back is of the catalogue.                          *)
LEMMA BackIsKnown ==
  ASSUME NEW k \in DOMAIN Payloads
  PROVE  \A back \in {ShopifyRefund(Payloads[k]), WooRefund(Payloads[k])} :
           back \in Seq([product : Products, quantity : Int])
<1>1. PICK payload : payload = Payloads[k]
  OBVIOUS
<1>2. PICK refunds \in Seq(Refunded) : refunds = payload.refunds
  BY <1>1, ArrivalAssumption DEF Refunded
<1> DEFINE Back == [product : Products, quantity : Int]
<1>3. ASSUME NEW S \in SUBSET (DOMAIN refunds), NEW some, some = At(refunds, S)
      PROVE  /\ \E c \in Nat : DOMAIN some = 1 .. c
             /\ \A n \in DOMAIN some : some[n] \in Refunded /\ \E m \in S : some[n] = refunds[m]
  <2>1. PICK c \in Nat : c = Cardinality(S)
    BY <1>2, PlacesOf
  <2>2. some = [n \in 1 .. c |-> refunds[InOrder(S)[n]]]
    BY <1>3, <2>1 DEF At
  <2>3. \A n \in 1 .. c : InOrder(S)[n] \in S
    BY <1>2, <2>1, PlacesOf
  <2>4. \A m \in S : refunds[m] \in Refunded
    BY <1>2
  <2> QED BY <2>1, <2>2, <2>3, <2>4
<1>4. ShopifyRefund(payload) \in Seq(Back)
  <2> DEFINE Sku(r) == Text[payload.lines[r.line].sku]
             Returned(r) == /\ r.restock = "return" /\ r.line \in DOMAIN payload.lines
                            /\ Lookup({"sku"}, Sku(r)) # None
  <2>1. PICK S \in SUBSET (DOMAIN refunds) : S = {n \in DOMAIN refunds : Returned(refunds[n])}
    OBVIOUS
  <2>2. PICK some : some = At(refunds, S)
    OBVIOUS
  <2>3. PICK c \in Nat : DOMAIN some = 1 .. c
    BY <1>3, <2>2
  <2>4. \A n \in 1 .. c : some[n] \in Refunded /\ Returned(some[n])
    <3> TAKE n \in 1 .. c
    <3>1. some[n] \in Refunded /\ \E m \in S : some[n] = refunds[m]
      BY <1>3, <2>2, <2>3
    <3>2. PICK m \in S : some[n] = refunds[m]
      BY <3>1
    <3>3. Returned(refunds[m])
      BY <2>1
    <3> QED BY <3>1, <3>2, <3>3
  <2>5. PICK back : back = [n \in 1 .. c |-> [product |-> Lookup({"sku"}, Sku(some[n])),
                                              quantity |-> some[n].quantity]]
    OBVIOUS
  <2>6. ShopifyRefund(payload) = back
    BY <1>2, <2>1, <2>2, <2>3, <2>5 DEF ShopifyRefund
  <2>7. \A n \in 1 .. c : back[n] \in Back
    <3> TAKE n \in 1 .. c
    <3>1. Lookup({"sku"}, Sku(some[n])) \in Products
      BY <2>4, FoundIsThere
    <3>2. some[n].quantity \in Int
      BY <2>4 DEF Refunded
    <3> QED BY <2>5, <3>1, <3>2
  <2>8. PICK B : B = Back
    OBVIOUS
  <2>9. back \in [1 .. c -> B]
    BY <2>5, <2>7, <2>8
  <2>10. back \in Seq(B)
    BY <2>9
  <2> QED BY <2>6, <2>8, <2>10
<1>5. WooRefund(payload) \in Seq(Back)
  <2> DEFINE Sku(r) == IF r.line \in DOMAIN payload.lines THEN payload.lines[r.line].sku ELSE None
             Returned(r) == Lookup({"sku"}, Sku(r)) # None /\ r.quantity # 0
  <2>1. PICK S \in SUBSET (DOMAIN refunds) : S = {n \in DOMAIN refunds : Returned(refunds[n])}
    OBVIOUS
  <2>2. PICK some : some = At(refunds, S)
    OBVIOUS
  <2>3. PICK c \in Nat : DOMAIN some = 1 .. c
    BY <1>3, <2>2
  <2>4. \A n \in 1 .. c : some[n] \in Refunded /\ Returned(some[n])
    <3> TAKE n \in 1 .. c
    <3>1. some[n] \in Refunded /\ \E m \in S : some[n] = refunds[m]
      BY <1>3, <2>2, <2>3
    <3>2. PICK m \in S : some[n] = refunds[m]
      BY <3>1
    <3>3. Returned(refunds[m])
      BY <2>1
    <3> QED BY <3>1, <3>2, <3>3
  <2>5. PICK back : back = [n \in 1 .. c |->
                              [product |-> Lookup({"sku"}, Sku(some[n])),
                               quantity |-> IF some[n].quantity < 0 THEN -some[n].quantity
                                            ELSE some[n].quantity]]
    OBVIOUS
  <2>6. WooRefund(payload) = back
    BY <1>2, <2>1, <2>2, <2>3, <2>5 DEF WooRefund
  <2>7. \A n \in 1 .. c : back[n] \in Back
    <3> TAKE n \in 1 .. c
    <3>1. Lookup({"sku"}, Sku(some[n])) \in Products
      BY <2>4, FoundIsThere
    <3>2. some[n].quantity \in Int
      BY <2>4 DEF Refunded
    <3> QED BY <2>5, <3>1, <3>2
  <2>8. PICK B : B = Back
    OBVIOUS
  <2>9. back \in [1 .. c -> B]
    BY <2>5, <2>7, <2>8
  <2>10. back \in Seq(B)
    BY <2>9
  <2> QED BY <2>6, <2>8, <2>10
<1> QED BY <1>1, <1>4, <1>5

LEMMA RefundKeeps ==
  ASSUME PlanInv, NEW n \in DOMAIN placed, Refund(n)
  PROVE  PlanInv'
<1>1. PICK o \in Sold : o = placed[n]
  BY PlacedTyped DEF PlanInv
<1>2. PICK u : u = [o EXCEPT !.refunded = TRUE]
  OBVIOUS
<1>3. /\ u \in Sold /\ u.lines = o.lines /\ u.payload = o.payload
      /\ u.by = o.by /\ u.shop = o.shop
  BY <1>2 DEF Sold
<1>4. placed' = [placed EXCEPT ![n] = u]
  BY <1>1, <1>2 DEF Refund
<1>5. placed' \in Seq(TrueSales)
  BY <1>1, <1>3, <1>4, ChangedStaysTrue DEF PlanInv
<1>6. PICK k \in DOMAIN Payloads : k = placed[n].payload
  BY <1>1 DEF Sold
<1>7. PICK back : back = IF placed[n].shop = "shopify" THEN ShopifyRefund(Payloads[k])
                         ELSE WooRefund(Payloads[k])
  OBVIOUS
<1>8. back \in Seq([product : Products, quantity : Int])
  BY <1>7, BackIsKnown
<1>9. PICK new : new = [i \in DOMAIN back |->
                          Movement(back[i].product, DefaultWarehouse, back[i].quantity, "INBOUND")]
  OBVIOUS
<1>10. moved' = moved \o new
  BY <1>6, <1>7, <1>9 DEF Refund
<1>11. ASSUME NEW i \in DOMAIN back PROVE new[i] \in Moved
  <2>0. PICK B : B = [product : Products, quantity : Int]
    OBVIOUS
  <2>1. back[i] \in [product : Products, quantity : Int]
    <3>1. back \in Seq(B)
      BY <1>8, <2>0
    <3>2. back[i] \in B
      BY <3>1
    <3> QED BY <2>0, <3>2
  <2>2. back[i].product \in Products /\ back[i].quantity \in Int
    BY <2>1
  <2>3. today \in Nat /\ DefaultWarehouse \in Warehouses
    BY AdviceAssumption DEF PlanInv
  <2> QED BY <1>9, <2>2, <2>3 DEF Movement, Moved
<1>12. new \in Seq(Moved)
  <2>0. PICK B : B = [product : Products, quantity : Int]
    OBVIOUS
  <2>1. PICK c \in Nat : DOMAIN back = 1 .. c
    <3>1. back \in Seq(B)
      BY <1>8, <2>0
    <3> QED BY <3>1
  <2>2. new \in [1 .. c -> Moved]
    BY <1>9, <1>11, <2>1
  <2> QED BY <2>1, <2>2
<1>13. moved' \in Seq(Moved)
  BY <1>10, <1>12, Joined DEF PlanInv
<1>14. bought' \in Seq(Wanted) /\ today' \in Nat
  BY DEF Refund, PlanInv
<1> QED BY <1>5, <1>13, <1>14 DEF PlanInv

LEMMA BuyKeeps ==
  ASSUME PlanInv, NEW p \in Active, NEW kept \in BOOLEAN, Buy(p, kept)
  PROVE  PlanInv'
<1>1. placed \in Seq(Sold) /\ bought \in Seq(Wanted) /\ moved \in Seq(Moved)
  BY PlacedTyped DEF PlanInv
<1>2. PICK quantity \in Nat : quantity = Suggested(ShownRows(kept), placed, bought, p)
  <2>1. PICK known \in Seq(Moved) : ShownRows(kept) = BuildStockRows(known)
    BY <1>1, NewestMoved, BalancesAgree DEF ShownRows, Balances
  <2> QED BY <1>1, <2>1, SuggestedIsNat
<1>3. bought' = Append(bought, [product |-> p, quantity |-> quantity, received |-> 0, status |-> "SENT"])
  BY <1>2 DEF Buy
<1>4. bought' \in Seq(Wanted)
  BY <1>1, <1>3, OrderedIsPending
<1>5. placed' \in Seq(TrueSales) /\ moved' \in Seq(Moved) /\ today' \in Nat
  BY DEF Buy, PlanInv
<1> QED BY <1>4, <1>5 DEF PlanInv

LEMMA ReceiveKeeps ==
  ASSUME PlanInv, NEW n \in DOMAIN bought, NEW cost \in UnitCosts,
         NEW quantity \in {1, bought[n].quantity - bought[n].received}, Receive(n, quantity, cost)
  PROVE  PlanInv'
<1>1. PICK o \in Wanted : o = bought[n]
  BY DEF PlanInv
<1>2. quantity \in Nat
  BY <1>1 DEF Wanted, Receive
<1>3. PICK state \in {"PARTIALLY_RECEIVED", "RECEIVED"} :
        state = IF o.received + quantity = o.quantity THEN "RECEIVED" ELSE "PARTIALLY_RECEIVED"
  OBVIOUS
<1>4. PICK u : u = [o EXCEPT !.received = @ + quantity, !.status = state]
  OBVIOUS
<1>5. u \in Wanted
  <2>1. u = [product |-> o.product, quantity |-> o.quantity, received |-> o.received + quantity,
             status |-> state]
    BY <1>4 DEF Wanted
  <2> QED BY <1>2, <2>1 DEF Wanted
<1>6. bought' = [bought EXCEPT ![n] = u]
  BY <1>1, <1>3, <1>4 DEF Receive
<1>7. bought' \in Seq(Wanted)
  <2>1. PICK T : T = Wanted
    OBVIOUS
  <2>2. bought \in Seq(T) /\ u \in T
    BY <1>5, <2>1 DEF PlanInv
  <2>3. [bought EXCEPT ![n] = u] \in Seq(T)
    BY <2>2
  <2> QED BY <1>6, <2>1, <2>3
<1>8. PICK new : new = Movement(o.product, DefaultWarehouse, quantity, "PURCHASE")
  OBVIOUS
<1>9. moved' = Append(moved, new)
  BY <1>1, <1>8 DEF Receive
<1>10. new \in Moved
  <2>1. today \in Nat /\ DefaultWarehouse \in Warehouses
    BY AdviceAssumption DEF PlanInv
  <2> QED BY <1>2, <1>8, <2>1 DEF Movement, Moved, Wanted
<1>11. moved' \in Seq(Moved)
  <2>1. PICK T : T = Moved
    OBVIOUS
  <2>2. moved \in Seq(T) /\ new \in T
    BY <1>10, <2>1 DEF PlanInv
  <2>3. Append(moved, new) \in Seq(T)
    BY <2>2
  <2> QED BY <1>9, <2>1, <2>3
<1>12. placed' \in Seq(TrueSales) /\ today' \in Nat
  BY DEF Receive, PlanInv
<1> QED BY <1>7, <1>11, <1>12 DEF PlanInv

LEMMA PlanKeeps ==
  ASSUME PlanInv, [PlanNext]_planVars
  PROVE  PlanInv'
<1>1. CASE \E w \in Fruitful : Arrives(w[1], w[2], w[3])
  <2>1. PICK w \in Fruitful : Arrives(w[1], w[2], w[3])
    BY <1>1
  <2>2. w[1] \in Shops /\ w[3] \in DOMAIN Payloads
    BY DEF Fruitful
  <2> QED BY <2>1, <2>2, ArrivesKeeps
<1>2. CASE \E shop \in {"shopify", "woo"}, k \in DOMAIN Payloads : Imports(shop, k)
  BY <1>2, ImportsKeeps
<1>3. CASE \E n \in DOMAIN placed : Ship(n) \/ Refund(n)
  BY <1>3, ShipKeeps, RefundKeeps
<1>4. CASE \E p \in Active, kept \in BOOLEAN : Buy(p, kept)
  BY <1>4, BuyKeeps
<1>5. CASE \E n \in DOMAIN bought, cost \in UnitCosts :
             \E quantity \in {1, bought[n].quantity - bought[n].received} : Receive(n, quantity, cost)
  BY <1>5, ReceiveKeeps
<1>6. CASE NextDay
  BY <1>6 DEF NextDay, PlanInv
<1>7. CASE UNCHANGED planVars
  BY <1>7 DEF planVars, PlanInv
<1> QED BY <1>1, <1>2, <1>3, <1>4, <1>5, <1>6, <1>7 DEF PlanNext

\* What the orders, the purchases and the movements are, in every state.
THEOREM PlansAreTyped == PlanSpec => []PlanInv
BY PlanStarts, PlanKeeps, PTL DEF PlanSpec

\* Whatever the five packages' handlers and the importer make of a payload, and whatever is
\* shipped, refunded, bought or received after it, an order sells of each product no more
\* than its payload says, and exactly that when the payload's keys agree; and the handlers
\* and the importer make the same lines of a payload whose skus are text without blanks
\* around them and whose quantities can be read (webhook-handler.ts and mapper.ts of the
\* packages, webhooks.ts).
THEOREM ImportsAsSold == PlanSpec => []OrderedAsSold
<1>1. PlanInv => OrderedAsSold
  BY PlacedTyped DEF PlanInv, OrderedAsSold
<1> QED BY <1>1, PlansAreTyped, PTL

\* In every state the balances and the movements give the same rows; and on these rows, and
\* on those of the newest movements, what is not advised is covered, what is advised is
\* enough, a product of which all warehouses together show no more than the minimum, with
\* nothing on order, is advised, and an order is ready exactly when the default warehouse
\* shows what it needs.  A product that has no more than the minimum in the sum is alerted
\* (purchase-recommendations.ts, dashboard.ts, notifications.ts, inventory.ts).
THEOREM AdviceIsEnough == PlanSpec => []AdviceCovers
<1>1. PlanInv => AdviceCovers
  BY PlacedTyped, TypedCovers DEF PlanInv
<1> QED BY <1>1, PlansAreTyped, PTL
=============================================================================
