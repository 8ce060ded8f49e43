----------------------------- MODULE MobileQueues -----------------------------
(***************************************************************************)
(* The mobile pages of the web application and its service worker, on one  *)
(* phone.  A page posts server actions; without a connection it stores     *)
(* them in IndexedDB (lib/offline-queue.ts) and sends them, in the order   *)
(* they were made, when the browser reports a connection or the user asks  *)
(* for it.  The service worker does the same for failed calls of the API.  *)
(* Nothing keeps two replays of a queue apart, no item has a key, and a    *)
(* request whose answer was lost may still be handled.                     *)
(***************************************************************************)
EXTENDS Integers, Sequences

CONSTANTS
  Scripts,        \* what a worker may do with the phone: sequences of [page, op, ...]
  Replay,         \* replays that can be under way at a time
  Ordered,        \* quantity of the order that is picked
  Arriving,       \* quantity of the purchase order
  OnShelf, InBook,\* what the shelf and the books hold to begin with
  MaxOutages, MaxLosses   \* bounds: how often the connection goes, a request is lost

Pages == {"pick", "receive", "stocktake", "worker"}
Acts == [page : Pages, op : {"start", "update", "pack", "receive", "count", "post"}]

ASSUME ScriptsAssumption == Scripts \subseteq Seq(Acts)
\* The goods of the purchase order arrive once.
ASSUME ArrivalAssumption ==
  \A s \in Scripts : \A i, j \in DOMAIN s : s[i].op = "receive" /\ s[j].op = "receive" => i = j
ASSUME ReplayAssumption == Replay \cap {"form", "nobody"} = {}
ASSUME QuantityAssumption == {Ordered, Arriving, OnShelf, InBook} \subseteq Nat

VARIABLES
  script, done,   \* what the worker will do, and how much of it is done
  online, outages, losses,
  queue,          \* the stored items, by their number in the script
  replay,         \* what each replay has still to send, and where it is
  wire,           \* requests that the server has not handled
  order, picked,  \* the sales order that is picked: its status, the picked quantity
  purchase,       \* the purchase order: "OPEN" or "COMPLETED"
  book, shelf,    \* the stock of the counted product: in the books, on the shelf
  counted,        \* what was counted for an item
  stored, entered, answered, \* history: items that were queued, applied, answered
  last,           \* history: the count that was handled last, 0 before the first
  stale,          \* history: counts that stock has overtaken on their way
  sound           \* history: the last count was handled before stock overtook it

phone == <<script, done, online, outages, losses, queue, replay, wire>>
tables == <<order, picked, purchase, book>>
history == <<stored, entered, answered, last, stale, sound>>
phoneVars == <<phone, tables, shelf, counted, history>>

-----------------------------------------------------------------------------
Item == 1..Len(script)
PageOf(i) == script[i].page
Op(i) == script[i].op

Idle == [page |-> "none", left |-> {}, at |-> "idle"]

\* listQueue: the items of the page's kinds, which a replay takes oldest first.
ListQueue(page) == {i \in queue : PageOf(i) = page}
Oldest(r) == CHOOSE i \in replay[r].left : \A j \in replay[r].left : i <= j
Later(r) == replay[r].left \ {Oldest(r)}

\* Counts and receipts that the server may still handle: they are stored, sent,
\* or in the list of a replay, from which nothing removes what another one sent.
OnItsWay(op) ==
  {i \in queue \cup {m.item : m \in wire} \cup UNION {replay[r].left : r \in Replay} :
     Op(i) = op}

-----------------------------------------------------------------------------
(* The worker. *)

\* The list to pick is shown once the picking has begun.
Offered(i) == Op(i) \in {"update", "pack"} => order # "CONFIRMED"

\* Goods arrive on the shelf when they are taken in, and a count is what the
\* shelf holds at the time.
Perform ==
  LET i == done + 1 IN
  /\ done < Len(script) /\ Offered(i)
  /\ done' = i
  /\ shelf' = IF Op(i) = "receive" THEN shelf + Arriving ELSE shelf
  /\ counted' = [counted EXCEPT ![i] = shelf]
  /\ IF online
     THEN /\ wire' = wire \cup {[item |-> i, by |-> "form"]}
          /\ UNCHANGED <<queue, stored>>
     ELSE /\ queue' = queue \cup {i}
          /\ stored' = stored \cup {i}
          /\ UNCHANGED wire
  /\ stale' = stale \cup (IF Op(i) = "receive" THEN OnItsWay("count") ELSE {})
                    \cup (IF Op(i) = "count" /\ OnItsWay("receive") # {} THEN {i} ELSE {})
  /\ UNCHANGED <<script, online, outages, losses, replay, tables, entered, answered, last, sound>>

\* The request does not reach the server, or it does and nobody gets the answer.
Drops(m) ==
  \/ wire' = wire \ {m}
  \/ m \in wire /\ wire' = (wire \ {m}) \cup {[item |-> m.item, by |-> "nobody"]}

\* A call of the API that fails is stored by the service worker, whether or not
\* the server handles it.
Intercept(m) ==
  /\ m \in wire /\ m.by = "form" /\ PageOf(m.item) = "worker"
  /\ IF online THEN losses < MaxLosses /\ losses' = losses + 1 ELSE UNCHANGED losses
  /\ queue' = queue \cup {m.item}
  /\ stored' = stored \cup {m.item}
  /\ Drops(m)
  /\ UNCHANGED <<script, done, online, outages, replay, tables, shelf, counted,
                 entered, answered, last, stale, sound>>

-----------------------------------------------------------------------------
(* Replays. *)

Starts(r, page) ==
  /\ replay[r].at = "idle"
  /\ ListQueue(page) # {}
  /\ replay' = [replay EXCEPT ![r] =
       [page |-> page, left |-> ListQueue(page), at |-> "next"]]

\* The "online" event of the page that is open, the "sync" event of the worker.
GoOnline ==
  /\ ~ online
  /\ online' = TRUE
  /\ \/ \E r \in Replay, page \in Pages : Starts(r, page)
     \/ UNCHANGED replay
  /\ UNCHANGED <<script, done, outages, losses, queue, wire, tables, shelf, counted, history>>

\* The button of the page; FORCE_SYNC of the worker.
SyncQueue(r, page) ==
  /\ online
  /\ Starts(r, page)
  /\ UNCHANGED <<script, done, online, outages, losses, queue, wire, tables, shelf, counted, history>>

GoOffline ==
  /\ online /\ outages < MaxOutages
  /\ online' = FALSE
  /\ outages' = outages + 1
  /\ UNCHANGED <<script, done, losses, queue, replay, wire, tables, shelf, counted, history>>

\* Mutant: a page goes on after an item that failed, as the worker does.
GoesOn(r) == [replay[r] EXCEPT !.left = Later(r), !.at = "next"]

\* A page gives up at the first item that fails.  The worker goes on.
AfterFailure(r) ==
  IF replay[r].page = "worker"
  THEN [replay[r] EXCEPT !.left = Later(r), !.at = "next"]
  ELSE Idle

Send(r) ==
  /\ replay[r].at = "next"
  /\ IF replay[r].left = {}
     THEN replay' = [replay EXCEPT ![r] = Idle] /\ UNCHANGED wire
     ELSE IF online
     THEN /\ replay' = [replay EXCEPT ![r].at = "waiting"]
          /\ wire' = wire \cup {[item |-> Oldest(r), by |-> r]}
     ELSE replay' = [replay EXCEPT ![r] = AfterFailure(r)] /\ UNCHANGED wire
  /\ UNCHANGED <<script, done, online, outages, losses, queue, tables, shelf, counted,
                 history>>

\* The connection ends or the application is closed; nobody waits for the answer.
Lose(r) ==
  /\ replay[r].at \in {"waiting", "ok", "refused"}
  /\ losses < MaxLosses
  /\ losses' = losses + 1
  /\ Drops([item |-> Oldest(r), by |-> r])
  /\ replay' = [replay EXCEPT ![r] = AfterFailure(r)]
  /\ UNCHANGED <<script, done, online, outages, queue, tables, shelf, counted, history>>

\* The page is left: its replay ends, what is stored stays.
Close(r) ==
  /\ replay[r].at \in {"next", "removing"}
  /\ losses < MaxLosses
  /\ losses' = losses + 1
  /\ replay' = [replay EXCEPT ![r] = Idle]
  /\ UNCHANGED <<script, done, online, outages, queue, wire, tables, shelf, counted, history>>

\* Mutant: the answer is not looked at.
AnyAnswer(r) == TRUE

\* The worker's fetch resolves with whatever the server answers.
Succeeded(r) == replay[r].at = "ok" \/ replay[r].page = "worker"

TakeAnswer(r) ==
  /\ replay[r].at \in {"ok", "refused"}
  /\ replay' = IF Succeeded(r) THEN [replay EXCEPT ![r].at = "removing"]
               ELSE [replay EXCEPT ![r] = AfterFailure(r)]
  /\ UNCHANGED <<script, done, online, outages, losses, queue, wire, tables, shelf, counted, history>>

RemoveFromQueue(r) ==
  /\ replay[r].at = "removing"
  /\ queue' = queue \ {Oldest(r)}
  /\ replay' = [replay EXCEPT ![r] = [replay[r] EXCEPT !.left = Later(r), !.at = "next"]]
  /\ UNCHANGED <<script, done, online, outages, losses, wire, tables, shelf, counted, history>>

-----------------------------------------------------------------------------
(* The server, an action of which is one step here: its races are those of  *)
(* BackOffice.                                                              *)

\* Mutant: an order that was received is received again.
AnyPurchase == TRUE

Receivable == purchase = "OPEN"

Does(i) ==
  \/ /\ Op(i) = "start" /\ order = "CONFIRMED"
     /\ order' = "PICKING" /\ UNCHANGED <<picked, purchase, book>>
  \/ /\ Op(i) = "update" /\ order # "CONFIRMED"
     /\ picked' = Ordered /\ UNCHANGED <<order, purchase, book>>
  \/ /\ Op(i) = "pack" /\ order = "PICKING" /\ picked = Ordered
     /\ order' = "PACKED" /\ UNCHANGED <<picked, purchase, book>>
  \/ /\ Op(i) = "receive" /\ Receivable
     /\ purchase' = "COMPLETED" /\ book' = book + Arriving /\ UNCHANGED <<order, picked>>
  \/ /\ Op(i) = "count"
     /\ book' = counted[i] /\ UNCHANGED <<order, picked, purchase>>
  \/ Op(i) = "post" /\ UNCHANGED tables

\* What an action does not do it refuses.  It may refuse what it could do, too:
\* for want of a permission, a session or the database (runMutation), and then
\* it changes nothing.  The form of a page does not store what was refused; a
\* form whose request is lost leaves the same behind.
Serve(m) ==
  /\ m \in wire
  /\ wire' = wire \ {m}
  /\ answered' = answered \cup {m.item}
  /\ \E ok \in BOOLEAN :
       /\ IF ok THEN Does(m.item) /\ entered' = entered \cup {m.item}
          ELSE UNCHANGED <<tables, entered>>
       /\ replay' = IF m.by \in Replay
                    THEN [replay EXCEPT ![m.by].at = IF ok THEN "ok" ELSE "refused"] ELSE replay
       /\ IF ok /\ Op(m.item) = "count"
          THEN last' = m.item /\ sound' = (m.item \notin stale)
          ELSE UNCHANGED <<last, sound>>
  /\ UNCHANGED <<script, done, online, outages, losses, queue, shelf, counted, stored, stale>>

\* Somebody else sells one.
Sell ==
  /\ shelf > 0 /\ book > 0 /\ shelf = OnShelf
  /\ shelf' = shelf - 1
  /\ book' = book - 1
  /\ stale' = stale \cup OnItsWay("count")
  /\ UNCHANGED <<phone, order, picked, purchase, counted, stored, entered, answered, last, sound>>

-----------------------------------------------------------------------------
PhoneInit ==
  /\ script \in Scripts
  /\ done = 0
  /\ online \in BOOLEAN
  /\ outages = 0 /\ losses = 0
  /\ queue = {} /\ wire = {}
  /\ replay = [r \in Replay |-> Idle]
  /\ order = "CONFIRMED" /\ picked = 0 /\ purchase = "OPEN"
  /\ book = InBook /\ shelf = OnShelf
  /\ counted = [i \in Item |-> 0]
  /\ stored = {} /\ entered = {} /\ answered = {}
  /\ last = 0 /\ stale = {} /\ sound = FALSE

PhoneNext ==
  \/ Perform \/ GoOnline \/ GoOffline \/ Sell
  \/ \E m \in wire : Intercept(m) \/ Serve(m)
  \/ \E r \in Replay :
       \/ \E page \in Pages : SyncQueue(r, page)
       \/ Send(r) \/ Lose(r) \/ Close(r) \/ TakeAnswer(r) \/ RemoveFromQueue(r)

PhoneSpec == PhoneInit /\ [][PhoneNext]_phoneVars

-----------------------------------------------------------------------------
(* Properties. *)

\* Whatever was stored by a page is applied in the order it was made, with two
\* replays at a time, lost answers and pages that are closed: nothing of a page
\* is applied before what was stored earlier (pick-list.tsx syncQueue, break).
QueueOrderKept ==
  \A i, j \in stored \ {k \in stored : PageOf(k) = "worker"} :
    i < j /\ PageOf(i) = PageOf(j) /\ j \in entered => i \in entered

\* What a page removed from its queue the server has applied, and what the
\* worker removed it has answered (removeFromQueue, deleteFromQueue).
NothingDropped ==
  \A i \in stored \ queue :
    IF PageOf(i) = "worker" THEN i \in answered ELSE i \in entered

\* Once a count is handled that stock did not overtake on its way, the books agree
\* with the shelf, whatever was refused, lost or wrongly counted before, and they
\* do so until a delivery is taken in that is not booked or a count is handled
\* that stock did overtake: in between nothing that is sent twice, answered late
\* or refused parts them (stocktake-form.tsx submit, receive-list.tsx
\* submitReceive).
BookIsShelf ==
  (/\ sound
   /\ \A j \in last..done : Op(j) = "receive" => j \in entered)
  => book = shelf
=============================================================================
