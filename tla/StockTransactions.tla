------------------------- MODULE StockTransactions -------------------------
(***************************************************************************)
(* The stock-posting requests of the API in database mode, as PostgreSQL   *)
(* transactions that run concurrently under READ COMMITTED.                *)
(*                                                                         *)
(* Every handler of apps/api/src/domain/stockops-api.service.ts that moves *)
(* stock has the same skeleton: it reads the document it is about (no row  *)
(* lock), probes the balance rows of the lines it takes stock from         *)
(* (adjustBalance with delta 0, then a test of "available"), inserts the   *)
(* StockMovement rows, calls adjustBalance for each line, and, when it     *)
(* confirms a sale, inserts StockReservation rows and calls                *)
(* adjustReservation for each line.  What a transaction writes is private  *)
(* until it commits; what serializes it with the others is the row lock    *)
(* that packages/db/src/stock-balance.ts takes on each balance row.        *)
(*                                                                         *)
(* A movement row is inserted in the same step as the adjustBalance of its *)
(* line: both are private to the transaction, so the order in which it     *)
(* makes them shows to nobody.  A balance row that does not exist yet is a *)
(* row of zeros: lockBalance inserts it, and a second inserter waits for   *)
(* the first as it would wait for the row lock.                            *)
(***************************************************************************)
EXTENDS Integers, Sequences, FiniteSets

CONSTANTS Tx,          \* the requests; each runs one transaction
          Free,        \* the holder of a row nobody has locked
          Product, Warehouse,
          Sale, Purchase, Return, Stocktake,   \* documents, by table
          NoDoc,       \* what a plain movement or transfer is about
          Lines,       \* the lines of each document
          CountedAt,   \* the warehouse of each stocktake
          Opening,     \* the stock on hand at the start, by balance row
          Quantity     \* the quantities a movement or a transfer may name

Key == Product \X Warehouse
Doc == Sale \cup Purchase \cup Return \cup Stocktake
DocLine == [product : Product, quantity : Int]

ASSUME FreeAssumption == Free \notin Tx
ASSUME DocAssumption ==
  /\ NoDoc \notin Doc
  /\ Sale \cap (Purchase \cup Return \cup Stocktake) = {}
  /\ Purchase \cap (Return \cup Stocktake) = {}
  /\ Return \cap Stocktake = {}
ASSUME LinesAssumption ==
  /\ DOMAIN Lines = Doc
  /\ \A d \in Doc : /\ Lines[d] \in Seq(DocLine)
                    /\ Lines[d] # << >>
  /\ \A d \in Doc \ Stocktake : \A i \in DOMAIN Lines[d] : Lines[d][i].quantity > 0
ASSUME CountedAtAssumption == CountedAt \in [Stocktake -> Warehouse]
ASSUME OpeningAssumption == Opening \in [Key -> Nat]
ASSUME QuantityAssumption == Quantity \subseteq Nat \ {0}

VARIABLES balance,    \* the committed StockBalance rows
          ledger,     \* sum of the committed StockMovement rows of each tuple
          held,       \* sum of the committed StockReservation rows of each tuple
          status,     \* the committed status of each document
          default,    \* the warehouse with isDefault
          locker,     \* who holds the row lock of each balance row
          pc, at,     \* the phase of each request, and its line in that phase
          plan,       \* what its handler read and decided at the start
          row,        \* the balance rows as a transaction has written them
          moved,      \* its uncommitted StockMovement rows, summed by tuple
          booked      \* its uncommitted StockReservation rows, summed by tuple

tables == <<balance, ledger, held, status, default>>
vars == <<balance, ledger, held, status, default, locker, pc, at, plan, row, moved, booked>>

-----------------------------------------------------------------------------
(* Types. *)

Row == [onHand : Int, reserved : Int, available : Int, version : Nat]
Line == [key : Key, delta : Int]
Status == {"DRAFT", "CONFIRMED", "SENT", "COMPLETED"}
Working == {"probe", "move", "hold", "commit"}
Phase == {"new", "committed", "aborted"} \cup Working
Plan == [lines : Seq(Line),          \* what to post, in the order of the document
         checked : Nat,              \* how many of the lines are probed first
         holds : BOOLEAN,            \* whether the lines are also reserved
         doc : Doc \cup {NoDoc}]

TypeOK ==
  /\ balance \in [Key -> Row]
  /\ ledger \in [Key -> Int]
  /\ held \in [Key -> Int]
  /\ status \in [Doc -> Status]
  /\ default \in Warehouse
  /\ locker \in [Key -> Tx \cup {Free}]
  /\ pc \in [Tx -> Phase]
  /\ at \in [Tx -> Nat \ {0}]
  /\ plan \in [Tx -> Plan]
  /\ row \in [Tx -> [Key -> Row]]
  /\ moved \in [Tx -> [Key -> Int]]
  /\ booked \in [Tx -> [Key -> Int]]

-----------------------------------------------------------------------------
OpeningRow(k) == [onHand |-> Opening[k], reserved |-> 0,
                  available |-> Opening[k], version |-> 0]
Nothing == [k \in Key |-> 0]
NoPlan == [lines |-> << >>, checked |-> 0, holds |-> FALSE, doc |-> NoDoc]

Init ==
  /\ balance = [k \in Key |-> OpeningRow(k)]
  /\ ledger = Opening
  /\ held = Nothing
  /\ status = [d \in Doc |-> IF d \in Purchase THEN "SENT" ELSE "DRAFT"]
  /\ default \in Warehouse
  /\ locker = [k \in Key |-> Free]
  /\ pc = [t \in Tx |-> "new"]
  /\ at = [t \in Tx |-> 1]
  /\ plan = [t \in Tx |-> NoPlan]
  /\ row = [t \in Tx |-> balance]
  /\ moved = [t \in Tx |-> Nothing]
  /\ booked = [t \in Tx |-> Nothing]

-----------------------------------------------------------------------------
(* packages/db/src/stock-balance.ts *)

(* Mutant: the row is read without FOR UPDATE.                             *)
UnlockedBalance(t, k) == locker' = [locker EXCEPT ![k] = t]

(* Mutant: adjustBalance is given the client instead of the transaction,   *)
(* so that it waits for the lock its own request already holds.            *)
SelfBlocking(t, k) ==
  /\ locker[k] = Free
  /\ locker' = [locker EXCEPT ![k] = t]

(* SELECT ... FOR UPDATE: wait until nobody else holds the row, then see   *)
(* its last committed version, or one's own writes to it.                  *)
LockBalance(t, k) ==
  /\ locker[k] \in {Free, t}
  /\ locker' = [locker EXCEPT ![k] = t]

Seen(t, k) == IF locker[k] = t THEN row[t][k] ELSE balance[k]

AdjustBalance(r, delta) ==
  [onHand |-> r.onHand + delta, reserved |-> r.reserved,
   available |-> (r.onHand + delta) - r.reserved, version |-> r.version + 1]

(* Mutant: "available" is not recomputed when stock is reserved.           *)
StaleAvailable(r, delta) ==
  [onHand |-> r.onHand, reserved |-> r.reserved + delta,
   available |-> r.available, version |-> r.version + 1]

AdjustReservation(r, delta) ==
  [onHand |-> r.onHand, reserved |-> r.reserved + delta,
   available |-> r.onHand - (r.reserved + delta), version |-> r.version + 1]

-----------------------------------------------------------------------------
(* How a handler starts: what it reads before it takes any row lock.       *)

Begin(t, doc, lines, checked, holds) ==
  /\ pc[t] = "new"
  /\ pc' = [pc EXCEPT ![t] = IF checked = 0 THEN "move" ELSE "probe"]
  /\ plan' = [plan EXCEPT ![t] = [lines |-> lines, checked |-> checked,
                                  holds |-> holds, doc |-> doc]]
  /\ UNCHANGED <<tables, locker, at, row, moved, booked>>

(* The lines of document d in warehouse w, with the sign of a receipt (1)  *)
(* or of a sale (-1).                                                      *)
DocLines(d, w, sign) ==
  [i \in 1..Len(Lines[d]) |-> [key |-> <<Lines[d][i].product, w>>,
                               delta |-> sign * Lines[d][i].quantity]]

CreateStockMovement(t) ==
  \E k \in Key, q \in Quantity :
    \/ Begin(t, NoDoc, << [key |-> k, delta |-> q] >>, 0, FALSE)     \* INBOUND, ADJUSTMENT
    \/ Begin(t, NoDoc, << [key |-> k, delta |-> -q] >>, 1, FALSE)    \* OUTBOUND

(* Mutant: a transfer that does not probe its source.                      *)
UnprobedTransfer(t) ==
  \E p \in Product, from, to \in Warehouse, q \in Quantity :
    /\ from # to
    /\ Begin(t, NoDoc, << [key |-> <<p, from>>, delta |-> -q],
                          [key |-> <<p, to>>, delta |-> q] >>, 0, FALSE)

CreateStockTransfer(t) ==
  \E p \in Product, from, to \in Warehouse, q \in Quantity :
    /\ from # to
    /\ Begin(t, NoDoc, << [key |-> <<p, from>>, delta |-> -q],
                          [key |-> <<p, to>>, delta |-> q] >>, 1, FALSE)

ConfirmSalesOrder(t) ==
  \E d \in Sale :
    /\ status[d] = "DRAFT"
    /\ Begin(t, d, DocLines(d, default, -1), Len(Lines[d]), TRUE)

ReceivePurchaseOrder(t) ==
  \E d \in Purchase :
    /\ status[d] \in {"DRAFT", "SENT"}
    /\ Begin(t, d, DocLines(d, default, 1), 0, FALSE)

ApproveSalesReturn(t) ==
  \E d \in Return :
    /\ status[d] = "DRAFT"
    /\ Begin(t, d, DocLines(d, default, 1), 0, FALSE)

(* No test of the stocktake's status; a variance may be negative and is    *)
(* not probed.                                                             *)
ApproveStocktakeVariance(t) ==
  \E d \in Stocktake : Begin(t, d, DocLines(d, CountedAt[d], 1), 0, FALSE)

-----------------------------------------------------------------------------
(* How it goes on. *)

Current(t) == plan[t].lines[at[t]]

(* A transaction ends by releasing its locks; all its writes become        *)
(* visible, or none does.                                                  *)
Release(t, outcome) ==
  /\ locker' = [k \in Key |-> IF locker[k] = t THEN Free ELSE locker[k]]
  /\ pc' = [pc EXCEPT ![t] = outcome]

Rollback(t) ==
  /\ Release(t, "aborted")
  /\ UNCHANGED <<tables, at, plan, row, moved, booked>>

(* Go to the next line of this phase, or to the next phase.                *)
Advance(t, last, next) ==
  /\ at' = [at EXCEPT ![t] = IF at[t] < last THEN at[t] + 1 ELSE 1]
  /\ pc' = [pc EXCEPT ![t] = IF at[t] < last THEN pc[t] ELSE next]
  /\ UNCHANGED plan

AfterMoves(t) == IF plan[t].holds THEN "hold" ELSE "commit"

(* Mutant: the test is of what is on hand, which counts reserved stock.    *)
ShortOnHand(r, quantity) == r.onHand < quantity

Short(r, quantity) == r.available < quantity

(* adjustBalance(..., 0), then "available < quantity" is thrown as an      *)
(* error, which rolls the transaction back.                                *)
Probe(t) ==
  LET k == Current(t).key
      r == AdjustBalance(Seen(t, k), 0)
  IN /\ pc[t] = "probe"
     /\ locker[k] \in {Free, t}
     /\ IF Short(r, -Current(t).delta)
        THEN Rollback(t)
        ELSE /\ LockBalance(t, k)
             /\ row' = [row EXCEPT ![t][k] = r]
             /\ Advance(t, plan[t].checked, "move")
             /\ UNCHANGED <<tables, moved, booked>>

Move(t) ==
  LET k == Current(t).key
      delta == Current(t).delta
  IN /\ pc[t] = "move"
     /\ LockBalance(t, k)
     /\ row' = [row EXCEPT ![t][k] = AdjustBalance(Seen(t, k), delta)]
     /\ moved' = [moved EXCEPT ![t][k] = @ + delta]
     /\ Advance(t, Len(plan[t].lines), AfterMoves(t))
     /\ UNCHANGED <<tables, booked>>

Hold(t) ==
  LET k == Current(t).key
      quantity == -Current(t).delta
  IN /\ pc[t] = "hold"
     /\ LockBalance(t, k)
     /\ row' = [row EXCEPT ![t][k] = AdjustReservation(Seen(t, k), quantity)]
     /\ booked' = [booked EXCEPT ![t][k] = @ + quantity]
     /\ Advance(t, Len(plan[t].lines), "commit")
     /\ UNCHANGED <<tables, moved>>

(* The update of the document is by id: it does not test the status again. *)
FinalStatus(d) == IF d \in Sale THEN "CONFIRMED" ELSE "COMPLETED"

Commit(t) ==
  /\ pc[t] = "commit"
  /\ balance' = [k \in Key |-> IF locker[k] = t THEN row[t][k] ELSE balance[k]]
  /\ ledger' = [k \in Key |-> ledger[k] + moved[t][k]]
  /\ held' = [k \in Key |-> held[k] + booked[t][k]]
  /\ status' = IF plan[t].doc = NoDoc THEN status
               ELSE [status EXCEPT ![plan[t].doc] = FinalStatus(plan[t].doc)]
  /\ Release(t, "committed")
  /\ UNCHANGED <<default, at, plan, row, moved, booked>>

(* The API process dies, the connection is lost, or the interactive        *)
(* transaction runs into its time limit.                                   *)
Fail(t) == pc[t] \in Working /\ Rollback(t)

(* The database aborts one transaction of a cycle of waiting ones.         *)
WaitsFor(t, u) ==
  /\ pc[t] \in Working \ {"commit"}
  /\ u # t
  /\ locker[Current(t).key] = u

DeadlockVictim(t) ==
  \E S \in SUBSET Tx :
    /\ t \in S
    /\ \A u \in S : (\E v \in S : WaitsFor(u, v)) /\ (\E v \in S : WaitsFor(v, u))

DeadlockAbort(t) == DeadlockVictim(t) /\ Rollback(t)

(* updateWarehouse, one transaction that moves the flag.                   *)
UpdateWarehouse ==
  /\ default' \in Warehouse \ {default}
  /\ UNCHANGED <<balance, ledger, held, status, locker, pc, at, plan, row, moved, booked>>

-----------------------------------------------------------------------------
Start(t) ==
  \/ CreateStockMovement(t)
  \/ CreateStockTransfer(t)
  \/ ConfirmSalesOrder(t)
  \/ ReceivePurchaseOrder(t)
  \/ ApproveSalesReturn(t)
  \/ ApproveStocktakeVariance(t)

Continue(t) == Probe(t) \/ Move(t) \/ Hold(t) \/ Commit(t)

Next ==
  \/ \E t \in Tx : Start(t) \/ Continue(t) \/ Fail(t) \/ DeadlockAbort(t)
  \/ UpdateWarehouse

Spec == Init /\ [][Next]_vars

(* A started handler keeps running and the deadlock detector keeps looking *)
(* (deadlock_timeout).  Nobody has to send a request, and nothing has to   *)
(* fail.                                                                   *)
Fairness == \A t \in Tx : WF_vars(Continue(t)) /\ WF_vars(DeadlockAbort(t))

FairSpec == Spec /\ Fairness

-----------------------------------------------------------------------------
(* Properties. *)

(* The header of stock-balance.ts: the StockBalance table is in sync with  *)
(* the StockMovement ledger at all times.  Whatever handlers interleave    *)
(* and wherever they fail, the on-hand quantity of a row is the sum of the *)
(* movements of its tuple.                                                 *)
LedgerMatchesBalance == \A k \in Key : balance[k].onHand = ledger[k]

(* The reserved quantity of a row is the sum of the open reservations of   *)
(* its tuple, and the stored "available" is what the two leave.            *)
ReservationsMatchBalance ==
  \A k \in Key : /\ balance[k].reserved = held[k]
                 /\ balance[k].available = balance[k].onHand - balance[k].reserved

(* Two transactions that take stock from the same row never take more than *)
(* is there: the probe is still true when the stock is deducted.           *)
NoNegativeStock == \A k \in Key : balance[k].onHand >= 0

(* The committed tables are those of StockBook: what a reader sees changes *)
(* by whole postings only, each of which takes what was available when it  *)
(* became visible, however the steps of the transactions interleave.       *)
Book == INSTANCE StockBook WITH
  onHand <- [k \in Key |-> balance[k].onHand],
  reserved <- [k \in Key |-> balance[k].reserved],
  available <- [k \in Key |-> balance[k].available]

ImplementsStockBook == Book!Spec

(* A document posts its stock at most once.                                *)
PostedOnce ==
  \A d \in Doc : Cardinality({t \in Tx : pc[t] = "committed" /\ plan[t].doc = d}) <= 1

(* Every transaction that started ends: one that waits for a row gets it,  *)
(* fails, or is the victim of a deadlock.                                  *)
EveryTransactionEnds ==
  \A t \in Tx : pc[t] \in Working ~> pc[t] \in {"committed", "aborted"}

=============================================================================
