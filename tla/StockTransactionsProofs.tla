----------------------- MODULE StockTransactionsProofs -----------------------
(***************************************************************************)
(* Proofs about StockTransactions, for every set of requests, products,    *)
(* warehouses and documents.                                               *)
(***************************************************************************)
EXTENDS StockTransactions, SequenceTheorems, TLAPS

(* A handler in one of its phases stands on a line that exists.            *)
Placed(t) ==
  /\ pc[t] \in {"probe", "move", "hold"} => at[t] \in 1..Len(plan[t].lines)
  /\ pc[t] = "probe" => at[t] <= plan[t].checked
  /\ plan[t].checked <= Len(plan[t].lines)
  /\ pc[t] = "new" => at[t] = 1

TypeInv == TypeOK /\ \A t \in Tx : Placed(t)

-----------------------------------------------------------------------------
(* The lines a handler starts with: a nonempty list of lines, of which it  *)
(* probes a first part.                                                    *)
Planned(lines, checked) ==
  /\ lines \in Seq(Line)
  /\ Len(lines) > 0
  /\ checked \in 0..Len(lines)

(* The sign and the warehouse turn a document's lines into a plan.         *)
LEMMA DocLinesPlan ==
  ASSUME NEW d \in Doc, NEW w \in Warehouse, NEW sign \in {1, -1}
  PROVE  /\ Planned(DocLines(d, w, sign), 0)
         /\ Planned(DocLines(d, w, sign), Len(Lines[d]))
         /\ Len(DocLines(d, w, sign)) = Len(Lines[d])
<1>1. Lines[d] \in Seq(DocLine) /\ Lines[d] # << >>
  BY LinesAssumption
<1>2. Len(Lines[d]) \in Nat /\ Len(Lines[d]) > 0
  BY <1>1
<1>3. \A i \in 1..Len(Lines[d]) : [key |-> <<Lines[d][i].product, w>>,
                                   delta |-> sign * Lines[d][i].quantity] \in Line
  <2> SUFFICES ASSUME NEW i \in 1..Len(Lines[d])
               PROVE  [key |-> <<Lines[d][i].product, w>>,
                       delta |-> sign * Lines[d][i].quantity] \in Line
    OBVIOUS
  <2>1. Lines[d][i] \in [product : Product, quantity : Int]
    BY <1>1, ElementOfSeq DEF DocLine
  <2>2. sign * Lines[d][i].quantity \in Int
    BY <2>1
  <2> QED BY <2>1, <2>2 DEF Line, Key
<1>4. DocLines(d, w, sign) \in Seq(Line) /\ Len(DocLines(d, w, sign)) = Len(Lines[d])
  BY <1>2, <1>3 DEF DocLines
<1> QED BY <1>2, <1>4 DEF Planned

(* Every way to start is a Begin with a plan.                              *)
LEMMA StartIsBegin ==
  ASSUME NEW t \in Tx, TypeInv, Start(t)
  PROVE  \E doc \in Doc \cup {NoDoc}, lines \in Seq(Line), checked \in Nat, holds \in BOOLEAN :
           Planned(lines, checked) /\ Begin(t, doc, lines, checked, holds)
<1> USE DEF TypeInv, TypeOK
<1>1. CASE CreateStockMovement(t)
  <2>1. PICK k \in Key, q \in Quantity :
          \/ Begin(t, NoDoc, << [key |-> k, delta |-> q] >>, 0, FALSE)
          \/ Begin(t, NoDoc, << [key |-> k, delta |-> -q] >>, 1, FALSE)
    BY <1>1 DEF CreateStockMovement
  <2>2. q \in Int /\ -q \in Int
    BY QuantityAssumption
  <2>3. Planned(<< [key |-> k, delta |-> q] >>, 0) /\ Planned(<< [key |-> k, delta |-> -q] >>, 1)
    BY <2>2 DEF Planned, Line
  <2> QED BY <2>1, <2>3 DEF Planned
<1>2. CASE CreateStockTransfer(t)
  <2>1. PICK p \in Product, from \in Warehouse, to \in Warehouse, q \in Quantity :
          Begin(t, NoDoc, << [key |-> <<p, from>>, delta |-> -q],
                             [key |-> <<p, to>>, delta |-> q] >>, 1, FALSE)
    BY <1>2 DEF CreateStockTransfer
  <2>2. q \in Int /\ -q \in Int
    BY QuantityAssumption
  <2>3. Planned(<< [key |-> <<p, from>>, delta |-> -q], [key |-> <<p, to>>, delta |-> q] >>, 1)
    BY <2>2 DEF Planned, Line, Key
  <2> QED BY <2>1, <2>3 DEF Planned
<1>3. CASE ConfirmSalesOrder(t)
  <2>1. PICK d \in Sale : Begin(t, d, DocLines(d, default, -1), Len(Lines[d]), TRUE)
    BY <1>3 DEF ConfirmSalesOrder
  <2>2. d \in Doc /\ Planned(DocLines(d, default, -1), Len(Lines[d]))
    BY DocLinesPlan DEF Doc
  <2>3. Len(Lines[d]) \in Nat /\ DocLines(d, default, -1) \in Seq(Line)
    BY <2>2 DEF Planned
  <2> QED BY <2>1, <2>2, <2>3
<1>4. CASE ReceivePurchaseOrder(t)
  BY <1>4, DocLinesPlan DEF ReceivePurchaseOrder, Doc, Planned
<1>5. CASE ApproveSalesReturn(t)
  BY <1>5, DocLinesPlan DEF ApproveSalesReturn, Doc, Planned
<1>6. CASE ApproveStocktakeVariance(t)
  BY <1>6, DocLinesPlan, CountedAtAssumption DEF ApproveStocktakeVariance, Doc, Planned
<1> QED BY <1>1, <1>2, <1>3, <1>4, <1>5, <1>6 DEF Start

-----------------------------------------------------------------------------
(* What Begin, Release and Advance do to the typed state.                  *)
LEMMA BeginTyped ==
  ASSUME TypeInv, NEW t \in Tx, NEW doc \in Doc \cup {NoDoc}, NEW lines,
         NEW checked, NEW holds \in BOOLEAN, Planned(lines, checked),
         Begin(t, doc, lines, checked, holds)
  PROVE  TypeInv'
<1> USE DEF TypeInv, TypeOK, Planned, Begin, tables
<1>1. TypeOK'
  BY DEF Plan, Phase, Working
<1>2. ASSUME NEW u \in Tx PROVE Placed(u)'
  BY DEF Placed, Plan
<1> QED BY <1>1, <1>2

LEMMA ReleaseTyped ==
  ASSUME TypeInv, NEW t \in Tx, NEW outcome \in {"committed", "aborted"},
         Release(t, outcome), UNCHANGED <<at, plan>>
  PROVE  /\ locker' \in [Key -> Tx \cup {Free}]
         /\ pc' \in [Tx -> Phase]
         /\ \A u \in Tx : Placed(u)'
BY DEF TypeInv, TypeOK, Release, Phase, Placed

LEMMA AdvanceTyped ==
  ASSUME TypeInv, NEW t \in Tx, pc[t] \in {"probe", "move", "hold"},
         NEW last \in Nat, last <= Len(plan[t].lines), at[t] <= last,
         pc[t] = "probe" => last <= plan[t].checked,
         NEW next \in {"move", "hold", "commit"},
         Advance(t, last, next)
  PROVE  /\ pc' \in [Tx -> Phase]
         /\ at' \in [Tx -> Nat \ {0}]
         /\ \A u \in Tx : Placed(u)'
<1>1. pc' \in [Tx -> Phase]
  BY DEF TypeInv, TypeOK, Advance, Phase, Working
<1>2. at' \in [Tx -> Nat \ {0}]
  BY DEF TypeInv, TypeOK, Advance
<1>3. ASSUME NEW u \in Tx PROVE Placed(u)'
  <2>1. Len(plan[t].lines) \in Nat /\ plan[t].checked \in Nat
    BY DEF TypeInv, TypeOK, Plan
  <2> QED BY <2>1 DEF TypeInv, TypeOK, Advance, Placed
<1> QED BY <1>1, <1>2, <1>3

(* The rows a transaction sees and writes are rows.                        *)
LEMMA RowsTyped ==
  ASSUME TypeInv
  PROVE  /\ \A t \in Tx, k \in Key : Seen(t, k) \in Row
         /\ \A r \in Row, d \in Int : AdjustBalance(r, d) \in Row
         /\ \A r \in Row, d \in Int : AdjustReservation(r, d) \in Row
<1>1. \A t \in Tx, k \in Key : Seen(t, k) \in Row
  BY DEF TypeInv, TypeOK, Seen
<1>2. \A r \in Row, d \in Int : AdjustBalance(r, d) \in Row
  BY DEF Row, AdjustBalance
<1>3. \A r \in Row, d \in Int : AdjustReservation(r, d) \in Row
  BY DEF Row, AdjustReservation
<1> QED BY <1>1, <1>2, <1>3

LEMMA LineTyped ==
  ASSUME TypeInv, NEW t \in Tx, NEW a \in 1..Len(plan[t].lines)
  PROVE  /\ plan[t].lines[a] \in Line
         /\ plan[t].lines[a].key \in Key
         /\ plan[t].lines[a].delta \in Int
<1>1. plan[t].lines \in Seq(Line)
  BY DEF TypeInv, TypeOK, Plan
<1>2. plan[t].lines[a] \in Line
  BY <1>1, ElementOfSeq
<1> QED BY <1>2 DEF Line

LEMMA CurrentTyped ==
  ASSUME TypeInv, NEW t \in Tx, pc[t] \in {"probe", "move", "hold"}
  PROVE  /\ Current(t) \in Line
         /\ Current(t).key \in Key
         /\ Current(t).delta \in Int
<1>1. at[t] \in 1..Len(plan[t].lines)
  BY DEF TypeInv, Placed
<1> QED BY <1>1, LineTyped DEF Current
-----------------------------------------------------------------------------
(* Type correctness.                                                       *)
LEMMA TypeInit == Init => TypeInv
<1> SUFFICES ASSUME Init PROVE TypeInv
  OBVIOUS
<1> USE DEF Init
<1>1. /\ balance \in [Key -> Row] /\ ledger \in [Key -> Int] /\ held \in [Key -> Int]
      /\ status \in [Doc -> Status]
  BY OpeningAssumption DEF OpeningRow, Row, Nothing, Status
<1>2. /\ plan \in [Tx -> Plan]
      /\ \A t \in Tx : plan[t].checked = 0 /\ Len(plan[t].lines) = 0
  BY EmptySeq DEF NoPlan, Plan
<1>3. row \in [Tx -> [Key -> Row]]
  BY <1>1
<1>4. TypeOK
  BY <1>1, <1>2, <1>3 DEF TypeOK, Phase, Nothing
<1>5. ASSUME NEW t \in Tx PROVE Placed(t)
  BY <1>2 DEF Placed
<1> QED BY <1>4, <1>5 DEF TypeInv

LEMMA RollbackTyped ==
  ASSUME TypeInv, NEW t \in Tx, Rollback(t)
  PROVE  TypeInv'
<1>1. Release(t, "aborted") /\ UNCHANGED <<at, plan>>
  BY DEF Rollback
<1> QED BY <1>1, ReleaseTyped DEF TypeInv, TypeOK, Rollback, tables

LEMMA TypeStep == TypeInv /\ [Next]_vars => TypeInv'
<1> SUFFICES ASSUME TypeInv, [Next]_vars PROVE TypeInv'
  OBVIOUS
<1>1. ASSUME NEW t \in Tx, Start(t) PROVE TypeInv'
  BY <1>1, StartIsBegin, BeginTyped
<1>2. ASSUME NEW t \in Tx, Probe(t) PROVE TypeInv'
  <2> DEFINE k == Current(t).key
             r == AdjustBalance(Seen(t, k), 0)
  <2>1. pc[t] = "probe" /\ at[t] <= plan[t].checked /\ plan[t].checked <= Len(plan[t].lines)
    BY <1>2 DEF Probe, TypeInv, Placed
  <2>2. k \in Key /\ r \in Row
    BY <2>1, CurrentTyped, RowsTyped
  <2>3. CASE Rollback(t)
    BY <2>3, RollbackTyped
  <2>4. CASE ~Rollback(t)
    <3>1. /\ LockBalance(t, k)
          /\ row' = [row EXCEPT ![t][k] = r]
          /\ Advance(t, plan[t].checked, "move")
          /\ UNCHANGED <<tables, moved, booked>>
      BY <1>2, <2>4 DEF Probe
    <3>2. plan[t].checked \in Nat
      BY DEF TypeInv, TypeOK, Plan
    <3>3. pc' \in [Tx -> Phase] /\ at' \in [Tx -> Nat \ {0}] /\ \A u \in Tx : Placed(u)'
      BY <2>1, <3>1, <3>2, AdvanceTyped
    <3>4. row' \in [Tx -> [Key -> Row]]
      BY <2>2, <3>1 DEF TypeInv, TypeOK
    <3> QED BY <2>2, <3>1, <3>3, <3>4 DEF TypeInv, TypeOK, LockBalance, Advance, tables
  <2> QED BY <2>3, <2>4
<1>3. ASSUME NEW t \in Tx, Move(t) PROVE TypeInv'
  <2> DEFINE k == Current(t).key
             r == AdjustBalance(Seen(t, k), Current(t).delta)
  <2>1. /\ pc[t] = "move" /\ at[t] <= Len(plan[t].lines) /\ Len(plan[t].lines) \in Nat
        /\ AfterMoves(t) \in {"hold", "commit"}
    BY <1>3 DEF Move, TypeInv, TypeOK, Plan, Placed, AfterMoves
  <2>2. k \in Key /\ Current(t).delta \in Int /\ r \in Row
    BY <2>1, CurrentTyped, RowsTyped
  <2>3. /\ LockBalance(t, k)
        /\ row' = [row EXCEPT ![t][k] = r]
        /\ moved' = [moved EXCEPT ![t][k] = moved[t][k] + Current(t).delta]
        /\ Advance(t, Len(plan[t].lines), AfterMoves(t))
        /\ UNCHANGED <<tables, booked>>
    BY <1>3 DEF Move
  <2>4. pc' \in [Tx -> Phase] /\ at' \in [Tx -> Nat \ {0}] /\ \A u \in Tx : Placed(u)'
    BY <2>1, <2>3, AdvanceTyped
  <2>5. row' \in [Tx -> [Key -> Row]] /\ moved' \in [Tx -> [Key -> Int]]
    BY <2>2, <2>3 DEF TypeInv, TypeOK
  <2> QED BY <2>2, <2>3, <2>4, <2>5 DEF TypeInv, TypeOK, LockBalance, Advance, tables
<1>4. ASSUME NEW t \in Tx, Hold(t) PROVE TypeInv'
  <2> DEFINE k == Current(t).key
             r == AdjustReservation(Seen(t, k), -Current(t).delta)
  <2>1. pc[t] = "hold" /\ at[t] <= Len(plan[t].lines) /\ Len(plan[t].lines) \in Nat
    BY <1>4 DEF Hold, TypeInv, TypeOK, Plan, Placed
  <2>2. k \in Key /\ -Current(t).delta \in Int /\ r \in Row
    BY <2>1, CurrentTyped, RowsTyped
  <2>3. /\ LockBalance(t, k)
        /\ row' = [row EXCEPT ![t][k] = r]
        /\ booked' = [booked EXCEPT ![t][k] = booked[t][k] + -Current(t).delta]
        /\ Advance(t, Len(plan[t].lines), "commit")
        /\ UNCHANGED <<tables, moved>>
    BY <1>4 DEF Hold
  <2>4. pc' \in [Tx -> Phase] /\ at' \in [Tx -> Nat \ {0}] /\ \A u \in Tx : Placed(u)'
    BY <2>1, <2>3, AdvanceTyped
  <2>5. row' \in [Tx -> [Key -> Row]] /\ booked' \in [Tx -> [Key -> Int]]
    BY <2>2, <2>3 DEF TypeInv, TypeOK
  <2> QED BY <2>2, <2>3, <2>4, <2>5 DEF TypeInv, TypeOK, LockBalance, Advance, tables
<1>5. ASSUME NEW t \in Tx, Commit(t) PROVE TypeInv'
  <2>1. Release(t, "committed") /\ UNCHANGED <<at, plan>>
    BY <1>5 DEF Commit
  <2>2. /\ balance' \in [Key -> Row] /\ ledger' \in [Key -> Int] /\ held' \in [Key -> Int]
    BY <1>5 DEF Commit, TypeInv, TypeOK
  <2>3. status' \in [Doc -> Status]
    BY <1>5 DEF Commit, TypeInv, TypeOK, Status, FinalStatus
  <2> QED BY <1>5, <2>1, <2>2, <2>3, ReleaseTyped DEF Commit, TypeInv, TypeOK
<1>6. ASSUME NEW t \in Tx, Fail(t) \/ DeadlockAbort(t) PROVE TypeInv'
  BY <1>6, RollbackTyped DEF Fail, DeadlockAbort
<1>7. CASE UpdateWarehouse
  BY <1>7 DEF UpdateWarehouse, TypeInv, TypeOK, Placed
<1>8. CASE UNCHANGED vars
  BY <1>8 DEF vars, TypeInv, TypeOK, Placed
<1> QED BY <1>1, <1>2, <1>3, <1>4, <1>5, <1>6, <1>7, <1>8 DEF Next, Continue

(* Every reachable state is well typed, and a handler in a phase stands on *)
(* one of its lines.                                                       *)
THEOREM TypeCorrect == Spec => []TypeInv
<1> QED BY TypeInit, TypeStep, PTL DEF Spec

-----------------------------------------------------------------------------
(* The books agree.  The inductive invariant says what a transaction has   *)
(* in its private rows: for a row it has locked, the committed row plus    *)
(* its own uncommitted movements and reservations; for any other row, it   *)
(* has written nothing.                                                    *)
BooksAgree(k) ==
  /\ balance[k].onHand = ledger[k]
  /\ balance[k].reserved = held[k]
  /\ balance[k].available = balance[k].onHand - balance[k].reserved

Private(t, k) ==
  /\ locker[k] = t =>
       /\ pc[t] \in Working
       /\ row[t][k].onHand = balance[k].onHand + moved[t][k]
       /\ row[t][k].reserved = balance[k].reserved + booked[t][k]
       /\ row[t][k].available = row[t][k].onHand - row[t][k].reserved
  /\ locker[k] # t /\ pc[t] \in Working \cup {"new"} =>
       moved[t][k] = 0 /\ booked[t][k] = 0

BooksInv == /\ \A k \in Key : BooksAgree(k)
            /\ \A t \in Tx, k \in Key : Private(t, k)

LEMMA BooksInit == Init => BooksInv
<1> SUFFICES ASSUME Init PROVE BooksInv
  OBVIOUS
<1> USE DEF Init
<1>1. \A k \in Key : BooksAgree(k)
  BY OpeningAssumption DEF BooksAgree, OpeningRow, Nothing
<1>2. \A t \in Tx, k \in Key : Private(t, k)
  BY FreeAssumption DEF Private, Nothing
<1> QED BY <1>1, <1>2 DEF BooksInv

(* The row a transaction sees under its lock is the committed one plus     *)
(* what it has itself written.                                             *)
LEMMA SeenIsPrivate ==
  ASSUME TypeInv, BooksInv, NEW t \in Tx, NEW k \in Key,
         locker[k] \in {Free, t}, pc[t] \in Working
  PROVE  /\ Seen(t, k).onHand = balance[k].onHand + moved[t][k]
         /\ Seen(t, k).reserved = balance[k].reserved + booked[t][k]
         /\ Seen(t, k).available = Seen(t, k).onHand - Seen(t, k).reserved
<1>1. BooksAgree(k) /\ Private(t, k)
  BY DEF BooksInv
<1>2. balance[k] \in Row /\ row[t][k] \in Row /\ moved[t][k] \in Int /\ booked[t][k] \in Int
  BY DEF TypeInv, TypeOK
<1>3. CASE locker[k] = t
  BY <1>1, <1>3 DEF Seen, Private
<1>4. CASE locker[k] # t
  BY <1>1, <1>2, <1>4 DEF Seen, Private, BooksAgree, Row
<1> QED BY <1>3, <1>4

(* A step that writes the private row of one line keeps the books.         *)
LEMMA WriteKeepsBooks ==
  ASSUME TypeInv, BooksInv, NEW t \in Tx, NEW k \in Key, NEW r \in Row,
         NEW m \in Int, NEW b \in Int,
         pc[t] \in Working, pc'[t] \in Working,
         \A u \in Tx : u # t => pc'[u] = pc[u],
         LockBalance(t, k),
         row' = [row EXCEPT ![t][k] = r],
         moved' = [moved EXCEPT ![t][k] = m],
         booked' = [booked EXCEPT ![t][k] = b],
         UNCHANGED tables,
         r.onHand = balance[k].onHand + m,
         r.reserved = balance[k].reserved + b,
         r.available = r.onHand - r.reserved
  PROVE  BooksInv'
<1>1. \A j \in Key : BooksAgree(j)'
  BY DEF BooksInv, BooksAgree, tables
<1>2. ASSUME NEW u \in Tx, NEW j \in Key PROVE Private(u, j)'
  <2> USE <1>2 DEF TypeInv, TypeOK
  <2>1. Private(u, j)
    BY DEF BooksInv
  <2>2. CASE u = t /\ j = k
    BY <2>2 DEF Private, LockBalance, tables
  <2>3. CASE u = t /\ j # k
    BY <2>1, <2>3 DEF Private, LockBalance, tables
  <2>4. CASE u # t /\ j = k
    BY <2>1, <2>4, FreeAssumption DEF Private, LockBalance, tables
  <2>5. CASE u # t /\ j # k
    BY <2>1, <2>5 DEF Private, LockBalance, tables
  <2> QED BY <2>2, <2>3, <2>4, <2>5
<1> QED BY <1>1, <1>2 DEF BooksInv

(* A transaction that ends without writing leaves the books alone.         *)
LEMMA RollbackKeepsBooks ==
  ASSUME TypeInv, BooksInv, NEW t \in Tx, Rollback(t)
  PROVE  BooksInv'
<1>1. \A j \in Key : BooksAgree(j)'
  BY DEF BooksInv, BooksAgree, Rollback, tables
<1>2. ASSUME NEW u \in Tx, NEW j \in Key PROVE Private(u, j)'
  <2>1. Private(u, j)
    BY DEF BooksInv
  <2> QED BY <2>1, FreeAssumption DEF TypeInv, TypeOK, Private, Rollback, Release, tables, Working
<1> QED BY <1>1, <1>2 DEF BooksInv

LEMMA BooksStep == TypeInv /\ BooksInv /\ [Next]_vars => BooksInv'
<1> SUFFICES ASSUME TypeInv, BooksInv, [Next]_vars PROVE BooksInv'
  OBVIOUS
<1>1. ASSUME NEW t \in Tx, Start(t) PROVE BooksInv'
  <2>1. PICK doc \in Doc \cup {NoDoc}, lines \in Seq(Line), checked \in Nat, holds \in BOOLEAN :
          Begin(t, doc, lines, checked, holds)
    BY <1>1, StartIsBegin
  <2>2. \A j \in Key : BooksAgree(j)'
    BY <2>1 DEF BooksInv, BooksAgree, Begin, tables
  <2>3. ASSUME NEW u \in Tx, NEW j \in Key PROVE Private(u, j)'
    <3>1. Private(u, j)
      BY DEF BooksInv
    <3> QED BY <2>1, <3>1 DEF TypeInv, TypeOK, Private, Begin, tables, Working
  <2> QED BY <2>2, <2>3 DEF BooksInv
<1>2. ASSUME NEW t \in Tx, Probe(t) PROVE BooksInv'
  <2> DEFINE k == Current(t).key
             s == Seen(t, k)
             r == AdjustBalance(s, 0)
  <2>1. CASE Rollback(t)
    BY <2>1, RollbackKeepsBooks
  <2>2. CASE ~Rollback(t)
    <3>1. /\ pc[t] = "probe"
          /\ LockBalance(t, k)
          /\ locker[k] \in {Free, t}
          /\ row' = [row EXCEPT ![t][k] = r]
          /\ Advance(t, plan[t].checked, "move")
          /\ UNCHANGED <<tables, moved, booked>>
      BY <1>2, <2>2 DEF Probe
    <3>2. k \in Key /\ s \in Row /\ r \in Row
      BY <3>1, CurrentTyped, RowsTyped
    <3>3. /\ s.onHand = balance[k].onHand + moved[t][k]
          /\ s.reserved = balance[k].reserved + booked[t][k]
      BY <3>1, <3>2, SeenIsPrivate DEF Working
    <3>4. /\ r.onHand = balance[k].onHand + moved[t][k]
          /\ r.reserved = balance[k].reserved + booked[t][k]
          /\ r.available = r.onHand - r.reserved
      BY <3>2, <3>3 DEF AdjustBalance, Row
    <3>5. pc'[t] \in Working /\ \A u \in Tx : u # t => pc'[u] = pc[u]
      BY <3>1 DEF Advance, TypeInv, TypeOK, Working
    <3>6. /\ moved' = [moved EXCEPT ![t][k] = moved[t][k]]
          /\ booked' = [booked EXCEPT ![t][k] = booked[t][k]]
          /\ moved[t][k] \in Int /\ booked[t][k] \in Int
      BY <3>1, <3>2 DEF TypeInv, TypeOK
    <3>7. pc[t] \in Working /\ UNCHANGED tables
      BY <3>1 DEF Working
    <3> HIDE DEF k, s, r
    <3> QED BY <3>1, <3>2, <3>4, <3>5, <3>6, <3>7, WriteKeepsBooks
  <2> QED BY <2>1, <2>2
<1>3. ASSUME NEW t \in Tx, Move(t) PROVE BooksInv'
  <2> DEFINE k == Current(t).key
             s == Seen(t, k)
             d == Current(t).delta
             r == AdjustBalance(s, d)
  <2>1. /\ pc[t] = "move"
        /\ LockBalance(t, k)
        /\ locker[k] \in {Free, t}
        /\ row' = [row EXCEPT ![t][k] = r]
        /\ moved' = [moved EXCEPT ![t][k] = moved[t][k] + d]
        /\ Advance(t, Len(plan[t].lines), AfterMoves(t))
        /\ UNCHANGED <<tables, booked>>
    BY <1>3 DEF Move, LockBalance
  <2>2. k \in Key /\ d \in Int /\ s \in Row /\ r \in Row
    BY <2>1, CurrentTyped, RowsTyped
  <2>3. /\ s.onHand = balance[k].onHand + moved[t][k]
        /\ s.reserved = balance[k].reserved + booked[t][k]
    BY <2>1, <2>2, SeenIsPrivate DEF Working
  <2>4. /\ booked' = [booked EXCEPT ![t][k] = booked[t][k]]
        /\ moved[t][k] \in Int /\ booked[t][k] \in Int /\ balance[k] \in Row
    BY <2>1, <2>2 DEF TypeInv, TypeOK
  <2>5. /\ r.onHand = balance[k].onHand + (moved[t][k] + d)
        /\ r.reserved = balance[k].reserved + booked[t][k]
        /\ r.available = r.onHand - r.reserved
    BY <2>2, <2>3, <2>4 DEF AdjustBalance, Row
  <2>6. pc'[t] \in Working /\ \A u \in Tx : u # t => pc'[u] = pc[u]
    BY <2>1 DEF Advance, AfterMoves, TypeInv, TypeOK, Working
  <2>7. moved[t][k] + d \in Int
    BY <2>2, <2>4
  <2> QED BY <2>1, <2>2, <2>4, <2>5, <2>6, <2>7, WriteKeepsBooks DEF Working
<1>4. ASSUME NEW t \in Tx, Hold(t) PROVE BooksInv'
  <2> DEFINE k == Current(t).key
             s == Seen(t, k)
             q == -Current(t).delta
             r == AdjustReservation(s, q)
  <2>1. /\ pc[t] = "hold"
        /\ LockBalance(t, k)
        /\ locker[k] \in {Free, t}
        /\ row' = [row EXCEPT ![t][k] = r]
        /\ booked' = [booked EXCEPT ![t][k] = booked[t][k] + q]
        /\ Advance(t, Len(plan[t].lines), "commit")
        /\ UNCHANGED <<tables, moved>>
    BY <1>4 DEF Hold, LockBalance
  <2>2. k \in Key /\ q \in Int /\ s \in Row /\ r \in Row
    BY <2>1, CurrentTyped, RowsTyped
  <2>3. /\ s.onHand = balance[k].onHand + moved[t][k]
        /\ s.reserved = balance[k].reserved + booked[t][k]
    BY <2>1, <2>2, SeenIsPrivate DEF Working
  <2>4. /\ moved' = [moved EXCEPT ![t][k] = moved[t][k]]
        /\ moved[t][k] \in Int /\ booked[t][k] \in Int /\ balance[k] \in Row
    BY <2>1, <2>2 DEF TypeInv, TypeOK
  <2>5. /\ r.onHand = balance[k].onHand + moved[t][k]
        /\ r.reserved = balance[k].reserved + (booked[t][k] + q)
        /\ r.available = r.onHand - r.reserved
    BY <2>2, <2>3, <2>4 DEF AdjustReservation, Row
  <2>6. pc'[t] \in Working /\ \A u \in Tx : u # t => pc'[u] = pc[u]
    BY <2>1 DEF Advance, TypeInv, TypeOK, Working
  <2>7. booked[t][k] + q \in Int
    BY <2>2, <2>4
  <2> QED BY <2>1, <2>2, <2>4, <2>5, <2>6, <2>7, WriteKeepsBooks DEF Working
<1>5. ASSUME NEW t \in Tx, Commit(t) PROVE BooksInv'
  <2>1. ASSUME NEW j \in Key PROVE BooksAgree(j)'
    <3>1. BooksAgree(j) /\ Private(t, j) /\ pc[t] = "commit"
      BY <1>5 DEF BooksInv, Commit
    <3>2. /\ balance[j] \in Row /\ row[t][j] \in Row
          /\ ledger[j] \in Int /\ held[j] \in Int /\ moved[t][j] \in Int /\ booked[t][j] \in Int
      BY DEF TypeInv, TypeOK
    <3>3. /\ balance'[j] = IF locker[j] = t THEN row[t][j] ELSE balance[j]
          /\ ledger'[j] = ledger[j] + moved[t][j]
          /\ held'[j] = held[j] + booked[t][j]
      BY <1>5 DEF Commit
    <3> QED BY <3>1, <3>2, <3>3 DEF BooksAgree, Private, Row, Working
  <2>2. ASSUME NEW u \in Tx, NEW j \in Key PROVE Private(u, j)'
    <3>1. Private(u, j)
      BY DEF BooksInv
    <3>2. /\ moved' = moved /\ booked' = booked /\ row' = row
          /\ pc' = [pc EXCEPT ![t] = "committed"]
          /\ locker'[j] = IF locker[j] = t THEN Free ELSE locker[j]
          /\ balance'[j] = IF locker[j] = t THEN row[t][j] ELSE balance[j]
      BY <1>5 DEF Commit, Release
    <3>3. CASE u = t
      BY <3>2, <3>3, FreeAssumption DEF TypeInv, TypeOK, Private, Working
    <3>4. CASE u # t
      BY <3>1, <3>2, <3>4, FreeAssumption DEF TypeInv, TypeOK, Private, Working
    <3> QED BY <3>3, <3>4
  <2> QED BY <2>1, <2>2 DEF BooksInv
<1>6. ASSUME NEW t \in Tx, Fail(t) \/ DeadlockAbort(t) PROVE BooksInv'
  BY <1>6, RollbackKeepsBooks DEF Fail, DeadlockAbort
<1>7. CASE UpdateWarehouse
  BY <1>7 DEF UpdateWarehouse, BooksInv, BooksAgree, Private
<1>8. CASE UNCHANGED vars
  BY <1>8 DEF vars, BooksInv, BooksAgree, Private
<1> QED BY <1>1, <1>2, <1>3, <1>4, <1>5, <1>6, <1>7, <1>8 DEF Next, Continue

LEMMA BooksCorrect == Spec => []BooksInv
<1> QED BY BooksInit, BooksStep, TypeCorrect, PTL DEF Spec

(* The balance table is in sync with the movement ledger at all times, for *)
(* any number of concurrent requests and any lock order.                   *)
THEOREM LedgerInSync == Spec => []LedgerMatchesBalance
<1>1. BooksInv => LedgerMatchesBalance
  BY DEF BooksInv, BooksAgree, LedgerMatchesBalance
<1> QED BY <1>1, BooksCorrect, PTL

(* The reserved and available quantities of every row follow from the open *)
(* reservations and the ledger.                                            *)
THEOREM ReservationsInSync == Spec => []ReservationsMatchBalance
<1>1. BooksInv => ReservationsMatchBalance
  BY DEF BooksInv, BooksAgree, ReservationsMatchBalance
<1> QED BY <1>1, BooksCorrect, PTL

-----------------------------------------------------------------------------
(* Stock never goes negative, as long as a sale does not name a product on *)
(* two lines and no stocktake finds less than was recorded.  Section 5 of  *)
(* the README says what happens without these conditions.                  *)
OneLinePerProduct ==
  \A d \in Sale : \A i, j \in DOMAIN Lines[d] :
    Lines[d][i].product = Lines[d][j].product => i = j

NothingMissing ==
  \A d \in Stocktake : \A i \in DOMAIN Lines[d] : Lines[d][i].quantity >= 0

(* What every plan guarantees: a line that takes stock is probed, no other *)
(* line of the plan touches its row, and only such lines are reserved.     *)
Careful(lines, checked, holds) ==
  /\ \A a \in 1..Len(lines) : lines[a].delta < 0 => a <= checked
  /\ \A a, b \in 1..Len(lines) : lines[a].delta < 0 /\ a # b => lines[a].key # lines[b].key
  /\ holds => \A a \in 1..Len(lines) : lines[a].delta < 0

LEMMA DocLinesAt ==
  ASSUME NEW d \in Doc, NEW w \in Warehouse, NEW sign \in {1, -1},
         NEW a \in 1..Len(Lines[d])
  PROVE  /\ DocLines(d, w, sign)[a].key = <<Lines[d][a].product, w>>
         /\ DocLines(d, w, sign)[a].delta = sign * Lines[d][a].quantity
         /\ Lines[d][a].quantity \in Int
         /\ d \notin Stocktake => Lines[d][a].quantity > 0
<1>1. Lines[d] \in Seq(DocLine)
  BY LinesAssumption
<1>2. Lines[d][a] \in DocLine /\ a \in DOMAIN Lines[d]
  BY <1>1, ElementOfSeq, LenProperties
<1> QED BY <1>2, LinesAssumption DEF DocLines, DocLine

LEMMA NothingTaken ==
  ASSUME NothingMissing, NEW d \in Doc, NEW a \in 1..Len(Lines[d])
  PROVE  Lines[d][a].quantity >= 0
<1>1. Lines[d] \in Seq(DocLine)
  BY LinesAssumption
<1>2. a \in DOMAIN Lines[d]
  BY <1>1, LenProperties
<1>3. CASE d \in Stocktake
  BY <1>2, <1>3 DEF NothingMissing
<1>4. CASE d \notin Stocktake
  <2>1. d \in Doc \ Stocktake
    BY <1>4
  <2>2. Lines[d][a].quantity > 0
    BY <1>2, <2>1, LinesAssumption
  <2>3. Lines[d][a] \in DocLine
    BY <1>1, ElementOfSeq
  <2> QED BY <2>2, <2>3 DEF DocLine
<1> QED BY <1>3, <1>4

LEMMA ReceiptCareful ==
  ASSUME NothingMissing, NEW d \in Doc, NEW w \in Warehouse
  PROVE  Careful(DocLines(d, w, 1), 0, FALSE)
<1>1. Len(DocLines(d, w, 1)) = Len(Lines[d])
  BY DocLinesPlan
<1>2. ASSUME NEW a \in 1..Len(Lines[d]) PROVE ~(DocLines(d, w, 1)[a].delta < 0)
  <2>1. /\ DocLines(d, w, 1)[a].delta = 1 * Lines[d][a].quantity
        /\ Lines[d][a].quantity \in Int /\ Lines[d][a].quantity >= 0
    BY DocLinesAt, NothingTaken
  <2> QED BY <2>1
<1> QED BY <1>1, <1>2 DEF Careful

LEMMA SaleCareful ==
  ASSUME OneLinePerProduct, NEW d \in Sale, NEW w \in Warehouse
  PROVE  Careful(DocLines(d, w, -1), Len(Lines[d]), TRUE)
<1>1. d \in Doc \ Stocktake
  BY DocAssumption DEF Doc
<1>2. Len(DocLines(d, w, -1)) = Len(Lines[d]) /\ DOMAIN Lines[d] = 1..Len(Lines[d])
  BY <1>1, DocLinesPlan, LinesAssumption, LenProperties
<1>3. ASSUME NEW a \in 1..Len(Lines[d])
      PROVE  DocLines(d, w, -1)[a].delta < 0
  <2>1. /\ DocLines(d, w, -1)[a].delta = (-1) * Lines[d][a].quantity
        /\ Lines[d][a].quantity \in Int /\ Lines[d][a].quantity > 0
    BY <1>1, DocLinesAt
  <2> QED BY <2>1
<1>4. ASSUME NEW a \in 1..Len(Lines[d]), NEW b \in 1..Len(Lines[d]), a # b
      PROVE  DocLines(d, w, -1)[a].key # DocLines(d, w, -1)[b].key
  <2>1. /\ DocLines(d, w, -1)[a].key = <<Lines[d][a].product, w>>
        /\ DocLines(d, w, -1)[b].key = <<Lines[d][b].product, w>>
    BY <1>1, DocLinesAt
  <2>2. Lines[d][a].product # Lines[d][b].product
    BY <1>2, <1>4 DEF OneLinePerProduct
  <2> QED BY <2>1, <2>2
<1>5. \A a \in 1..Len(Lines[d]) : a <= Len(Lines[d])
  OBVIOUS
<1> QED BY <1>2, <1>3, <1>4, <1>5 DEF Careful

LEMMA StartIsCareful ==
  ASSUME OneLinePerProduct, NothingMissing, NEW t \in Tx, TypeInv, Start(t)
  PROVE  \E doc \in Doc \cup {NoDoc}, lines \in Seq(Line), checked \in Nat, holds \in BOOLEAN :
           /\ Planned(lines, checked)
           /\ Careful(lines, checked, holds)
           /\ Begin(t, doc, lines, checked, holds)
<1>0. default \in Warehouse
  BY DEF TypeInv, TypeOK
<1>1. CASE CreateStockMovement(t)
  <2>1. PICK k \in Key, q \in Quantity :
          \/ Begin(t, NoDoc, << [key |-> k, delta |-> q] >>, 0, FALSE)
          \/ Begin(t, NoDoc, << [key |-> k, delta |-> -q] >>, 1, FALSE)
    BY <1>1 DEF CreateStockMovement
  <2>2. q \in Int /\ -q \in Int /\ q > 0
    BY QuantityAssumption
  <2>3. Planned(<< [key |-> k, delta |-> q] >>, 0) /\ Planned(<< [key |-> k, delta |-> -q] >>, 1)
    BY <2>2 DEF Planned, Line
  <2>4. /\ Careful(<< [key |-> k, delta |-> q] >>, 0, FALSE)
        /\ Careful(<< [key |-> k, delta |-> -q] >>, 1, FALSE)
    BY <2>2 DEF Careful
  <2> QED BY <2>1, <2>3, <2>4 DEF Planned
<1>2. CASE CreateStockTransfer(t)
  <2>1. PICK p \in Product, from \in Warehouse, to \in Warehouse, q \in Quantity :
          /\ from # to
          /\ Begin(t, NoDoc, << [key |-> <<p, from>>, delta |-> -q],
                                [key |-> <<p, to>>, delta |-> q] >>, 1, FALSE)
    BY <1>2 DEF CreateStockTransfer
  <2>2. q \in Int /\ -q \in Int /\ q > 0
    BY QuantityAssumption
  <2> DEFINE lines == << [key |-> <<p, from>>, delta |-> -q], [key |-> <<p, to>>, delta |-> q] >>
  <2>3. Planned(lines, 1)
    BY <2>2 DEF Planned, Line, Key
  <2>4. Len(lines) = 2 /\ lines[1].delta = -q /\ lines[2].delta = q /\ lines[1].key # lines[2].key
    BY <2>1
  <2>5. Careful(lines, 1, FALSE)
    <3> HIDE DEF lines
    <3>1. 1..2 = {1, 2} /\ ~(q < 0)
      BY <2>2
    <3> QED BY <2>2, <2>4, <3>1 DEF Careful
  <2> QED BY <2>1, <2>3, <2>5 DEF Planned
<1>3. CASE ConfirmSalesOrder(t)
  <2>1. PICK d \in Sale : Begin(t, d, DocLines(d, default, -1), Len(Lines[d]), TRUE)
    BY <1>3 DEF ConfirmSalesOrder
  <2>2. d \in Doc /\ Planned(DocLines(d, default, -1), Len(Lines[d]))
    BY <1>0, DocLinesPlan DEF Doc
  <2>3. Len(Lines[d]) \in Nat /\ DocLines(d, default, -1) \in Seq(Line)
    BY <2>2 DEF Planned
  <2>4. Careful(DocLines(d, default, -1), Len(Lines[d]), TRUE)
    BY <1>0, SaleCareful
  <2> QED BY <2>1, <2>2, <2>3, <2>4
<1>4. CASE ReceivePurchaseOrder(t) \/ ApproveSalesReturn(t)
  <2>1. PICK d \in Purchase \cup Return : Begin(t, d, DocLines(d, default, 1), 0, FALSE)
    BY <1>4 DEF ReceivePurchaseOrder, ApproveSalesReturn
  <2>2. d \in Doc /\ Planned(DocLines(d, default, 1), 0)
    BY <1>0, DocLinesPlan DEF Doc
  <2>3. DocLines(d, default, 1) \in Seq(Line)
    BY <2>2 DEF Planned
  <2>4. Careful(DocLines(d, default, 1), 0, FALSE)
    BY <1>0, <2>2, ReceiptCareful
  <2> QED BY <2>1, <2>2, <2>3, <2>4
<1>5. CASE ApproveStocktakeVariance(t)
  <2>1. PICK d \in Stocktake : Begin(t, d, DocLines(d, CountedAt[d], 1), 0, FALSE)
    BY <1>5 DEF ApproveStocktakeVariance
  <2>2. CountedAt[d] \in Warehouse
    BY CountedAtAssumption
  <2>3. d \in Doc /\ Planned(DocLines(d, CountedAt[d], 1), 0)
    BY <2>2, DocLinesPlan DEF Doc
  <2>4. DocLines(d, CountedAt[d], 1) \in Seq(Line)
    BY <2>3 DEF Planned
  <2>5. Careful(DocLines(d, CountedAt[d], 1), 0, FALSE)
    BY <2>2, <2>3, ReceiptCareful
  <2> QED BY <2>1, <2>3, <2>4, <2>5
<1> QED BY <1>1, <1>2, <1>3, <1>4, <1>5 DEF Start

(* A line whose stock has been probed: its row is locked, and holds enough. *)
Covered(t, a) ==
  /\ locker[plan[t].lines[a].key] = t
  /\ row[t][plan[t].lines[a].key].onHand + plan[t].lines[a].delta >= 0

Prudent(t) ==
  /\ Careful(plan[t].lines, plan[t].checked, plan[t].holds)
  /\ pc[t] = "hold" => plan[t].holds
  /\ pc[t] = "probe" => \A a \in 1..Len(plan[t].lines) :
       a < at[t] /\ plan[t].lines[a].delta < 0 => Covered(t, a)
  /\ pc[t] = "move" => \A a \in 1..Len(plan[t].lines) :
       a >= at[t] /\ plan[t].lines[a].delta < 0 => Covered(t, a)

Solvent(r) == r.onHand >= 0 /\ r.reserved >= 0

StockInv ==
  /\ \A k \in Key : Solvent(balance[k])
  /\ \A t \in Tx, k \in Key : locker[k] = t => Solvent(row[t][k])
  /\ \A t \in Tx : Prudent(t)

LEMMA StockInit == Init => StockInv
<1> SUFFICES ASSUME Init PROVE StockInv
  OBVIOUS
<1> USE DEF Init
<1>1. \A k \in Key : Solvent(balance[k])
  BY OpeningAssumption DEF Solvent, OpeningRow
<1>2. \A t \in Tx, k \in Key : locker[k] = t => Solvent(row[t][k])
  BY FreeAssumption
<1>3. ASSUME NEW t \in Tx PROVE Prudent(t)
  <2>1. plan[t].lines = << >> /\ Len(plan[t].lines) = 0 /\ plan[t].holds = FALSE
    BY DEF NoPlan
  <2> QED BY <2>1 DEF Prudent, Careful
<1> QED BY <1>1, <1>2, <1>3 DEF StockInv

LEMMA SeenIsSolvent ==
  ASSUME StockInv, NEW t \in Tx, NEW k \in Key
  PROVE  Solvent(Seen(t, k))
BY DEF StockInv, Seen

(* A step of t that writes one private row leaves the others prudent.      *)
LEMMA WriteKeepsOthers ==
  ASSUME TypeInv, StockInv, NEW t \in Tx, NEW k \in Key, NEW r \in Row, Solvent(r),
         locker[k] \in {Free, t}, LockBalance(t, k),
         row' = [row EXCEPT ![t][k] = r],
         UNCHANGED <<balance, plan>>,
         \A u \in Tx \ {t} : pc'[u] = pc[u] /\ at'[u] = at[u],
         Prudent(t)'
  PROVE  StockInv'
<1> USE DEF TypeInv, TypeOK
<1>1. \A j \in Key : Solvent(balance[j])'
  BY DEF StockInv, Solvent
<1>2. ASSUME NEW u \in Tx, NEW j \in Key, locker'[j] = u PROVE Solvent(row'[u][j])
  <2>1. CASE u = t /\ j = k
    BY <2>1
  <2>2. CASE ~(u = t /\ j = k)
    BY <1>2, <2>2 DEF StockInv, LockBalance
  <2> QED BY <2>1, <2>2
<1>3. ASSUME NEW u \in Tx \ {t} PROVE Prudent(u)'
  <2>1. Prudent(u)
    BY DEF StockInv
  <2>2. ASSUME NEW a \in 1..Len(plan[u].lines), Covered(u, a) PROVE Covered(u, a)'
    <3>1. plan[u].lines[a] \in Line
      BY LineTyped
    <3>2. plan[u].lines[a].key \in Key /\ plan[u].lines[a].key # k
      BY <2>2, <3>1, FreeAssumption DEF Covered, Line
    <3> QED BY <2>2, <3>2 DEF Covered, LockBalance
  <2> QED BY <2>1, <2>2 DEF Prudent
<1>4. \A u \in Tx : Prudent(u)'
  BY <1>3
<1> QED BY <1>1, <1>2, <1>4 DEF StockInv, Solvent

(* Releasing the locks of t, with balances that stay solvent.              *)
LEMMA ReleaseKeepsStock ==
  ASSUME TypeInv, StockInv, NEW t \in Tx, NEW outcome \in {"committed", "aborted"},
         Release(t, outcome), UNCHANGED <<at, plan, row>>,
         \A k \in Key : Solvent(balance'[k])
  PROVE  StockInv'
<1> USE DEF TypeInv, TypeOK, Release
<1>1. ASSUME NEW u \in Tx, NEW j \in Key, locker'[j] = u PROVE Solvent(row'[u][j])
  BY <1>1, FreeAssumption DEF StockInv
<1>2. ASSUME NEW u \in Tx PROVE Prudent(u)'
  <2>1. Prudent(u)
    BY DEF StockInv
  <2>2. CASE u = t
    BY <2>1, <2>2 DEF Prudent
  <2>3. CASE u # t
    <3>1. ASSUME NEW a \in 1..Len(plan[u].lines), Covered(u, a) PROVE Covered(u, a)'
      <4>1. plan[u].lines[a] \in Line
        BY LineTyped
      <4> QED BY <2>3, <3>1, <4>1 DEF Covered, Line
    <3> QED BY <2>1, <2>3, <3>1 DEF Prudent
  <2> QED BY <2>2, <2>3
<1> QED BY <1>1, <1>2 DEF StockInv, Solvent

LEMMA StockStep ==
  ASSUME OneLinePerProduct, NothingMissing
  PROVE  TypeInv /\ BooksInv /\ StockInv /\ [Next]_vars => StockInv'
<1> SUFFICES ASSUME TypeInv, BooksInv, StockInv, [Next]_vars PROVE StockInv'
  OBVIOUS
<1>1. ASSUME NEW t \in Tx, Start(t) PROVE StockInv'
  <2>1. PICK doc \in Doc \cup {NoDoc}, lines \in Seq(Line), checked \in Nat, holds \in BOOLEAN :
          /\ Planned(lines, checked)
          /\ Careful(lines, checked, holds)
          /\ Begin(t, doc, lines, checked, holds)
    BY <1>1, StartIsCareful
  <2>2. ASSUME NEW u \in Tx PROVE Prudent(u)'
    <3>1. Prudent(u) /\ Placed(u)
      BY DEF StockInv, TypeInv
    <3>2. CASE u # t
      BY <2>1, <3>1, <3>2 DEF Prudent, Covered, Begin, TypeInv, TypeOK
    <3>3. CASE u = t
      <4>1. /\ plan'[t].lines = lines /\ plan'[t].checked = checked /\ plan'[t].holds = holds
            /\ pc'[t] = (IF checked = 0 THEN "move" ELSE "probe")
            /\ at'[t] = 1
        BY <2>1, <3>1, <3>3 DEF Begin, TypeInv, TypeOK, Placed
      <4>2. checked = 0 => \A a \in 1..Len(lines) : ~(lines[a].delta < 0)
        BY <2>1 DEF Careful, Planned
      <4> QED BY <2>1, <3>3, <4>1, <4>2 DEF Prudent
    <3> QED BY <3>2, <3>3
  <2>3. locker' = locker /\ row' = row /\ balance' = balance
    BY <2>1 DEF Begin, tables
  <2> QED BY <2>2, <2>3 DEF StockInv, Solvent
<1>5. ASSUME NEW t \in Tx, Commit(t) PROVE StockInv'
  <2>1. Release(t, "committed") /\ UNCHANGED <<at, plan, row>>
    BY <1>5 DEF Commit
  <2>2. \A k \in Key : Solvent(balance'[k])
    BY <1>5 DEF Commit, StockInv
  <2> QED BY <2>1, <2>2, ReleaseKeepsStock
<1>6. ASSUME NEW t \in Tx, Rollback(t) PROVE StockInv'
  <2>1. Release(t, "aborted") /\ UNCHANGED <<at, plan, row>> /\ balance' = balance
    BY <1>6 DEF Rollback, tables
  <2>2. \A k \in Key : Solvent(balance'[k])
    BY <2>1 DEF StockInv
  <2> QED BY <2>1, <2>2, ReleaseKeepsStock
<1>2. ASSUME NEW t \in Tx, Probe(t) PROVE StockInv'
  <2> DEFINE k == Current(t).key
             s == Seen(t, k)
             r == AdjustBalance(s, 0)
  <2>1. CASE Rollback(t)
    BY <1>6, <2>1
  <2>2. CASE ~Rollback(t)
    <3>1. /\ pc[t] = "probe"
          /\ LockBalance(t, k)
          /\ locker[k] \in {Free, t}
          /\ ~(r.available < -Current(t).delta)
          /\ row' = [row EXCEPT ![t][k] = r]
          /\ Advance(t, plan[t].checked, "move")
          /\ UNCHANGED <<tables, moved, booked>>
      BY <1>2, <2>2 DEF Probe, Short
    <3>2. /\ k \in Key /\ s \in Row /\ r \in Row /\ Current(t).delta \in Int
          /\ Solvent(s)
      BY <3>1, CurrentTyped, RowsTyped, SeenIsSolvent
    <3>3. /\ r.onHand = s.onHand /\ r.reserved = s.reserved
          /\ r.available = s.onHand - s.reserved
          /\ Solvent(r)
      BY <3>2 DEF AdjustBalance, Row, Solvent
    <3>4. r.onHand + Current(t).delta >= 0
      BY <3>1, <3>2, <3>3 DEF Row, Solvent
    <3>5. /\ Prudent(t) /\ Placed(t)
          /\ at[t] \in 1..Len(plan[t].lines) /\ Len(plan[t].lines) \in Nat
          /\ plan[t].checked \in Nat
      BY <3>1 DEF StockInv, TypeInv, TypeOK, Placed, Plan
    <3>6. ASSUME NEW a \in 1..Len(plan[t].lines), plan[t].lines[a].delta < 0,
                 a <= at[t]
          PROVE  Covered(t, a)'
      <4>1. plan[t].lines[a] \in Line /\ plan[t].lines[a].key \in Key /\ plan' = plan
        BY <3>1, LineTyped DEF Advance
      <4>2. CASE a = at[t]
        <5>1. plan[t].lines[a] = Current(t)
          BY <4>2 DEF Current
        <5> QED BY <3>1, <3>2, <3>4, <4>1, <5>1 DEF Covered, LockBalance, TypeInv, TypeOK
      <4>3. CASE a < at[t]
        <5>1. Covered(t, a)
          BY <3>1, <3>5, <3>6, <4>3 DEF Prudent
        <5>2. CASE plan[t].lines[a].key = k
          <6>1. locker[k] = t /\ r.onHand = row[t][k].onHand
            BY <3>3, <5>1, <5>2 DEF Covered, Seen
          <6> QED BY <3>1, <3>2, <4>1, <5>1, <5>2, <6>1 DEF Covered, LockBalance, TypeInv, TypeOK
        <5>3. CASE plan[t].lines[a].key # k
          BY <3>1, <3>2, <4>1, <5>1, <5>3 DEF Covered, LockBalance, TypeInv, TypeOK
        <5> QED BY <5>2, <5>3
      <4> QED BY <3>5, <3>6, <4>2, <4>3 DEF TypeInv, TypeOK
    <3>7. Prudent(t)'
      <4>1. /\ plan' = plan
            /\ at'[t] = IF at[t] < plan[t].checked THEN at[t] + 1 ELSE 1
            /\ pc'[t] = IF at[t] < plan[t].checked THEN "probe" ELSE "move"
        BY <3>1 DEF Advance, TypeInv, TypeOK
      <4>2. Careful(plan[t].lines, plan[t].checked, plan[t].holds)
        BY <3>5 DEF Prudent
      <4>3. CASE at[t] < plan[t].checked
        BY <3>5, <3>6, <4>1, <4>2, <4>3 DEF Prudent
      <4>4. CASE ~(at[t] < plan[t].checked)
        <5>1. \A a \in 1..Len(plan[t].lines) : plan[t].lines[a].delta < 0 => a <= at[t]
          BY <3>1, <3>5, <4>2, <4>4 DEF Careful, Placed
        <5> QED BY <3>6, <4>1, <4>2, <4>4, <5>1 DEF Prudent
      <4> QED BY <4>3, <4>4
    <3>8. /\ UNCHANGED <<balance, plan>>
          /\ \A u \in Tx \ {t} : pc'[u] = pc[u] /\ at'[u] = at[u]
      BY <3>1 DEF Advance, tables, TypeInv, TypeOK
    <3> HIDE DEF k, s, r
    <3> QED BY <3>1, <3>2, <3>3, <3>7, <3>8, WriteKeepsOthers
  <2> QED BY <2>1, <2>2
<1>3. ASSUME NEW t \in Tx, Move(t) PROVE StockInv'
  <2> DEFINE k == Current(t).key
             s == Seen(t, k)
             d == Current(t).delta
             r == AdjustBalance(s, d)
  <2>1. /\ pc[t] = "move"
        /\ LockBalance(t, k)
        /\ locker[k] \in {Free, t}
        /\ row' = [row EXCEPT ![t][k] = r]
        /\ Advance(t, Len(plan[t].lines), AfterMoves(t))
        /\ UNCHANGED <<tables, booked>>
    BY <1>3 DEF Move, LockBalance
  <2>2. /\ k \in Key /\ s \in Row /\ r \in Row /\ d \in Int
        /\ Solvent(s)
    BY <2>1, CurrentTyped, RowsTyped, SeenIsSolvent
  <2>3. /\ Prudent(t) /\ Placed(t)
        /\ at[t] \in 1..Len(plan[t].lines) /\ Len(plan[t].lines) \in Nat
    BY <2>1 DEF StockInv, TypeInv, TypeOK, Placed, Plan
  <2>4. d < 0 => s.onHand + d >= 0
    <3>1. d < 0 => Covered(t, at[t])
      BY <2>1, <2>3 DEF Prudent, Current
    <3>2. Covered(t, at[t]) => s.onHand + d >= 0
      BY DEF Covered, Seen, Current
    <3> QED BY <3>1, <3>2
  <2>5. Solvent(r)
    BY <2>2, <2>4 DEF AdjustBalance, Row, Solvent
  <2>6. /\ UNCHANGED <<balance, plan>>
        /\ \A u \in Tx \ {t} : pc'[u] = pc[u] /\ at'[u] = at[u]
        /\ at'[t] = IF at[t] < Len(plan[t].lines) THEN at[t] + 1 ELSE 1
        /\ pc'[t] = IF at[t] < Len(plan[t].lines) THEN "move" ELSE AfterMoves(t)
    BY <2>1 DEF Advance, tables, TypeInv, TypeOK
  <2>7. ASSUME NEW a \in 1..Len(plan[t].lines), plan[t].lines[a].delta < 0, a > at[t]
        PROVE  Covered(t, a)'
    <3>1. plan[t].lines[a] \in Line /\ plan[t].lines[a].key \in Key
      BY LineTyped
    <3>2. Covered(t, a)
      BY <2>1, <2>3, <2>7, <3>1 DEF Prudent, TypeInv, TypeOK
    <3>3. plan[t].lines[a].key # k
      BY <2>3, <2>7 DEF Prudent, Careful, Current
    <3> QED BY <2>1, <2>2, <2>6, <3>1, <3>2, <3>3 DEF Covered, LockBalance, TypeInv, TypeOK
  <2>8. Prudent(t)'
    <3>1. CASE at[t] < Len(plan[t].lines)
      BY <2>3, <2>6, <2>7, <3>1 DEF Prudent
    <3>2. CASE ~(at[t] < Len(plan[t].lines))
      BY <2>3, <2>6, <3>2 DEF Prudent, AfterMoves
    <3> QED BY <3>1, <3>2
  <2> HIDE DEF k, s, r
  <2> QED BY <2>1, <2>2, <2>5, <2>6, <2>8, WriteKeepsOthers
<1>4. ASSUME NEW t \in Tx, Hold(t) PROVE StockInv'
  <2> DEFINE k == Current(t).key
             s == Seen(t, k)
             q == -Current(t).delta
             r == AdjustReservation(s, q)
  <2>1. /\ pc[t] = "hold"
        /\ LockBalance(t, k)
        /\ locker[k] \in {Free, t}
        /\ row' = [row EXCEPT ![t][k] = r]
        /\ Advance(t, Len(plan[t].lines), "commit")
        /\ UNCHANGED <<tables, moved>>
    BY <1>4 DEF Hold, LockBalance
  <2>2. /\ k \in Key /\ s \in Row /\ r \in Row /\ Current(t).delta \in Int
        /\ Solvent(s)
    BY <2>1, CurrentTyped, RowsTyped, SeenIsSolvent
  <2>3. Prudent(t) /\ Placed(t) /\ at[t] \in 1..Len(plan[t].lines)
    BY <2>1 DEF StockInv, TypeInv, Placed
  <2>4. Current(t).delta < 0
    BY <2>1, <2>3 DEF Prudent, Careful, Current
  <2>5. Solvent(r)
    BY <2>2, <2>4 DEF AdjustReservation, Row, Solvent
  <2>6. /\ UNCHANGED <<balance, plan>>
        /\ \A u \in Tx \ {t} : pc'[u] = pc[u] /\ at'[u] = at[u]
        /\ pc'[t] \in {"hold", "commit"}
    BY <2>1 DEF Advance, tables, TypeInv, TypeOK
  <2>7. Prudent(t)'
    BY <2>1, <2>3, <2>6 DEF Prudent
  <2> HIDE DEF k, s, r
  <2> QED BY <2>1, <2>2, <2>5, <2>6, <2>7, WriteKeepsOthers
<1>7. CASE UpdateWarehouse
  BY <1>7 DEF UpdateWarehouse, StockInv, Prudent, Covered
<1>8. CASE UNCHANGED vars
  BY <1>8 DEF vars, StockInv, Prudent, Covered
<1> QED BY <1>1, <1>2, <1>3, <1>4, <1>5, <1>6, <1>7, <1>8 DEF Next, Continue, Fail, DeadlockAbort

(* Concurrent outbound movements, transfers and confirmations never take   *)
(* more from a row than is there: what a probe has seen under the row lock *)
(* is still there when the line is deducted.                               *)
THEOREM StockNeverNegative ==
  ASSUME OneLinePerProduct, NothingMissing
  PROVE  Spec => []NoNegativeStock
<1>1. StockInv => NoNegativeStock
  BY DEF StockInv, Solvent, NoNegativeStock
<1>2. TypeInv /\ BooksInv /\ StockInv /\ [Next]_vars => StockInv'
  BY StockStep
<1> QED BY <1>1, <1>2, StockInit, TypeCorrect, BooksCorrect, PTL DEF Spec
-----------------------------------------------------------------------------
(* The committed tables implement StockBook.  The inductive invariant says *)
(* how far a transaction has come with each line that takes stock: what it *)
(* has moved and reserved in the row of that line, and, from its probe on, *)
(* that it holds the row and that the committed row covers the line.  In   *)
(* the rows of no such line it has only added, and reserved nothing.       *)
Probed(t, a) ==
  \/ pc[t] \in {"move", "hold", "commit"}
  \/ pc[t] = "probe" /\ a < at[t]

Moved(t, a) ==
  \/ pc[t] \in {"hold", "commit"}
  \/ pc[t] = "move" /\ a < at[t]

Booked(t, a) ==
  \/ pc[t] = "commit" /\ plan[t].holds
  \/ pc[t] = "hold" /\ a < at[t]

Takes(t, a) == plan[t].lines[a].delta < 0

KeyOf(t, a) == plan[t].lines[a].key

Done(t, a) ==
  /\ moved[t][KeyOf(t, a)] = IF Moved(t, a) THEN plan[t].lines[a].delta ELSE 0
  /\ booked[t][KeyOf(t, a)] = IF Booked(t, a) THEN -plan[t].lines[a].delta ELSE 0
  /\ Probed(t, a) => /\ locker[KeyOf(t, a)] = t
                     /\ -plan[t].lines[a].delta <= balance[KeyOf(t, a)].available

TakesFrom(t, k) == \E a \in 1..Len(plan[t].lines) : Takes(t, a) /\ KeyOf(t, a) = k

Posting(t) ==
  pc[t] \in Working =>
    /\ \A a \in 1..Len(plan[t].lines) : Takes(t, a) => Done(t, a)
    /\ \A k \in Key : ~TakesFrom(t, k) => moved[t][k] >= 0 /\ booked[t][k] = 0

PostInv == \A t \in Tx : Posting(t)

LEMMA PostInit == Init => PostInv
BY DEF Init, PostInv, Posting, Working

(* The transactions that do not move keep their postings, as long as their *)
(* locked rows stay as they are.                                           *)
LEMMA OthersKeepPosting ==
  ASSUME TypeInv, NEW u \in Tx, Posting(u),
         pc'[u] = pc[u], at'[u] = at[u], plan'[u] = plan[u],
         moved'[u] = moved[u], booked'[u] = booked[u],
         \A k \in Key : locker[k] = u => locker'[k] = u /\ balance'[k] = balance[k]
  PROVE  Posting(u)'
<1> SUFFICES ASSUME pc[u] \in Working
             PROVE  /\ \A a \in 1..Len(plan[u].lines) : Takes(u, a)' => Done(u, a)'
                    /\ \A k \in Key : ~TakesFrom(u, k)' => moved'[u][k] >= 0 /\ booked'[u][k] = 0
  BY DEF Posting
<1>1. ASSUME NEW a \in 1..Len(plan[u].lines), Takes(u, a)' PROVE Done(u, a)'
  <2>1. KeyOf(u, a) \in Key /\ KeyOf(u, a)' = KeyOf(u, a)
    BY LineTyped DEF KeyOf
  <2>2. Done(u, a)
    BY <1>1 DEF Posting, Takes
  <2>3. /\ Probed(u, a)' = Probed(u, a)
        /\ Moved(u, a)' = Moved(u, a)
        /\ Booked(u, a)' = Booked(u, a)
    BY DEF Probed, Moved, Booked
  <2> QED BY <2>1, <2>2, <2>3 DEF Done
<1>2. ASSUME NEW k \in Key, ~TakesFrom(u, k)' PROVE moved'[u][k] >= 0 /\ booked'[u][k] = 0
  <2>1. ~TakesFrom(u, k)
    BY <1>2 DEF TakesFrom, Takes, KeyOf
  <2> QED BY <2>1 DEF Posting
<1> QED BY <1>1, <1>2

(* A step of t on the row of its current line.                             *)
LEMMA LineStepPosts ==
  ASSUME TypeInv, PostInv, NEW t \in Tx, NEW k \in Key,
         LockBalance(t, k), UNCHANGED <<balance, plan>>,
         \A u \in Tx \ {t} : /\ pc'[u] = pc[u] /\ at'[u] = at[u]
                             /\ moved'[u] = moved[u] /\ booked'[u] = booked[u],
         Posting(t)'
  PROVE  PostInv'
<1>1. ASSUME NEW u \in Tx \ {t} PROVE Posting(u)'
  <2>1. \A j \in Key : locker[j] = u => locker'[j] = u /\ balance'[j] = balance[j]
    BY FreeAssumption DEF LockBalance, TypeInv, TypeOK
  <2> QED BY <2>1, OthersKeepPosting DEF PostInv
<1> QED BY <1>1 DEF PostInv

(* Ending t, with or without writing the rows it has locked.               *)
LEMMA ReleasePosts ==
  ASSUME TypeInv, PostInv, NEW t \in Tx, NEW outcome \in {"committed", "aborted"},
         Release(t, outcome), UNCHANGED <<at, plan, moved, booked>>,
         \A j \in Key : locker[j] # t => balance'[j] = balance[j]
  PROVE  PostInv'
<1>1. ASSUME NEW u \in Tx \ {t} PROVE Posting(u)'
  <2>1. /\ \A j \in Key : locker[j] = u => locker'[j] = u /\ balance'[j] = balance[j]
        /\ pc'[u] = pc[u]
    BY FreeAssumption DEF Release, TypeInv, TypeOK
  <2> QED BY <2>1, OthersKeepPosting DEF PostInv
<1>2. Posting(t)'
  BY DEF Posting, Release, Working, TypeInv, TypeOK
<1> QED BY <1>1, <1>2 DEF PostInv

LEMMA PostStep ==
  ASSUME OneLinePerProduct, NothingMissing
  PROVE  TypeInv /\ BooksInv /\ StockInv /\ PostInv /\ [Next]_vars => PostInv'
<1> SUFFICES ASSUME TypeInv, BooksInv, StockInv, PostInv, [Next]_vars PROVE PostInv'
  OBVIOUS
<1>1. ASSUME NEW t \in Tx, Start(t) PROVE PostInv'
  <2>1. PICK doc \in Doc \cup {NoDoc}, lines \in Seq(Line), checked \in Nat, holds \in BOOLEAN :
          /\ Planned(lines, checked)
          /\ Careful(lines, checked, holds)
          /\ Begin(t, doc, lines, checked, holds)
    BY <1>1, StartIsCareful
  <2>2. /\ plan'[t].lines = lines /\ plan'[t].checked = checked /\ plan'[t].holds = holds
        /\ pc[t] = "new" /\ pc'[t] = (IF checked = 0 THEN "move" ELSE "probe")
        /\ at'[t] = 1
    BY <2>1 DEF Begin, TypeInv, TypeOK, Placed
  <2>3. \A k \in Key : moved'[t][k] = 0 /\ booked'[t][k] = 0
    BY <2>1, <2>2 DEF Begin, BooksInv, Private, Working
  <2>4. checked = 0 => \A a \in 1..Len(lines) : ~(lines[a].delta < 0)
    BY <2>1 DEF Careful, Planned
  <2>5. ASSUME NEW a \in 1..Len(lines), lines[a].delta < 0 PROVE Done(t, a)'
    <3>1. pc'[t] = "probe"
      BY <2>2, <2>4, <2>5
    <3>2. lines[a].key \in Key
      <4>1. lines[a] \in Line
        BY ElementOfSeq
      <4> QED BY <4>1 DEF Line
    <3>3. ~Probed(t, a)' /\ ~Moved(t, a)' /\ ~Booked(t, a)'
      BY <2>2, <3>1 DEF Probed, Moved, Booked
    <3> QED BY <2>2, <2>3, <3>2, <3>3 DEF Done, KeyOf
  <2>6. Posting(t)'
    BY <2>2, <2>3, <2>5 DEF Posting, Takes
  <2>7. ASSUME NEW u \in Tx \ {t} PROVE Posting(u)'
    <3>1. /\ pc'[u] = pc[u] /\ at'[u] = at[u] /\ plan'[u] = plan[u]
          /\ moved'[u] = moved[u] /\ booked'[u] = booked[u]
          /\ locker' = locker /\ balance' = balance
      BY <2>1 DEF Begin, tables, TypeInv, TypeOK
    <3> QED BY <3>1, OthersKeepPosting DEF PostInv
  <2> QED BY <2>6, <2>7 DEF PostInv
<1>5. ASSUME NEW t \in Tx, Commit(t) PROVE PostInv'
  BY <1>5, ReleasePosts DEF Commit
<1>6. ASSUME NEW t \in Tx, Rollback(t) PROVE PostInv'
  BY <1>6, ReleasePosts DEF Rollback, tables
<1>2. ASSUME NEW t \in Tx, Probe(t) PROVE PostInv'
  <2> DEFINE k == Current(t).key
             s == Seen(t, k)
             r == AdjustBalance(s, 0)
  <2>1. CASE Rollback(t)
    BY <1>6, <2>1
  <2>2. CASE ~Rollback(t)
    <3>1. /\ pc[t] = "probe"
          /\ LockBalance(t, k)
          /\ locker[k] \in {Free, t}
          /\ ~(r.available < -Current(t).delta)
          /\ Advance(t, plan[t].checked, "move")
          /\ UNCHANGED <<tables, moved, booked>>
      BY <1>2, <2>2 DEF Probe, Short
    <3>2. /\ k \in Key /\ s \in Row /\ r \in Row /\ Current(t).delta \in Int
          /\ balance[k] \in Row /\ moved[t][k] \in Int /\ booked[t][k] \in Int
      BY <3>1, CurrentTyped, RowsTyped DEF TypeInv, TypeOK
    <3>3. r.available = (balance[k].onHand + moved[t][k]) - (balance[k].reserved + booked[t][k])
      <4>1. /\ s.onHand = balance[k].onHand + moved[t][k]
            /\ s.reserved = balance[k].reserved + booked[t][k]
        BY <3>1, <3>2, SeenIsPrivate DEF Working
      <4> QED BY <3>2, <4>1 DEF AdjustBalance, Row
    <3>4. /\ Prudent(t) /\ Placed(t) /\ Posting(t)
          /\ at[t] \in 1..Len(plan[t].lines) /\ Len(plan[t].lines) \in Nat
          /\ plan[t].checked \in Nat
      BY <3>1 DEF StockInv, PostInv, TypeInv, TypeOK, Placed, Plan
    <3>5. /\ at'[t] = IF at[t] < plan[t].checked THEN at[t] + 1 ELSE 1
          /\ pc'[t] = IF at[t] < plan[t].checked THEN "probe" ELSE "move"
          /\ plan' = plan /\ moved' = moved /\ booked' = booked /\ balance' = balance
          /\ locker' = [locker EXCEPT ![k] = t]
          /\ \A u \in Tx \ {t} : pc'[u] = pc[u] /\ at'[u] = at[u]
      BY <3>1 DEF Advance, LockBalance, tables, TypeInv, TypeOK
    <3>6. ASSUME NEW a \in 1..Len(plan[t].lines), Takes(t, a) PROVE Done(t, a)'
      <4>1. /\ KeyOf(t, a) \in Key /\ KeyOf(t, a)' = KeyOf(t, a)
            /\ plan[t].lines[a].delta \in Int
        BY <3>5, LineTyped DEF KeyOf
      <4>2. Done(t, a)
        BY <3>1, <3>4, <3>6 DEF Posting, Working
      <4>3. /\ moved[t][KeyOf(t, a)] = 0 /\ booked[t][KeyOf(t, a)] = 0
        BY <3>1, <4>2 DEF Done, Moved, Booked
      <4>4. ~Moved(t, a)' /\ ~Booked(t, a)'
        BY <3>4, <3>5 DEF Moved, Booked
      <4>5. Probed(t, a)' => a <= at[t]
        <5>1. a <= plan[t].checked
          BY <3>4, <3>6 DEF Prudent, Careful, Takes
        <5> QED BY <3>4, <3>5, <5>1 DEF Probed
      <4>6. CASE a = at[t]
        <5>1. KeyOf(t, a) = k /\ plan[t].lines[a].delta = Current(t).delta
          BY <4>6 DEF KeyOf, Current
        <5>2. balance[k].available = balance[k].onHand - balance[k].reserved
          BY <3>2 DEF BooksInv, BooksAgree
        <5>3. -plan[t].lines[a].delta <= balance[k].available
          <6>1. ~(r.available < -Current(t).delta) /\ r.available \in Int
            BY <3>1, <3>2 DEF Row
          <6>2. /\ balance[k].onHand \in Int /\ balance[k].reserved \in Int
                /\ moved[t][k] = 0 /\ booked[t][k] = 0
            BY <3>2, <4>3, <5>1 DEF Row
          <6> HIDE DEF k, r
          <6>3. r.available = balance[k].available
            BY <3>3, <5>2, <6>2
          <6> QED BY <3>2, <5>1, <6>1, <6>3
        <5>4. locker'[k] = t
          BY <3>2, <3>5 DEF TypeInv, TypeOK
        <5> HIDE DEF k
        <5> QED BY <3>5, <4>1, <4>3, <4>4, <5>1, <5>3, <5>4 DEF Done
      <4>7. CASE a < at[t]
        <5>1. Probed(t, a)
          BY <3>1, <4>7 DEF Probed
        <5>2. /\ locker[KeyOf(t, a)] = t
              /\ -plan[t].lines[a].delta <= balance[KeyOf(t, a)].available
          BY <4>2, <5>1 DEF Done
        <5>3. locker'[KeyOf(t, a)] = t
          BY <3>2, <3>5, <4>1, <5>2 DEF TypeInv, TypeOK
        <5> QED BY <3>5, <4>1, <4>3, <4>4, <5>2, <5>3 DEF Done
      <4>8. CASE a > at[t]
        BY <3>4, <3>5, <4>1, <4>3, <4>4, <4>5, <4>8 DEF Done
      <4> QED BY <3>4, <4>6, <4>7, <4>8
    <3>7. Posting(t)'
      <4>1. ASSUME NEW j \in Key, ~TakesFrom(t, j)' PROVE moved'[t][j] >= 0 /\ booked'[t][j] = 0
        BY <3>1, <3>4, <3>5, <4>1 DEF Posting, TakesFrom, Takes, KeyOf, Working
      <4>2. \A a \in 1..Len(plan[t].lines) : Takes(t, a)' => Done(t, a)'
        BY <3>5, <3>6 DEF Takes
      <4> QED BY <3>5, <4>1, <4>2 DEF Posting
    <3> HIDE DEF k, s, r
    <3> QED BY <3>1, <3>2, <3>5, <3>7, LineStepPosts
  <2> QED BY <2>1, <2>2
<1>3. ASSUME NEW t \in Tx, Move(t) PROVE PostInv'
  <2> DEFINE k == Current(t).key
             d == Current(t).delta
  <2>1. /\ pc[t] = "move"
        /\ LockBalance(t, k)
        /\ moved' = [moved EXCEPT ![t][k] = moved[t][k] + d]
        /\ Advance(t, Len(plan[t].lines), AfterMoves(t))
        /\ UNCHANGED <<tables, booked>>
    BY <1>3 DEF Move
  <2>2. k \in Key /\ d \in Int /\ moved[t][k] \in Int
    BY <2>1, CurrentTyped DEF TypeInv, TypeOK
  <2>3. /\ Prudent(t) /\ Placed(t) /\ Posting(t)
        /\ at[t] \in 1..Len(plan[t].lines) /\ Len(plan[t].lines) \in Nat
    BY <2>1 DEF StockInv, PostInv, TypeInv, TypeOK, Placed, Plan
  <2>4. /\ at'[t] = IF at[t] < Len(plan[t].lines) THEN at[t] + 1 ELSE 1
        /\ pc'[t] = IF at[t] < Len(plan[t].lines) THEN "move" ELSE AfterMoves(t)
        /\ plan' = plan /\ booked' = booked /\ balance' = balance
        /\ locker' = [locker EXCEPT ![k] = t]
        /\ \A u \in Tx \ {t} : pc'[u] = pc[u] /\ at'[u] = at[u] /\ moved'[u] = moved[u]
    BY <2>1 DEF Advance, LockBalance, tables, TypeInv, TypeOK
  <2>5. \A j \in Key : moved'[t][j] = IF j = k THEN moved[t][k] + d ELSE moved[t][j]
    BY <2>1, <2>2 DEF TypeInv, TypeOK
  <2>6. /\ AfterMoves(t) \in {"hold", "commit"}
        /\ AfterMoves(t) = "commit" => ~plan[t].holds
    BY DEF AfterMoves
  <2>7. ASSUME NEW a \in 1..Len(plan[t].lines), Takes(t, a) PROVE Done(t, a)'
    <3>1. /\ KeyOf(t, a) \in Key /\ KeyOf(t, a)' = KeyOf(t, a)
          /\ plan[t].lines[a].delta \in Int
      BY <2>4, LineTyped DEF KeyOf
    <3>2. Done(t, a)
      BY <2>1, <2>3, <2>7 DEF Posting, Working
    <3>3. booked[t][KeyOf(t, a)] = 0 /\ ~Booked(t, a)'
      BY <2>1, <2>3, <2>4, <2>6, <3>2 DEF Done, Booked
    <3>4. Moved(t, a)' <=> a <= at[t]
      BY <2>3, <2>4, <2>6 DEF Moved
    <3>5. moved'[t][KeyOf(t, a)] = IF a <= at[t] THEN plan[t].lines[a].delta ELSE 0
      <4>1. CASE a = at[t]
        <5>1. KeyOf(t, a) = k /\ plan[t].lines[a].delta = d
          BY <4>1 DEF KeyOf, Current
        <5>2. moved[t][k] = 0
          BY <2>1, <2>3, <3>2, <4>1, <5>1 DEF Done, Moved
        <5> HIDE DEF k, d
        <5> QED BY <2>2, <2>3, <2>5, <4>1, <5>1, <5>2
      <4>2. CASE a # at[t]
        <5>1. KeyOf(t, a) # k
          BY <2>3, <2>7, <4>2 DEF Prudent, Careful, Takes, KeyOf, Current
        <5>2. moved[t][KeyOf(t, a)] = IF a < at[t] THEN plan[t].lines[a].delta ELSE 0
          BY <2>1, <3>2 DEF Done, Moved
        <5> QED BY <2>3, <2>5, <3>1, <4>2, <5>1, <5>2
      <4> QED BY <4>1, <4>2
    <3>6. /\ locker'[KeyOf(t, a)] = t
          /\ -plan[t].lines[a].delta <= balance[KeyOf(t, a)].available
      <4>1. Probed(t, a)
        BY <2>1 DEF Probed
      <4> QED BY <2>2, <2>4, <3>1, <3>2, <4>1 DEF Done, TypeInv, TypeOK
    <3> QED BY <2>4, <3>1, <3>3, <3>4, <3>5, <3>6 DEF Done
  <2>8. ASSUME NEW j \in Key, ~TakesFrom(t, j)' PROVE moved'[t][j] >= 0 /\ booked'[t][j] = 0
    <3>1. ~TakesFrom(t, j) /\ moved[t][j] >= 0 /\ booked[t][j] = 0
      BY <2>1, <2>3, <2>4, <2>8 DEF Posting, TakesFrom, Takes, KeyOf, Working
    <3>2. j = k => ~(d < 0)
      BY <2>3, <3>1 DEF TakesFrom, Takes, KeyOf, Current
    <3> HIDE DEF k, d
    <3> QED BY <2>2, <2>4, <2>5, <3>1, <3>2
  <2>9. Posting(t)'
    BY <2>4, <2>7, <2>8 DEF Posting, Takes
  <2> HIDE DEF k, d
  <2> QED BY <2>1, <2>2, <2>4, <2>9, LineStepPosts
<1>4. ASSUME NEW t \in Tx, Hold(t) PROVE PostInv'
  <2> DEFINE k == Current(t).key
             q == -Current(t).delta
  <2>1. /\ pc[t] = "hold"
        /\ LockBalance(t, k)
        /\ booked' = [booked EXCEPT ![t][k] = booked[t][k] + q]
        /\ Advance(t, Len(plan[t].lines), "commit")
        /\ UNCHANGED <<tables, moved>>
    BY <1>4 DEF Hold
  <2>2. k \in Key /\ q \in Int /\ booked[t][k] \in Int
    BY <2>1, CurrentTyped DEF TypeInv, TypeOK
  <2>3. /\ Prudent(t) /\ Placed(t) /\ Posting(t) /\ plan[t].holds
        /\ at[t] \in 1..Len(plan[t].lines) /\ Len(plan[t].lines) \in Nat
    BY <2>1 DEF StockInv, PostInv, TypeInv, TypeOK, Placed, Plan, Prudent
  <2>4. /\ at'[t] = IF at[t] < Len(plan[t].lines) THEN at[t] + 1 ELSE 1
        /\ pc'[t] = IF at[t] < Len(plan[t].lines) THEN "hold" ELSE "commit"
        /\ plan' = plan /\ moved' = moved /\ balance' = balance
        /\ locker' = [locker EXCEPT ![k] = t]
        /\ \A u \in Tx \ {t} : pc'[u] = pc[u] /\ at'[u] = at[u] /\ booked'[u] = booked[u]
    BY <2>1 DEF Advance, LockBalance, tables, TypeInv, TypeOK
  <2>5. \A j \in Key : booked'[t][j] = IF j = k THEN booked[t][k] + q ELSE booked[t][j]
    BY <2>1, <2>2 DEF TypeInv, TypeOK
  <2>7. ASSUME NEW a \in 1..Len(plan[t].lines), Takes(t, a) PROVE Done(t, a)'
    <3>1. /\ KeyOf(t, a) \in Key /\ KeyOf(t, a)' = KeyOf(t, a)
          /\ plan[t].lines[a].delta \in Int
      BY <2>4, LineTyped DEF KeyOf
    <3>2. Done(t, a)
      BY <2>1, <2>3, <2>7 DEF Posting, Working
    <3>3. moved[t][KeyOf(t, a)] = plan[t].lines[a].delta /\ Moved(t, a)'
      BY <2>1, <2>4, <3>2 DEF Done, Moved
    <3>4. Booked(t, a)' <=> a <= at[t]
      BY <2>3, <2>4 DEF Booked
    <3>5. booked'[t][KeyOf(t, a)] = IF a <= at[t] THEN -plan[t].lines[a].delta ELSE 0
      <4>1. CASE a = at[t]
        <5>1. KeyOf(t, a) = k /\ -plan[t].lines[a].delta = q
          BY <4>1 DEF KeyOf, Current
        <5>2. booked[t][k] = 0
          BY <2>1, <2>3, <3>2, <4>1, <5>1 DEF Done, Booked
        <5> HIDE DEF k, q
        <5> QED BY <2>2, <2>3, <2>5, <4>1, <5>1, <5>2
      <4>2. CASE a # at[t]
        <5>1. KeyOf(t, a) # k
          BY <2>3, <2>7, <4>2 DEF Prudent, Careful, Takes, KeyOf, Current
        <5>2. booked[t][KeyOf(t, a)] = IF a < at[t] THEN -plan[t].lines[a].delta ELSE 0
          BY <2>1, <3>2 DEF Done, Booked
        <5> QED BY <2>3, <2>5, <3>1, <4>2, <5>1, <5>2
      <4> QED BY <4>1, <4>2
    <3>6. /\ locker'[KeyOf(t, a)] = t
          /\ -plan[t].lines[a].delta <= balance[KeyOf(t, a)].available
      <4>1. Probed(t, a)
        BY <2>1 DEF Probed
      <4> QED BY <2>2, <2>4, <3>1, <3>2, <4>1 DEF Done, TypeInv, TypeOK
    <3> QED BY <2>4, <3>1, <3>3, <3>4, <3>5, <3>6 DEF Done
  <2>8. ASSUME NEW j \in Key, ~TakesFrom(t, j)' PROVE moved'[t][j] >= 0 /\ booked'[t][j] = 0
    <3>1. ~TakesFrom(t, j) /\ moved[t][j] >= 0 /\ booked[t][j] = 0
      BY <2>1, <2>3, <2>4, <2>8 DEF Posting, TakesFrom, Takes, KeyOf, Working
    <3>2. Current(t).delta < 0
      BY <2>3 DEF Prudent, Careful, Current
    <3>3. j # k
      BY <2>3, <3>1, <3>2 DEF TakesFrom, Takes, KeyOf, Current
    <3> HIDE DEF k, q
    <3> QED BY <2>4, <2>5, <3>1, <3>3
  <2>9. Posting(t)'
    BY <2>4, <2>7, <2>8 DEF Posting, Takes
  <2> HIDE DEF k, q
  <2> QED BY <2>1, <2>2, <2>4, <2>9, LineStepPosts
<1>7. CASE UpdateWarehouse
  BY <1>7, OthersKeepPosting DEF UpdateWarehouse, PostInv
<1>8. CASE UNCHANGED vars
  BY <1>8, OthersKeepPosting DEF vars, PostInv
<1> QED BY <1>1, <1>2, <1>3, <1>4, <1>5, <1>6, <1>7, <1>8 DEF Next, Continue, Fail, DeadlockAbort

LEMMA BookInit == Init => Book!Init
<1> SUFFICES ASSUME Init PROVE Book!Init
  OBVIOUS
<1>1. ASSUME NEW k \in Key
      PROVE  /\ balance[k].onHand = Opening[k] /\ ledger[k] = Opening[k]
             /\ balance[k].reserved = 0 /\ held[k] = 0
             /\ balance[k].available = Opening[k] /\ Opening[k] \in Nat
  BY OpeningAssumption DEF Init, Nothing, OpeningRow
<1>2. Book!Agree
  BY <1>1 DEF Book!Agree
<1> QED BY <1>1, <1>2 DEF Book!Init

(* A commit is one posting: from each row it takes at most what was        *)
(* available in the committed row, and reserves nothing or what it takes.  *)
LEMMA CommitIsPost ==
  ASSUME TypeInv, BooksInv, BooksInv', PostInv, NEW t \in Tx, Commit(t)
  PROVE  Book!Post
<1>1. Book!Agree'
  BY DEF BooksInv, BooksAgree, Book!Agree
<1>2. ASSUME NEW k \in Key
      PROVE  /\ balance[k].onHand - balance'[k].onHand > 0
                => balance[k].onHand - balance'[k].onHand <= balance[k].available
             /\ balance'[k].reserved - balance[k].reserved
                  \in {0, balance[k].onHand - balance'[k].onHand}
  <2>1. /\ balance[k] \in Row /\ row[t][k] \in Row
        /\ moved[t][k] \in Int /\ booked[t][k] \in Int
    BY DEF TypeInv, TypeOK
  <2>2. balance'[k] = (IF locker[k] = t THEN row[t][k] ELSE balance[k]) /\ pc[t] = "commit"
    BY DEF Commit
  <2>3. Posting(t) /\ pc[t] \in Working
    BY <2>2 DEF PostInv, Working
  <2>4. CASE locker[k] # t
    BY <2>1, <2>2, <2>4 DEF Row
  <2>5. CASE locker[k] = t
    <3>1. /\ balance'[k].onHand = balance[k].onHand + moved[t][k]
          /\ balance'[k].reserved = balance[k].reserved + booked[t][k]
      BY <2>2, <2>5 DEF BooksInv, Private
    <3>2. /\ balance[k].onHand - balance'[k].onHand = -moved[t][k]
          /\ balance'[k].reserved - balance[k].reserved = booked[t][k]
      BY <2>1, <3>1 DEF Row
    <3>3. CASE ~TakesFrom(t, k)
      <4>1. moved[t][k] >= 0 /\ booked[t][k] = 0
        BY <2>3, <3>3 DEF Posting
      <4> QED BY <2>1, <3>2, <4>1
    <3>4. CASE TakesFrom(t, k)
      <4>1. PICK a \in 1..Len(plan[t].lines) : Takes(t, a) /\ KeyOf(t, a) = k
        BY <3>4 DEF TakesFrom
      <4>2. Done(t, a) /\ Moved(t, a) /\ Probed(t, a)
        BY <2>2, <2>3, <4>1 DEF Posting, Moved, Probed
      <4>3. /\ moved[t][k] = plan[t].lines[a].delta
            /\ booked[t][k] \in {0, -plan[t].lines[a].delta}
            /\ -plan[t].lines[a].delta <= balance[k].available
        BY <4>1, <4>2 DEF Done
      <4> QED BY <2>1, <3>2, <4>3
    <3> QED BY <3>3, <3>4
  <2> QED BY <2>4, <2>5
<1> QED BY <1>1, <1>2 DEF Book!Post, Book!Taken, Book!Reserved

(* Every other step leaves the committed books as they are.                *)
LEMMA OtherStepsKeepBook ==
  ASSUME TypeInv, [Next]_vars, ~\E t \in Tx : Commit(t)
  PROVE  UNCHANGED Book!books
<1>1. balance' = balance /\ ledger' = ledger /\ held' = held
  <2>1. ASSUME NEW t \in Tx, Start(t) PROVE UNCHANGED tables
    BY <2>1, StartIsBegin DEF Begin
  <2>2. ASSUME NEW t \in Tx, Rollback(t) PROVE UNCHANGED tables
    BY <2>2 DEF Rollback
  <2>3. ASSUME NEW t \in Tx, Probe(t) \/ Move(t) \/ Hold(t) PROVE UNCHANGED tables
    BY <2>2, <2>3 DEF Probe, Move, Hold
  <2> QED BY <2>1, <2>2, <2>3 DEF Next, Continue, Fail, DeadlockAbort, UpdateWarehouse, tables, vars
<1> QED BY <1>1 DEF Book!books

(* What a reader of the committed stock tables sees is StockBook: whole    *)
(* postings, each of which takes at most what was available when it became *)
(* visible, for any number of concurrent requests, however their steps     *)
(* interleave and wherever they fail.                                      *)
THEOREM TablesImplementBook ==
  ASSUME OneLinePerProduct, NothingMissing
  PROVE  Spec => ImplementsStockBook
<1>1. TypeInv /\ BooksInv /\ StockInv /\ [Next]_vars => StockInv'
  BY StockStep
<1>2. TypeInv /\ BooksInv /\ StockInv /\ PostInv /\ [Next]_vars => PostInv'
  BY PostStep
<1>3. TypeInv /\ BooksInv /\ BooksInv' /\ PostInv /\ [Next]_vars => [Book!Post]_(Book!books)
  BY CommitIsPost, OtherStepsKeepBook
<1> QED BY <1>1, <1>2, <1>3, BookInit, StockInit, PostInit, TypeCorrect, BooksCorrect, PTL
        DEF Spec, ImplementsStockBook, Book!Spec
=============================================================================
