---------------------- MODULE StockReconciliationProofs ----------------------
(***************************************************************************)
(* The stock and its two copies: the balances that a run of                *)
(* StockReconciliation repairs, for every set of requests and tuples, and  *)
(* the listings that the jobs of MarketplaceSync keep, for every set of    *)
(* jobs, listings and products and any catalogue.                          *)
(***************************************************************************)
EXTENDS StockReconciliation, MarketplaceSync, FiniteSums

(* What a run has read of the ledger is true of every tuple that nobody    *)
(* wrote since, and the rows it has read still exist.  Before it reads the *)
(* rows there is nothing it has settled.                                   *)
SumsCurrent(r) ==
  pc[r] # "new" => \A k \in Key \ touched[r] : sums[r][k] = ledger[k]

RowsKnown(r) ==
  /\ rows[r] \subseteq DOMAIN balance
  /\ pc[r] \in {"new", "summed"} => rows[r] = {}

Settled(r) ==
  \A k \in rows[r] \ (todo[r] \cup touched[r]) : balance[k].onHand = ledger[k]

RunInv == \A r \in Run : SumsCurrent(r) /\ RowsKnown(r) /\ Settled(r)

-----------------------------------------------------------------------------
LEMMA TypeInit == Init => TypeOK
<1> SUFFICES ASSUME Init PROVE TypeOK
  OBVIOUS
<1>1. balance \in [Stocked -> Row]
  BY StockAssumption DEF Init, Row
<1>2. ledger \in Change /\ NoChange \in Change
  BY StockAssumption DEF Init, Change, NoChange
<1> QED BY <1>1, <1>2, StockAssumption DEF Init, TypeOK

(* A posting changes each tuple by an integer.                             *)
LEMMA ChangesTyped ==
  ASSUME NEW change \in Changes
  PROVE  change \in Change
<1>1. \A q \in Quantity : q \in Int /\ -q \in Int
  BY StockAssumption
<1>2. CASE \E k \in Key, q \in Quantity \cup {-x : x \in Quantity} : change = Movement(k, q)
  BY <1>1, <1>2 DEF Change, Movement, NoChange
<1>3. CASE \E x \in Key \X Key \X Quantity : change = Transfer(x[1], x[2], x[3])
  <2>1. PICK from \in Key, to \in Key, q \in Quantity : change = Transfer(from, to, q)
    BY <1>3
  <2> QED BY <1>1, <2>1 DEF Change, Transfer, NoChange
<1> QED BY <1>2, <1>3 DEF Changes

LEMMA TypeStep == TypeOK /\ [Next]_vars => TypeOK'
<1> SUFFICES ASSUME TypeOK, [Next]_vars PROVE TypeOK'
  OBVIOUS
<1> USE DEF TypeOK
<1>0. \A k \in Key : RowOf(k) \in Row
  BY DEF RowOf, Row
<1>1. ASSUME NEW a \in Api, ApiPost(a) PROVE TypeOK'
  <2>1. PICK change \in Changes, kind \in {"movement", "sale", "stocktake"} :
          /\ Add(change)
          /\ balance' = [k \in DOMAIN balance \cup Named(change) |->
                           IF k \in Named(change)
                           THEN Adjusted(RowOf(k), change[k],
                                         IF kind = "sale" THEN -change[k] ELSE 0)
                           ELSE balance[k]]
          /\ Touch(Named(change), a)
    BY <1>1 DEF ApiPost
  <2>2. change \in Change
    BY ChangesTyped
  <2>3. ledger' \in Change
    BY <2>1, <2>2 DEF Add, Change
  <2>4. \A k \in Named(change) :
          Adjusted(RowOf(k), change[k], IF kind = "sale" THEN -change[k] ELSE 0) \in Row
    BY <1>0, <2>2 DEF Adjusted, Row, Named, Change
  <2>5. PICK S \in SUBSET Key : Stocked \subseteq S /\ balance \in [S -> Row]
    OBVIOUS
  <2>6. balance' \in [(Named(change) \cup S) -> Row]
    BY <2>1, <2>4, <2>5
  <2>7. (Named(change) \cup S) \in SUBSET Key /\ Stocked \subseteq (Named(change) \cup S)
    BY <2>5 DEF Named
  <2>8. touched' \in [Run -> SUBSET Key]
    BY <2>1 DEF Touch, Named
  <2>9. pc' \in [Request -> {"new", "checked", "summed", "repair", "done", "error", "crashed"}]
    BY <1>1 DEF ApiPost, Finish, Request
  <2> QED BY <1>1, <2>3, <2>6, <2>7, <2>8, <2>9 DEF ApiPost, snapshots
<1>2. ASSUME NEW w \in Web, WebCheck(w) PROVE TypeOK'
  BY <1>2, ChangesTyped DEF WebCheck, Finish, Request, snapshots
<1>3. ASSUME NEW w \in Web, WebPost(w) PROVE TypeOK'
  <2>1. ledger' \in Change
    BY <1>3 DEF WebPost, Add, Change
  <2>2. touched' \in [Run -> SUBSET Key]
    BY <1>3 DEF WebPost, Touch, Named
  <2> QED BY <1>3, <2>1, <2>2 DEF WebPost, Finish, Request, snapshots
<1>4. ASSUME NEW r \in Run, Reconcile(r) PROVE TypeOK'
  <2>1. CASE ReadLedger(r)
    BY <2>1 DEF ReadLedger, LedgerTotals, Finish, Request
  <2>2. CASE ReadBalances(r)
    BY <2>2 DEF ReadBalances, Finish, Request
  <2>3. CASE Repair(r)
    <3>1. PICK k \in todo[r] \cap rows[r] :
            /\ balance' = [balance EXCEPT ![k] = Overwritten(@, sums[r][k])]
            /\ todo' = [todo EXCEPT ![r] = @ \ {k}]
            /\ Touch({k}, r)
      BY <2>3 DEF Repair
    <3>2. k \in Key
      BY <3>1
    <3>3. \A b \in Row : Overwritten(b, sums[r][k]) \in Row
      BY <3>2 DEF Overwritten, Row, Change
    <3>4. \A S \in SUBSET Key : balance \in [S -> Row] => balance' \in [S -> Row]
      BY <3>1, <3>3
    <3>5. touched' \in [Run -> SUBSET Key]
      BY <3>1, <3>2 DEF Touch
    <3> QED BY <2>3, <3>1, <3>4, <3>5 DEF Repair
  <2>4. CASE RepairMissingRow(r)
    BY <2>4 DEF RepairMissingRow, Finish, Request, snapshots
  <2>5. CASE Record(r)
    BY <2>5 DEF Record, Finish, Request, snapshots
  <2> QED BY <1>4, <2>1, <2>2, <2>3, <2>4, <2>5 DEF Reconcile
<1>5. ASSUME NEW r \in Run, Crash(r) PROVE TypeOK'
  BY <1>5 DEF Crash, Finish, Request, snapshots
<1>6. CASE UNCHANGED vars
  BY <1>6 DEF vars, snapshots
<1> QED BY <1>1, <1>2, <1>3, <1>4, <1>5, <1>6 DEF Next

(* Every reachable state is well typed.                                    *)
THEOREM TypeCorrect == Spec => []TypeOK
<1> QED BY TypeInit, TypeStep, PTL DEF Spec

-----------------------------------------------------------------------------
LEMMA RunInit == Init => RunInv
<1> SUFFICES ASSUME Init, NEW r \in Run
             PROVE  SumsCurrent(r) /\ RowsKnown(r) /\ Settled(r)
  BY DEF RunInv
<1>1. pc[r] = "new" /\ rows[r] = {}
  BY DEF Init, Request
<1> QED BY <1>1 DEF SumsCurrent, RowsKnown, Settled

(* A step that writes only tuples it tells every other run of, and takes   *)
(* no row away, keeps the invariant of a run that does not take a step.    *)
LEMMA OthersKept ==
  ASSUME TypeOK, RunInv, NEW r \in Run, NEW S \in SUBSET Key,
         touched'[r] = touched[r] \cup S,
         DOMAIN balance \subseteq DOMAIN balance',
         \A k \in Key \ S : ledger'[k] = ledger[k],
         \A k \in DOMAIN balance \ S : balance'[k] = balance[k],
         pc'[r] = pc[r], sums'[r] = sums[r], rows'[r] = rows[r], todo'[r] = todo[r]
  PROVE  SumsCurrent(r)' /\ RowsKnown(r)' /\ Settled(r)'
BY DEF RunInv, SumsCurrent, RowsKnown, Settled, TypeOK

(* A step that writes nothing but the phase of a request.                  *)
LEMMA PhaseKept ==
  ASSUME TypeOK, RunInv, UNCHANGED <<balance, ledger, sums, rows, todo, touched>>,
         \A r \in Run : pc'[r] \in {"new", "summed"} => pc'[r] = pc[r],
         \A r \in Run : pc[r] = "new" => pc'[r] = "new"
  PROVE  RunInv'
BY DEF RunInv, SumsCurrent, RowsKnown, Settled, TypeOK

LEMMA RunStep == TypeOK /\ RunInv /\ [Next]_vars => RunInv'
<1> SUFFICES ASSUME TypeOK, RunInv, [Next]_vars PROVE RunInv'
  OBVIOUS
<1>1. ASSUME NEW a \in Api, ApiPost(a) PROVE RunInv'
  <2>1. PICK change \in Changes, kind \in {"movement", "sale", "stocktake"} :
          /\ Add(change)
          /\ balance' = [k \in DOMAIN balance \cup Named(change) |->
                           IF k \in Named(change)
                           THEN Adjusted(RowOf(k), change[k],
                                         IF kind = "sale" THEN -change[k] ELSE 0)
                           ELSE balance[k]]
          /\ Touch(Named(change), a)
    BY <1>1 DEF ApiPost
  <2>2. \A k \in Key \ Named(change) : ledger'[k] = ledger[k]
    BY <2>1, ChangesTyped DEF Add, Named, Change, TypeOK
  <2>3. ASSUME NEW r \in Run PROVE SumsCurrent(r)' /\ RowsKnown(r)' /\ Settled(r)'
    <3>1. r # a
      BY RequestAssumption
    <3>2. touched'[r] = touched[r] \cup Named(change) /\ Named(change) \in SUBSET Key
      BY <2>1, <3>1 DEF Touch, Named
    <3>3. pc'[r] = pc[r] /\ sums'[r] = sums[r] /\ rows'[r] = rows[r] /\ todo'[r] = todo[r]
      BY <1>1, <3>1 DEF ApiPost, Finish, snapshots, TypeOK, Request
    <3> QED BY <2>1, <2>2, <3>2, <3>3, OthersKept
  <2> QED BY <2>3 DEF RunInv
<1>2. ASSUME NEW w \in Web, WebCheck(w) PROVE RunInv'
  BY <1>2, RequestAssumption, PhaseKept DEF WebCheck, Finish, snapshots, TypeOK, Request
<1>3. ASSUME NEW w \in Web, WebPost(w) PROVE RunInv'
  <2>1. \A k \in Key \ Named(posting[w]) : ledger'[k] = ledger[k]
    BY <1>3 DEF WebPost, Add, Named, Change, TypeOK
  <2>2. ASSUME NEW r \in Run PROVE SumsCurrent(r)' /\ RowsKnown(r)' /\ Settled(r)'
    <3>1. r # w
      BY RequestAssumption
    <3>2. /\ touched'[r] = touched[r] \cup Named(posting[w])
          /\ Named(posting[w]) \in SUBSET Key
      BY <1>3, <3>1 DEF WebPost, Touch, Named
    <3>3. /\ pc'[r] = pc[r] /\ sums'[r] = sums[r] /\ rows'[r] = rows[r] /\ todo'[r] = todo[r]
          /\ balance' = balance
      BY <1>3, <3>1 DEF WebPost, Finish, snapshots, TypeOK, Request
    <3> QED BY <2>1, <3>2, <3>3, OthersKept
  <2> QED BY <2>2 DEF RunInv
<1>4. ASSUME NEW r \in Run, ReadLedger(r) PROVE RunInv'
  <2>1. ASSUME NEW s \in Run PROVE SumsCurrent(s)' /\ RowsKnown(s)' /\ Settled(s)'
    <3>1. CASE s = r
      BY <1>4, <3>1 DEF ReadLedger, LedgerTotals, Finish, RunInv, SumsCurrent, RowsKnown,
                        Settled, TypeOK, Request
    <3>2. CASE s # r
      BY <1>4, <3>2 DEF ReadLedger, Finish, RunInv, SumsCurrent, RowsKnown, Settled,
                        TypeOK, Request
    <3> QED BY <3>1, <3>2
  <2> QED BY <2>1 DEF RunInv
<1>5. ASSUME NEW r \in Run, ReadBalances(r) PROVE RunInv'
  <2>1. ASSUME NEW s \in Run PROVE SumsCurrent(s)' /\ RowsKnown(s)' /\ Settled(s)'
    <3>1. CASE s = r
      <4>1. /\ rows'[r] = DOMAIN balance
            /\ todo'[r] = {k \in Key : sums[r][k] # OnHand(k)}
            /\ pc'[r] = "repair"
        BY <1>5 DEF ReadBalances, Finish, TypeOK, Request
      <4>2. \A k \in DOMAIN balance : k \in Key /\ OnHand(k) = balance[k].onHand
        BY DEF OnHand, RowOf, TypeOK
      <4>3. \A k \in Key \ touched[r] : sums[r][k] = ledger[k]
        BY <1>5 DEF RunInv, SumsCurrent, ReadBalances
      <4> QED BY <1>5, <3>1, <4>1, <4>2, <4>3
                 DEF ReadBalances, SumsCurrent, RowsKnown, Settled
    <3>2. CASE s # r
      BY <1>5, <3>2 DEF ReadBalances, Finish, RunInv, SumsCurrent, RowsKnown, Settled,
                        TypeOK, Request
    <3> QED BY <3>1, <3>2
  <2> QED BY <2>1 DEF RunInv
<1>6. ASSUME NEW r \in Run, Repair(r) PROVE RunInv'
  <2>1. PICK k \in todo[r] \cap rows[r] :
          /\ balance' = [balance EXCEPT ![k] = Overwritten(@, sums[r][k])]
          /\ todo' = [todo EXCEPT ![r] = @ \ {k}]
          /\ Touch({k}, r)
    BY <1>6 DEF Repair
  <2>2. k \in Key /\ k \in DOMAIN balance /\ DOMAIN balance' = DOMAIN balance
    BY <2>1 DEF RunInv, RowsKnown, TypeOK
  <2>3. ASSUME NEW s \in Run PROVE SumsCurrent(s)' /\ RowsKnown(s)' /\ Settled(s)'
    <3>1. CASE s = r
      <4>1. touched'[r] = touched[r] /\ todo'[r] = todo[r] \ {k}
        BY <2>1 DEF Touch, TypeOK
      <4>2. balance'[k].onHand = sums[r][k]
        BY <2>1, <2>2 DEF Overwritten
      <4>3. k \notin touched[r] => sums[r][k] = ledger[k]
        BY <1>6, <2>2 DEF Repair, RunInv, SumsCurrent
      <4>4. \A j \in DOMAIN balance \ {k} : balance'[j] = balance[j]
        BY <2>1
      <4> QED BY <1>6, <2>2, <3>1, <4>1, <4>2, <4>3, <4>4
                 DEF Repair, RunInv, SumsCurrent, RowsKnown, Settled
    <3>2. CASE s # r
      <4>1. touched'[s] = touched[s] \cup {k} /\ {k} \in SUBSET Key
        BY <2>1, <2>2, <3>2 DEF Touch
      <4>2. /\ pc'[s] = pc[s] /\ sums'[s] = sums[s] /\ rows'[s] = rows[s]
            /\ todo'[s] = todo[s] /\ ledger' = ledger
        BY <1>6, <2>1, <3>2 DEF Repair, TypeOK
      <4>3. \A j \in DOMAIN balance \ {k} : balance'[j] = balance[j]
        BY <2>1
      <4> QED BY <2>2, <4>1, <4>2, <4>3, OthersKept
    <3> QED BY <3>1, <3>2
  <2> QED BY <2>3 DEF RunInv
<1>7. ASSUME NEW r \in Run, RepairMissingRow(r) PROVE RunInv'
  BY <1>7, PhaseKept DEF RepairMissingRow, Finish, snapshots, TypeOK, Request
<1>8. ASSUME NEW r \in Run, Record(r) PROVE RunInv'
  BY <1>8, PhaseKept DEF Record, Finish, snapshots, TypeOK, Request
<1>9. ASSUME NEW r \in Run, Crash(r) PROVE RunInv'
  BY <1>9, PhaseKept DEF Crash, Finish, snapshots, TypeOK, Request
<1>10. CASE UNCHANGED vars
  BY <1>10 DEF vars, snapshots, RunInv, SumsCurrent, RowsKnown, Settled
<1> QED BY <1>1, <1>2, <1>3, <1>4, <1>5, <1>6, <1>7, <1>8, <1>9, <1>10 DEF Next, Reconcile

(* A row that a reconciliation has found equal or has repaired agrees with *)
(* the ledger unless somebody else wrote its tuple since, however many     *)
(* postings and reconciliations interleave.                                *)
THEOREM SettledCorrect == Spec => []SettledRowsAgree
<1>1. RunInv => SettledRowsAgree
  BY DEF RunInv, Settled, SettledRowsAgree
<1> QED BY <1>1, RunInit, RunStep, TypeCorrect, PTL DEF Spec

-----------------------------------------------------------------------------
LEMMA AvailableInit == Init => AvailableExcludesReserved
BY StockAssumption DEF Init, AvailableExcludesReserved

LEMMA AvailableStep ==
  TypeOK /\ AvailableExcludesReserved /\ [Next]_vars => AvailableExcludesReserved'
<1> SUFFICES ASSUME TypeOK, AvailableExcludesReserved, [Next]_vars
             PROVE  AvailableExcludesReserved'
  OBVIOUS
<1> USE DEF AvailableExcludesReserved
<1>1. ASSUME NEW a \in Api, ApiPost(a) PROVE AvailableExcludesReserved'
  BY <1>1 DEF ApiPost, Adjusted
<1>2. ASSUME NEW r \in Run, Repair(r) PROVE AvailableExcludesReserved'
  BY <1>2 DEF Repair, Overwritten
<1>3. CASE UNCHANGED balance
  BY <1>3
<1> QED BY <1>1, <1>2, <1>3 DEF Next, Reconcile, WebCheck, WebPost, ReadLedger, ReadBalances,
                                RepairMissingRow, Record, Crash, vars

(* Neither postings nor repairs lose a reservation: what a row offers is   *)
(* what is on hand and not reserved.                                       *)
THEOREM AvailableCorrect == Spec => []AvailableExcludesReserved
<1> QED BY AvailableInit, AvailableStep, TypeCorrect, PTL DEF Spec

-----------------------------------------------------------------------------
(* The jobs of a marketplace.                                              *)
Entry == [listing : Listed, product : Products, there : Int, here : Int]
Adjustment == [listing : Listed, product : Products, change : Int]

Plans == Seq(Seq(Entry \cup [ticket : Nat]))
ToApply == Seq(Adjustment)
Held == [Products -> Int] \cup {<<>>}

(* A job that has begun.  What it still sends are entries, the tickets it  *)
(* asks for, or nothing in particular.                                     *)
Begun ==
  [stage : {"ask", "token", "try", "apply", "end"},
   op : {"push", "pull", "resolve", "reconcile", "orders", "poll"},
   call : {"set", "upload", "none", "products", "orders", "ticket"},
   plan : Plans, adj : ToApply, tries : Nat,
   stock : Held,
   resolution : {"stockops_wins", "shop_wins"},
   settled : SUBSET Listed, noted : SUBSET Adjustment,
   stirred : SUBSET Listed, declined : SUBSET Listed]

Upload ==
  [items : Seq(Entry), status : {"PROCESSING", "DONE", "FAILED"},
   told : {"PENDING", "UNSAVED", "SUCCESS", "FAILED"}, stirred : SUBSET Listed]

(* What is in hand fits the call and the marketplace; the tickets asked    *)
(* for are among the first "count"; and who still sends, or has noted what *)
(* it left upstream, adjusts nothing.                                      *)
Fits(job, at, count) ==
  /\ job.noted # {} => job.plan = <<>> /\ job.adj = <<>>
  /\ job.stage \in {"ask", "token", "try"} => job.plan # <<>>
  /\ job.plan # <<>> => job.adj = <<>>
  /\ job.call \in {"set", "upload"} => job.plan \in Seq(Seq(Entry))
  /\ job.call = "set" => at # "hepsiburada"
  /\ job.call = "upload" => at = "hepsiburada"
  /\ job.call = "products" =>
       /\ job.plan # <<>> /\ job.stock \in [Products -> Int]
       /\ at \in {"shopify", "woocommerce"}
  /\ job.call = "ticket" =>
       /\ at = "hepsiburada"
       /\ \A n \in DOMAIN job.plan : job.plan[n] # <<>> /\ job.plan[n][1].ticket \in 1 .. count

MarketTyped ==
  /\ shop \in Shops
  /\ stock \in [Products -> Int] /\ listed \in [Listed -> Int]
  /\ jobs \in [Jobs -> {Idle} \cup Begun]
  /\ \A j \in Jobs : jobs[j] # Idle => Fits(jobs[j], shop, Len(tickets))
  /\ tickets \in Seq(Upload)

(* What a job or an upload goes by, when the listings are as "seen" and    *)
(* the stock is as "held", is so of the listings nobody else disturbed.    *)
Sends(e, stirred, held) ==
  /\ e.product = Of(e.listing)
  /\ e.listing \notin stirred => e.here = held[e.product]

Adjusts(a, stirred, seen, held) ==
  /\ a.product = Of(a.listing)
  /\ a.listing \notin stirred => held[a.product] + a.change = seen[a.listing]

Current(job, seen, held) ==
  /\ job.call \in {"set", "upload"} =>
       \A n \in DOMAIN job.plan : \A m \in DOMAIN job.plan[n] :
         Sends(job.plan[n][m], job.stirred, held)
  /\ \A n, m \in DOMAIN job.adj : job.adj[n].listing = job.adj[m].listing => n = m
  /\ job.stage = "apply" => \A n \in DOMAIN job.adj : Adjusts(job.adj[n], job.stirred, seen, held)
  /\ \A i \in job.settled :
       /\ Of(i) # None
       /\ i \notin job.stirred \cup job.declined /\ (job.adj = <<>> \/ Alone(i)) =>
            seen[i] = held[Of(i)]
  /\ \A a \in job.noted : Adjusts(a, job.stirred, seen, held)
  /\ job.call = "products" =>
       \A i \in Listed \ job.stirred : Of(i) # None => job.stock[Of(i)] = held[Of(i)]

CarriedOut(t, seen, held) ==
  /\ \A n \in DOMAIN t.items :
       /\ Sends(t.items[n], t.stirred, held)
       /\ t.status = "DONE" /\ t.items[n].listing \notin t.stirred =>
            seen[t.items[n].listing] = t.items[n].here
  /\ t.told = "SUCCESS" => t.status = "DONE"

MarketInv ==
  /\ \A j \in Jobs : jobs[j] # Idle => Current(jobs[j], listed, stock)
  /\ \A t \in DOMAIN tickets : CarriedOut(tickets[t], listed, stock)

(* What the breaker says of the last requests: how many failed in a row,   *)
(* and whether the reset time has passed when that is too many.            *)
Requests == {"done", "failed"}
Breaker == [state : {"CLOSED", "OPEN", "HALF_OPEN"}, failures : Nat, cooled : BOOLEAN]

InARow(ends, k) == \A n \in DOMAIN ends : n > Len(ends) - k => ends[n] = "failed"

Remembers(b, ends, rested) ==
  /\ Len(ends) <= Threshold
  /\ IF b.failures >= Threshold
     THEN /\ Len(ends) = Threshold /\ InARow(ends, Threshold)
          /\ b.state # "CLOSED"
          /\ b.state = "OPEN" => (b.cooled <=> rested)
          /\ b.state = "HALF_OPEN" => rested
     ELSE /\ b.state = "CLOSED"
          /\ b.failures <= Len(ends) /\ InARow(ends, b.failures)
          /\ b.failures < Len(ends) => ends[Len(ends) - b.failures] = "done"

BreakerInv ==
  /\ breaker \in Breaker /\ recent \in Seq(Requests) /\ waited \in BOOLEAN /\ news \in Nat
  /\ Remembers(breaker, recent, waited)

(***************************************************************************)
(* Places of a list in ascending order.                                    *)
(***************************************************************************)
LEMMA InOrderLists ==
  ASSUME NEW S, IsFiniteSet(S), S \subseteq Nat
  PROVE  /\ Cardinality(S) \in Nat /\ DOMAIN InOrder(S) = 1 .. Cardinality(S)
         /\ InOrder(S) \in Seq(S)
         /\ \A n, m \in 1 .. Cardinality(S) : InOrder(S)[n] = InOrder(S)[m] => n = m
<1>1. /\ Cardinality(S) \in Nat /\ InOrder(S) \in [1 .. Cardinality(S) -> S]
      /\ \A n, m \in 1 .. Cardinality(S) : InOrder(S)[n] = InOrder(S)[m] => n = m
  BY Places DEF InOrder
<1> QED BY <1>1

LEMMA AtLists ==
  ASSUME NEW T, NEW list \in Seq(T), NEW places \in SUBSET (DOMAIN list)
  PROVE  /\ At(list, places) \in Seq(T)
         /\ \A n \in DOMAIN At(list, places) :
              /\ InOrder(places)[n] \in places
              /\ At(list, places)[n] = list[InOrder(places)[n]]
         /\ \A n, m \in DOMAIN At(list, places) :
              InOrder(places)[n] = InOrder(places)[m] => n = m
<1>1. IsFiniteSet(DOMAIN list) /\ DOMAIN list \subseteq Nat
  BY FS_Interval
<1>2. IsFiniteSet(places) /\ places \subseteq Nat
  BY <1>1, FS_Subset
<1>3. Cardinality(places) \in Nat /\ DOMAIN At(list, places) = 1 .. Cardinality(places)
  BY <1>2, InOrderLists DEF At
<1>4. \A n \in 1 .. Cardinality(places) : InOrder(places)[n] \in places
  BY <1>2, InOrderLists
<1>5. \A n \in DOMAIN At(list, places) :
        InOrder(places)[n] \in places /\ At(list, places)[n] = list[InOrder(places)[n]]
  BY <1>3, <1>4 DEF At
<1>6. At(list, places) \in Seq(T)
  <2>1. \A n \in 1 .. Cardinality(places) : At(list, places)[n] \in T
    BY <1>3, <1>5
  <2>2. At(list, places) \in [1 .. Cardinality(places) -> T]
    BY <1>3, <2>1 DEF At
  <2> QED BY <1>3, <2>2
<1>7. \A n, m \in DOMAIN At(list, places) : InOrder(places)[n] = InOrder(places)[m] => n = m
  BY <1>2, <1>3, InOrderLists
<1> QED BY <1>5, <1>6, <1>7

(***************************************************************************)
(* What the packages find to differ, and what they make of it.             *)
(***************************************************************************)
(* A lookup finds a product or nothing.                                    *)
LEMMA LookupKnown ==
  ASSUME NEW fields, NEW key
  PROVE  Lookup(fields, key) \in Products \cup {None}
<1> DEFINE S == {n \in DOMAIN Catalogue : \E f \in fields : Catalogue[n][f] = key}
<1>1. CASE key = None \/ S = {}
  BY <1>1 DEF Lookup
<1>2. CASE ~ (key = None \/ S = {})
  <2>1. IsFiniteSet(DOMAIN Catalogue) /\ DOMAIN Catalogue \subseteq Nat
    BY ShopAssumption, FS_Interval
  <2>2. S \in SUBSET DOMAIN Catalogue /\ S # {}
    BY <1>2
  <2>3. Lookup(fields, key) = Catalogue[Max(S)].id
    BY <1>2 DEF Lookup
  <2> HIDE DEF S
  <2>4. \E i \in S : \A k \in S : k <= i
    BY <2>1, <2>2, Greatest
  <2>5. \E i \in S : \A k \in S : i >= k
    BY <2>1, <2>2, <2>4
  <2>6. Max(S) \in S
    BY <2>5 DEF Max
  <2> QED BY <2>2, <2>3, <2>6 DEF Products
<1> QED BY <1>1, <1>2

LEMMA OfKnown ==
  /\ \A i : Of(i) \in Products \cup {None}
  /\ None \notin Products
<1>1. ASSUME NEW i PROVE Of(i) \in Products \cup {None}
  BY LookupKnown DEF Of
<1> QED BY <1>1, ShopAssumption

Differs(d, seen, known) ==
  /\ d \in Seq(Entry)
  /\ \A n \in DOMAIN d : /\ d[n].product = Of(d[n].listing)
                         /\ d[n].here = known[d[n].product]
                         /\ d[n].there = seen[d[n].listing]
  /\ \A n, m \in DOMAIN d : d[n].listing = d[m].listing => n = m

Finds(found) ==
  DOMAIN found \subseteq Listed /\ \A i \in DOMAIN found : found[i] \in {Of(i), None}

LEMMA EveryPackageFinds ==
  /\ shop = "shopify" =>
       Finds(ShopifyFound) /\ \A T : Finds(Restrict(ShopifyFound, Listed \cap T))
  /\ shop = "woocommerce" => Finds(WooFound)
  /\ shop = "trendyol" => Finds(TrendyolFound)
  /\ shop = "hepsiburada" => Finds(HBFound)
  /\ shop = "pazarama" => Finds(PazaramaFound)
<1>1. ASSUME shop = "shopify"
      PROVE  Finds(ShopifyFound) /\ \A T : Finds(Restrict(ShopifyFound, Listed \cap T))
  BY <1>1 DEF Finds, ShopifyFound, Restrict, Of
<1>2. ASSUME shop = "woocommerce" PROVE Finds(WooFound)
  BY <1>2 DEF Finds, WooFound, WooManaged, Of
<1>3. ASSUME shop = "trendyol" PROVE Finds(TrendyolFound)
  BY <1>3 DEF Finds, TrendyolFound, Of
<1>4. ASSUME shop = "hepsiburada" PROVE Finds(HBFound)
  BY <1>4 DEF Finds, HBFound, Of
<1>5. ASSUME shop = "pazarama" PROVE Finds(PazaramaFound)
  BY <1>5 DEF Finds, PazaramaFound, Of
<1> QED BY <1>1, <1>2, <1>3, <1>4, <1>5

LEMMA DifferingDiffers ==
  ASSUME NEW found, Finds(found), NEW seen \in [Listed -> Int], NEW known \in [Products -> Int]
  PROVE  /\ Differs(Differing(found, seen, known), seen, known)
         /\ \A n \in DOMAIN Differing(found, seen, known) :
              LET e == Differing(found, seen, known)[n] IN
              e.listing \in DOMAIN found /\ e.product = found[e.listing]
<1> DEFINE S == {i \in DOMAIN found : found[i] # None /\ seen[i] # known[found[i]]}
           d == Differing(found, seen, known)
<1>1. IsFiniteSet(S) /\ S \subseteq Nat /\ S \subseteq Listed
  BY ShopAssumption, FS_Subset DEF Finds
<1>2. \A i \in S : found[i] = Of(i) /\ found[i] \in Products
  BY OfKnown DEF Finds
<1> DEFINE o == InOrder(S)
<1>3. /\ Cardinality(S) \in Nat /\ o \in Seq(S) /\ DOMAIN o = 1 .. Cardinality(S)
      /\ \A n, m \in 1 .. Cardinality(S) : o[n] = o[m] => n = m
  <2> HIDE DEF S
  <2> QED BY <1>1, InOrderLists
<1>4. d = [n \in DOMAIN o |-> [listing |-> o[n], product |-> found[o[n]],
                               there |-> seen[o[n]], here |-> known[found[o[n]]]]]
  BY DEF Differing
<1>5. \A n \in DOMAIN o : o[n] \in S
  <2> HIDE DEF S, o
  <2> QED BY <1>3
<1> HIDE DEF S, o, d
<1>6. \A n \in DOMAIN o :
        /\ d[n] = [listing |-> o[n], product |-> found[o[n]],
                   there |-> seen[o[n]], here |-> known[found[o[n]]]]
        /\ d[n] \in Entry
  BY <1>1, <1>2, <1>4, <1>5 DEF Entry
<1>7. d \in Seq(Entry)
  <2>1. d \in [1 .. Cardinality(S) -> Entry]
    BY <1>3, <1>4, <1>6
  <2> QED BY <1>3, <2>1
<1>8. DOMAIN d = DOMAIN o
  BY <1>4
<1>9. \A n \in DOMAIN d : /\ d[n].product = Of(d[n].listing)
                          /\ d[n].here = known[d[n].product]
                          /\ d[n].there = seen[d[n].listing]
  BY <1>2, <1>5, <1>6, <1>8
<1>10. \A n, m \in DOMAIN d : d[n].listing = d[m].listing => n = m
  BY <1>3, <1>6, <1>8
<1>11. \A n \in DOMAIN d : d[n].listing \in DOMAIN found /\ d[n].product = found[d[n].listing]
  <2>1. \A n \in DOMAIN o : o[n] \in DOMAIN found
    BY <1>5 DEF S
  <2> QED BY <1>6, <1>8, <2>1
<1> QED BY <1>7, <1>9, <1>10, <1>11 DEF Differs, d

LEMMA AtDiffers ==
  ASSUME NEW d, NEW seen, NEW known, Differs(d, seen, known), NEW places \in SUBSET (DOMAIN d)
  PROVE  Differs(At(d, places), seen, known)
<1> DEFINE a == At(d, places)
<1>1. d \in Seq(Entry)
  BY DEF Differs
<1>2. /\ a \in Seq(Entry)
      /\ \A n \in DOMAIN a : InOrder(places)[n] \in places /\ a[n] = d[InOrder(places)[n]]
      /\ \A n, m \in DOMAIN a : InOrder(places)[n] = InOrder(places)[m] => n = m
  BY <1>1, AtLists
<1> HIDE DEF a
<1>3. \A n \in DOMAIN a : /\ a[n].product = Of(a[n].listing)
                          /\ a[n].here = known[a[n].product]
                          /\ a[n].there = seen[a[n].listing]
  BY <1>2 DEF Differs
<1>4. \A n, m \in DOMAIN a : a[n].listing = a[m].listing => n = m
  BY <1>2 DEF Differs
<1> QED BY <1>2, <1>3, <1>4 DEF Differs, a

(* Entries that know the stock, and batches of them.                       *)
Knows(d, known) ==
  /\ d \in Seq(Entry)
  /\ \A n \in DOMAIN d : d[n].product = Of(d[n].listing) /\ d[n].here = known[d[n].product]

Batched(plan, known) ==
  /\ plan \in Seq(Seq(Entry))
  /\ \A n \in DOMAIN plan : \A m \in DOMAIN plan[n] :
       /\ plan[n][m].product = Of(plan[n][m].listing)
       /\ plan[n][m].here = known[plan[n][m].product]

LEMMA SinglyBatched ==
  ASSUME NEW known, NEW d, Knows(d, known)
  PROVE  Batched(Singly(d), known)
<1>1. d \in Seq(Entry) /\ Len(d) \in Nat /\ DOMAIN d = 1 .. Len(d)
  BY DEF Knows
<1>2. DOMAIN Singly(d) = 1 .. Len(d) /\ \A n \in DOMAIN d : Singly(d)[n] = <<d[n]>>
  BY <1>1 DEF Singly
<1>3. \A n \in DOMAIN d : d[n] \in Entry
  BY <1>1
<1>4. \A n \in 1 .. Len(d) : Singly(d)[n] \in Seq(Entry)
  <2>1. \A e \in Entry : <<e>> \in Seq(Entry)
    OBVIOUS
  <2> QED BY <1>1, <1>2, <1>3, <2>1
<1>5. Singly(d) \in Seq(Seq(Entry))
  <2>1. Singly(d) \in [1 .. Len(d) -> Seq(Entry)]
    BY <1>1, <1>4 DEF Singly
  <2> QED BY <1>1, <2>1
<1>6. ASSUME NEW n \in DOMAIN Singly(d), NEW m \in DOMAIN Singly(d)[n]
      PROVE  Singly(d)[n][m] = d[n] /\ n \in DOMAIN d
  BY <1>1, <1>2, <1>6
<1> QED BY <1>5, <1>6 DEF Batched, Knows

LEMMA BatchesOf ==
  ASSUME NEW seen, NEW known, NEW d, Differs(d, seen, known)
  PROVE  /\ Batched(<<>>, known)
         /\ Batched(Singly(d), known)
         /\ Batched(<<d>>, known)
         /\ \A size \in Nat \ {0} : Batched(InBatches(d, size), known)
<1>1. d \in Seq(Entry) /\ Len(d) \in Nat /\ DOMAIN d = 1 .. Len(d)
  BY DEF Differs
<1>2. Batched(<<>>, known)
  BY DEF Batched
<1>3. Batched(Singly(d), known)
  BY SinglyBatched DEF Differs, Knows
<1>4. Batched(<<d>>, known)
  <2>1. <<d>> \in Seq(Seq(Entry)) /\ DOMAIN <<d>> = {1} /\ <<d>>[1] = d
    BY <1>1
  <2> QED BY <2>1 DEF Batched, Differs
<1>5. ASSUME NEW size \in Nat \ {0} PROVE Batched(InBatches(d, size), known)
  <2> DEFINE k == (Len(d) + size - 1) \div size
             b == InBatches(d, size)
             first(n) == (n - 1) * size + 1
             last(n) == IF n * size < Len(d) THEN n * size ELSE Len(d)
  <2>1. k \in Nat
    BY <1>1
  <2>2. DOMAIN b = 1 .. k /\ \A n \in 1 .. k : b[n] = SubSeq(d, first(n), last(n))
    BY DEF InBatches
  <2>3. ASSUME NEW n \in 1 .. k PROVE first(n) \in Nat \ {0} /\ last(n) \in Nat /\ last(n) <= Len(d)
    <3>1. (n - 1) * size \in Nat /\ n * size \in Nat
      BY <2>1
    <3> QED BY <1>1, <3>1
  <2>4. ASSUME NEW n \in 1 .. k
        PROVE  /\ b[n] \in Seq(Entry)
               /\ \A m \in DOMAIN b[n] : \E x \in DOMAIN d : b[n][m] = d[x]
    <3> HIDE DEF first, last, b, k
    <3>1. /\ first(n) \in Nat \ {0} /\ last(n) \in Nat /\ last(n) <= Len(d)
          /\ b[n] = SubSeq(d, first(n), last(n))
      BY <2>2, <2>3
    <3>2. PICK f \in Nat \ {0}, l \in Nat : f = first(n) /\ l = last(n)
      BY <3>1
    <3>3. DOMAIN SubSeq(d, f, l) = 1 .. (l - f + 1)
          /\ \A m \in 1 .. (l - f + 1) : SubSeq(d, f, l)[m] = d[f + m - 1]
      BY <1>1
    <3>4. \A m \in 1 .. (l - f + 1) : f + m - 1 \in 1 .. Len(d)
      <4>1. l <= Len(d)
        BY <3>1, <3>2
      <4>2. PICK z \in Nat : z = Len(d)
        BY <1>1
      <4>3. \A m \in 1 .. (l - f + 1) : f + m - 1 \in 1 .. z
        BY <4>1, <4>2
      <4> QED BY <4>2, <4>3
    <3>5. SubSeq(d, f, l) \in Seq(Entry)
      BY <1>1, <3>1, <3>2
    <3> QED BY <1>1, <3>1, <3>2, <3>3, <3>4, <3>5
  <2> HIDE DEF b, k
  <2>5. b \in Seq(Seq(Entry))
    <3>1. b \in [1 .. k -> Seq(Entry)]
      BY <2>2, <2>4 DEF b, InBatches, k
    <3> QED BY <2>1, <3>1
  <2>6. \A n \in DOMAIN b : \A m \in DOMAIN b[n] : /\ b[n][m].product = Of(b[n][m].listing)
                                                   /\ b[n][m].here = known[b[n][m].product]
    BY <2>2, <2>4 DEF Differs
  <2> QED BY <2>5, <2>6 DEF Batched, b
<1> QED BY <1>2, <1>3, <1>4, <1>5

LEMMA AdjustmentsAdjust ==
  ASSUME NEW d, NEW known \in [Products -> Int], listed \in [Listed -> Int], Differs(d, listed, known)
  PROVE  /\ Adjustments(d) \in Seq(Adjustment)
         /\ \A n \in DOMAIN Adjustments(d) : Adjusts(Adjustments(d)[n], {}, listed, known)
         /\ \A n, m \in DOMAIN Adjustments(d) :
              Adjustments(d)[n].listing = Adjustments(d)[m].listing => n = m
<1> DEFINE a == Adjustments(d)
<1>1. /\ d \in Seq(Entry) /\ Len(d) \in Nat /\ DOMAIN d = 1 .. Len(d)
      /\ \A n \in DOMAIN d : d[n] \in Entry
  BY DEF Differs
<1>2. /\ DOMAIN a = DOMAIN d
      /\ \A n \in DOMAIN d : a[n] = [listing |-> d[n].listing, product |-> d[n].product,
                                     change |-> d[n].there - d[n].here]
  BY DEF Adjustments
<1>3. \A n \in DOMAIN d : a[n] \in Adjustment /\ Adjusts(a[n], {}, listed, known)
  <2> TAKE n \in DOMAIN d
  <2>1. d[n] \in Entry
    BY <1>1
  <2>2. a[n] \in Adjustment
    BY <1>2, <2>1 DEF Entry, Adjustment
  <2>3. /\ d[n].product = Of(d[n].listing) /\ d[n].here = known[d[n].product]
        /\ d[n].there = listed[d[n].listing]
    BY DEF Differs
  <2>4. known[d[n].product] \in Int /\ listed[d[n].listing] \in Int
    BY <2>1 DEF Entry
  <2>5. known[d[n].product] + (d[n].there - d[n].here) = listed[d[n].listing]
    BY <2>3, <2>4
  <2> QED BY <1>2, <2>2, <2>3, <2>5 DEF Adjusts
<1>4. a \in Seq(Adjustment)
  <2>1. a \in [1 .. Len(d) -> Adjustment]
    BY <1>1, <1>2, <1>3 DEF Adjustments
  <2> QED BY <1>1, <2>1
<1>5. \A n, m \in DOMAIN a : a[n].listing = a[m].listing => n = m
  BY <1>2 DEF Differs
<1> QED BY <1>2, <1>3, <1>4, <1>5

(***************************************************************************)
(* What a job begins with.                                                 *)
(***************************************************************************)
Adjusting(adj) ==
  /\ adj \in Seq(Adjustment)
  /\ \A n \in DOMAIN adj : Adjusts(adj[n], {}, listed, stock)
  /\ \A n, m \in DOMAIN adj : adj[n].listing = adj[m].listing => n = m

LEMMA PushBatched ==
  ASSUME MarketTyped, NEW size \in Sizes
  PROVE  Batched(PushPlan(size), stock)
<1>1. /\ shop \in {"shopify", "woocommerce", "trendyol", "hepsiburada", "pazarama"}
      /\ stock \in [Products -> Int] /\ listed \in [Listed -> Int] /\ size \in Nat \ {0}
  BY ShopAssumption DEF MarketTyped
<1> DEFINE Items == {i \in Listed : Listings[i].item}
<1>2. Listed \cap Items = Items
  OBVIOUS
<1>3. ASSUME NEW found, Finds(found)
      PROVE  Differs(Differing(found, listed, stock), listed, stock)
  BY <1>1, <1>3, DifferingDiffers
<1>4. CASE shop = "shopify"
  <2>1. PushPlan(size) = ShopifyPush(listed, stock)
    BY <1>4 DEF PushPlan
  <2>2. ShopifyPush(listed, stock) = Singly(Differing(Restrict(ShopifyFound, Items), listed, stock))
    BY DEF ShopifyPush
  <2>3. Finds(Restrict(ShopifyFound, Items))
    BY <1>2, <1>4, EveryPackageFinds
  <2> HIDE DEF Items
  <2> QED BY <1>3, <2>1, <2>2, <2>3, BatchesOf
<1>5. CASE shop = "woocommerce"
  <2>1. PushPlan(size) = WooPush(listed, stock)
    BY <1>5 DEF PushPlan
  <2> QED BY <1>3, <1>5, <2>1, EveryPackageFinds, BatchesOf DEF WooPush
<1>6. CASE shop = "trendyol"
  <2>1. PushPlan(size) = TrendyolPush(listed, stock, size)
    BY <1>6 DEF PushPlan
  <2> QED BY <1>1, <1>3, <1>6, <2>1, EveryPackageFinds, BatchesOf DEF TrendyolPush
<1>7. CASE shop = "hepsiburada"
  <2>1. PushPlan(size) = HBPush(listed, stock)
    BY <1>7 DEF PushPlan
  <2> QED BY <1>3, <1>7, <2>1, EveryPackageFinds, BatchesOf DEF HBPush
<1>8. CASE shop = "pazarama"
  <2>1. PushPlan(size) = PazaramaPush(listed, stock, size)
    BY <1>8 DEF PushPlan
  <2> QED BY <1>1, <1>3, <1>8, <2>1, EveryPackageFinds, BatchesOf DEF PazaramaPush
<1> QED BY <1>1, <1>4, <1>5, <1>6, <1>7, <1>8

LEMMA PullAdjusts ==
  ASSUME MarketTyped
  PROVE  Adjusting(PullPlan) /\ Adjusting(<<>>)
<1>1. /\ shop \in {"shopify", "woocommerce", "trendyol", "hepsiburada", "pazarama"}
      /\ stock \in [Products -> Int] /\ listed \in [Listed -> Int]
  BY ShopAssumption DEF MarketTyped
<1>2. \A found : Finds(found) => Adjusting(Adjustments(Differing(found, listed, stock)))
  BY <1>1, DifferingDiffers, AdjustmentsAdjust DEF Adjusting
<1>8. Adjusting(<<>>)
  BY DEF Adjusting
<1>3. CASE shop = "shopify"
  <2>1. PullPlan = ShopifyPull(listed, stock)
    BY <1>3 DEF PullPlan
  <2> QED BY <1>2, <1>3, <1>8, <2>1, EveryPackageFinds DEF ShopifyPull
<1>4. CASE shop = "woocommerce"
  <2>1. PullPlan = WooPull(listed, stock)
    BY <1>4 DEF PullPlan
  <2> QED BY <1>2, <1>4, <1>8, <2>1, EveryPackageFinds DEF WooPull
<1>5. CASE shop = "trendyol"
  <2>1. PullPlan = TrendyolPull(listed, stock)
    BY <1>5 DEF PullPlan
  <2> QED BY <1>2, <1>5, <1>8, <2>1, EveryPackageFinds DEF TrendyolPull
<1>6. CASE shop = "hepsiburada"
  <2>1. PullPlan = HBPull(listed, stock)
    BY <1>6 DEF PullPlan
  <2> QED BY <1>2, <1>6, <1>8, <2>1, EveryPackageFinds DEF HBPull
<1>7. CASE shop = "pazarama"
  <2>1. PullPlan = PazaramaPull(listed, stock)
    BY <1>7 DEF PullPlan
  <2> QED BY <1>2, <1>7, <1>8, <2>1, EveryPackageFinds DEF PazaramaPull
<1> QED BY <1>1, <1>3, <1>4, <1>5, <1>6, <1>7, <1>8

(* The conflicts: all are pushed, or all are pulled. *)
LEMMA ConflictsSplit ==
  ASSUME MarketTyped, shop = "shopify", NEW resolution, NEW places,
         LET push == ShopifyConflicts(listed, stock, resolution).push
         IN  places \subseteq DOMAIN push
  PROVE  LET c == ShopifyConflicts(listed, stock, resolution)
         IN  /\ Batched(At(c.push, places), stock) /\ Adjusting(c.pull)
             /\ c.push # <<>> => c.pull = <<>>
             /\ c.push = <<>> => At(c.push, places) = <<>>
<1> DEFINE d == Differing(ShopifyFound, listed, stock)
           c == ShopifyConflicts(listed, stock, resolution)
<1>1. stock \in [Products -> Int] /\ listed \in [Listed -> Int]
  BY DEF MarketTyped
<1>2. Differs(d, listed, stock)
  BY <1>1, EveryPackageFinds, DifferingDiffers
<1>3. \/ c.push = <<>> /\ c.pull = Adjustments(d)
      \/ c.push = Singly(d) /\ c.pull = <<>>
  BY DEF ShopifyConflicts
<1>4. Adjusting(Adjustments(d)) /\ Adjusting(<<>>)
  BY <1>1, <1>2, AdjustmentsAdjust DEF Adjusting
<1>5. Batched(Singly(d), stock) /\ Batched(<<>>, stock)
  BY <1>2, BatchesOf
<1> HIDE DEF d, c
<1>6. Batched(c.push, stock) /\ places \subseteq DOMAIN c.push
  BY <1>3, <1>5 DEF c
<1>7. Batched(At(c.push, places), stock)
  <2> DEFINE p == c.push
  <2>1. p \in Seq(Seq(Entry)) /\ places \in SUBSET DOMAIN p
    BY <1>6 DEF Batched
  <2> HIDE DEF p
  <2>2. /\ At(p, places) \in Seq(Seq(Entry))
        /\ \A n \in DOMAIN At(p, places) :
             InOrder(places)[n] \in places /\ At(p, places)[n] = p[InOrder(places)[n]]
    BY <2>1, AtLists
  <2>3. Batched(p, stock)
    BY <1>6 DEF p
  <2>4. \A n \in DOMAIN At(p, places) : \E x \in DOMAIN p : At(p, places)[n] = p[x]
    BY <2>1, <2>2
  <2>5. Batched(At(p, places), stock)
    BY <2>2, <2>3, <2>4 DEF Batched
  <2> QED BY <2>5 DEF p
<1>8. c.push = <<>> => At(c.push, places) = <<>>
  <2> SUFFICES ASSUME c.push = <<>> PROVE At(c.push, places) = <<>>
    OBVIOUS
  <2>1. places = {}
    BY <1>6
  <2> QED BY <2>1, FS_EmptySet DEF At
<1> QED BY <1>3, <1>4, <1>7, <1>8 DEF c

(* The first listing with the sku of a listing found has the product too.  *)
BySku(d) ==
  \A n \in DOMAIN d : d[n].product = Lookup({"sku"}, Listings[d[n].listing].sku)

LEMMA FirstWithSku ==
  ASSUME NEW e \in Entry, e.product = Lookup({"sku"}, Listings[e.listing].sku),
         shop \in {"shopify", "woocommerce"}
  PROVE  LET r == [e EXCEPT !.listing = FirstLike(e)]
         IN  r \in Entry /\ r.product = Of(r.listing) /\ r.product = e.product /\ r.here = e.here
<1> DEFINE Same == {i \in Listed : Listings[i].sku = Listings[e.listing].sku}
           r == [e EXCEPT !.listing = FirstLike(e)]
<1>1. e.listing \in Same
  BY DEF Entry
<1>2. Same \in SUBSET Nat
  BY ShopAssumption
<1>3. FirstLike(e) = Min(Same)
  BY DEF FirstLike, ShopifyVariant, WooProduct
<1>4. Min(Same) \in Same
  <2> HIDE DEF Same
  <2>1. \E i \in Same : \A k \in Same : i <= k
    BY <1>1, <1>2, LeastNat
  <2> QED BY <2>1 DEF Min
<1>5. FirstLike(e) \in Listed /\ Listings[FirstLike(e)].sku = Listings[e.listing].sku
  BY <1>3, <1>4
<1>6. Of(FirstLike(e)) = e.product
  BY <1>5 DEF Of
<1>7. /\ r \in Entry /\ r.listing = FirstLike(e) /\ r.product = e.product /\ r.here = e.here
  BY <1>5 DEF Entry
<1> QED BY <1>6, <1>7

(* The small differences of one way, and when there are none of it.        *)
LEMMA SmallDiffers ==
  ASSUME MarketTyped, NEW job, job.stock \in [Products -> Int],
         shop \in {"shopify", "woocommerce"}, NEW way
  PROVE  /\ Differs(Small(job, way), listed, job.stock) /\ BySku(Small(job, way))
         /\ way = "send" /\ job.resolution = "shop_wins" => Small(job, way) = <<>>
         /\ way = "noted" /\ job.resolution # "shop_wins" => Small(job, way) = <<>>
<1> DEFINE ds == ShopifyDiscrepancies(listed, job.stock)
           dw == WooDiscrepancies(listed, job.stock)
<1>1. listed \in [Listed -> Int]
  BY DEF MarketTyped
<1>2. shop = "shopify" => Differs(ds, listed, job.stock) /\ BySku(ds)
  <2> SUFFICES ASSUME shop = "shopify" PROVE Differs(ds, listed, job.stock) /\ BySku(ds)
    OBVIOUS
  <2>1. Differs(ds, listed, job.stock)
    BY <1>1, EveryPackageFinds, DifferingDiffers DEF ShopifyDiscrepancies
  <2>2. \A n \in DOMAIN ds : ds[n].listing \in Listed /\ ds[n].product = ShopifyFound[ds[n].listing]
    BY <1>1, EveryPackageFinds, DifferingDiffers DEF ShopifyDiscrepancies, ShopifyFound
  <2> HIDE DEF ds
  <2> QED BY <2>1, <2>2 DEF BySku, ShopifyFound
<1>3. shop = "woocommerce" => Differs(dw, listed, job.stock) /\ BySku(dw)
  <2> SUFFICES ASSUME shop = "woocommerce" PROVE Differs(dw, listed, job.stock) /\ BySku(dw)
    OBVIOUS
  <2>1. Differs(dw, listed, job.stock)
    BY <1>1, EveryPackageFinds, DifferingDiffers DEF WooDiscrepancies
  <2>2. \A n \in DOMAIN dw : dw[n].listing \in WooManaged /\ dw[n].product = WooFound[dw[n].listing]
    BY <1>1, EveryPackageFinds, DifferingDiffers DEF WooDiscrepancies, WooFound
  <2> HIDE DEF dw
  <2> QED BY <2>1, <2>2 DEF BySku, WooFound
<1>4. ASSUME NEW d, Differs(d, listed, job.stock), BySku(d), NEW places \in SUBSET DOMAIN d
      PROVE  Differs(At(d, places), listed, job.stock) /\ BySku(At(d, places))
  <2>1. d \in Seq(Entry)
    BY <1>4 DEF Differs
  <2>2. \A n \in DOMAIN At(d, places) : \E x \in DOMAIN d : At(d, places)[n] = d[x]
    BY <2>1, AtLists
  <2> QED BY <1>4, <2>2, AtDiffers DEF BySku
<1>5. \A d : At(d, {}) = <<>>
  BY FS_EmptySet DEF At
<1> HIDE DEF ds, dw
<1>6. CASE shop = "shopify"
  <2> DEFINE small == ShopifyFixable(ds)
             places == {n \in DOMAIN small : ShopifyAutoFix(small[n], job.resolution) = way}
  <2>1. Differs(small, listed, job.stock) /\ BySku(small)
    BY <1>2, <1>4, <1>6 DEF ShopifyFixable
  <2>2. Small(job, way) = At(small, places)
    BY <1>6 DEF Small, small, ds
  <2>3. way = "send" /\ job.resolution = "shop_wins" => places = {}
    BY DEF ShopifyAutoFix
  <2>4. way = "noted" /\ job.resolution # "shop_wins" => places = {}
    BY DEF ShopifyAutoFix
  <2>5. places \in SUBSET DOMAIN small
    OBVIOUS
  <2> HIDE DEF small, places
  <2> QED BY <1>4, <1>5, <2>1, <2>2, <2>3, <2>4, <2>5
<1>7. CASE shop = "woocommerce"
  <2> DEFINE small == WooFixable(dw)
             places == {n \in DOMAIN small : WooAutoFix(small[n], job.resolution) = way}
  <2>1. Differs(small, listed, job.stock) /\ BySku(small)
    BY <1>3, <1>4, <1>7 DEF WooFixable
  <2>2. Small(job, way) = At(small, places)
    BY <1>7 DEF Small, small, dw
  <2>3. way = "send" /\ job.resolution = "shop_wins" => places = {}
    BY DEF WooAutoFix
  <2>4. way = "noted" /\ job.resolution # "shop_wins" => places = {}
    BY DEF WooAutoFix
  <2>5. places \in SUBSET DOMAIN small
    OBVIOUS
  <2> HIDE DEF small, places
  <2> QED BY <1>4, <1>5, <2>1, <2>2, <2>3, <2>4, <2>5
<1> QED BY <1>6, <1>7

LEMMA RepairsBatched ==
  ASSUME MarketTyped, NEW job, job.stock \in [Products -> Int],
         shop \in {"shopify", "woocommerce"}
  PROVE  /\ Batched(Repairs(job), job.stock)
         /\ LeftUpstream(job) \in SUBSET Adjustment
         /\ \A a \in LeftUpstream(job) : Adjusts(a, {}, listed, job.stock)
         /\ LeftUpstream(job) # {} => Repairs(job) = <<>>
<1> DEFINE sent == Small(job, "send")
           noted == Small(job, "noted")
           r == [n \in DOMAIN sent |-> [sent[n] EXCEPT !.listing = FirstLike(sent[n])]]
<1>1. /\ Differs(sent, listed, job.stock) /\ BySku(sent) /\ Differs(noted, listed, job.stock)
      /\ job.resolution = "shop_wins" => sent = <<>>
      /\ job.resolution # "shop_wins" => noted = <<>>
  BY SmallDiffers
<1>2. Repairs(job) = Singly(r)
  BY DEF Repairs
<1>3. LeftUpstream(job) = ToSet(Adjustments(noted))
  BY DEF LeftUpstream
<1>4. listed \in [Listed -> Int]
  BY DEF MarketTyped
<1> HIDE DEF noted
<1>5. sent \in Seq(Entry) /\ Len(sent) \in Nat /\ DOMAIN sent = 1 .. Len(sent)
  <2> HIDE DEF sent
  <2> QED BY <1>1 DEF Differs
<1>6. ASSUME NEW n \in DOMAIN sent
      PROVE  r[n] \in Entry /\ r[n].product = Of(r[n].listing) /\ r[n].here = job.stock[r[n].product]
  <2> HIDE DEF sent
  <2>1. PICK e \in Entry : e = sent[n]
    BY <1>5
  <2>2. /\ e.product = Lookup({"sku"}, Listings[e.listing].sku)
        /\ e.here = job.stock[e.product]
    BY <1>1, <2>1 DEF BySku, Differs
  <2>3. r[n] = [e EXCEPT !.listing = FirstLike(e)]
    BY <2>1
  <2> QED BY <2>2, <2>3, FirstWithSku
<1>7. Knows(r, job.stock)
  <2> HIDE DEF sent
  <2>1. r \in [1 .. Len(sent) -> Entry] /\ DOMAIN r = DOMAIN sent
    BY <1>5, <1>6
  <2> HIDE DEF r
  <2>2. r \in Seq(Entry)
    BY <1>5, <2>1
  <2> QED BY <1>6, <2>1, <2>2 DEF Knows
<1>8. Batched(Repairs(job), job.stock)
  <2> HIDE DEF r
  <2> QED BY <1>2, <1>7, SinglyBatched
<1>9. /\ Adjustments(noted) \in Seq(Adjustment)
      /\ \A n \in DOMAIN Adjustments(noted) : Adjusts(Adjustments(noted)[n], {}, listed, job.stock)
  BY <1>1, <1>4, AdjustmentsAdjust
<1>10. /\ LeftUpstream(job) \in SUBSET Adjustment
       /\ \A a \in LeftUpstream(job) : Adjusts(a, {}, listed, job.stock)
  <2>1. PICK adj \in Seq(Adjustment) : adj = Adjustments(noted)
    BY <1>9
  <2> QED BY <1>3, <1>9, <2>1 DEF ToSet
<1>11. LeftUpstream(job) # {} => Repairs(job) = <<>>
  <2>1. CASE job.resolution = "shop_wins"
    <3>1. sent = <<>> /\ DOMAIN sent = {}
      BY <1>1, <2>1
    <3>2. r = <<>>
      BY <3>1
    <3> HIDE DEF r
    <3> QED BY <1>2, <3>2 DEF Singly
  <2>2. CASE job.resolution # "shop_wins"
    <3>1. noted = <<>>
      BY <1>1, <2>2
    <3>2. Adjustments(noted) = <<>>
      BY <3>1 DEF Adjustments
    <3> QED BY <1>3, <3>2 DEF ToSet
  <2> QED BY <2>1, <2>2
<1> QED BY <1>8, <1>10, <1>11

(***************************************************************************)
(* Steps of others.                                                        *)
(***************************************************************************)
Kept(disturbed, seen, held, seenNext, heldNext) ==
  \A i \in Listed \ disturbed :
    seenNext[i] = seen[i] /\ (Of(i) # None => heldNext[Of(i)] = held[Of(i)])

Heard(x, disturbed) == [x EXCEPT !.stirred = @ \cup disturbed]

LEMMA KeptAlike ==
  ASSUME NEW disturbed, NEW seen, NEW held, NEW seenNext, NEW heldNext,
         Kept(disturbed, seen, held, seenNext, heldNext), NEW stirred
  PROVE  /\ \A e \in Entry : Sends(e, stirred, held) => Sends(e, stirred \cup disturbed, heldNext)
         /\ \A a \in Adjustment : Adjusts(a, stirred, seen, held)
                                    => Adjusts(a, stirred \cup disturbed, seenNext, heldNext)
<1>1. \A e \in Entry : e.listing \in Listed /\ e.product # None
  BY OfKnown DEF Entry
<1>2. \A a \in Adjustment : a.listing \in Listed /\ a.product # None
  BY OfKnown DEF Adjustment
<1> QED BY <1>1, <1>2 DEF Kept, Sends, Adjusts

LEMMA StirredCurrent ==
  ASSUME NEW disturbed \in SUBSET Listed, NEW seen, NEW held, NEW seenNext, NEW heldNext,
         Kept(disturbed, seen, held, seenNext, heldNext),
         NEW job \in Begun, NEW at, NEW count, Fits(job, at, count), Current(job, seen, held)
  PROVE  LET next == Heard(job, disturbed)
         IN  next \in Begun /\ Fits(next, at, count) /\ Current(next, seenNext, heldNext)
<1> DEFINE next == Heard(job, disturbed)
<1>1. /\ next.stage = job.stage /\ next.call = job.call /\ next.plan = job.plan
      /\ next.adj = job.adj /\ next.stock = job.stock /\ next.settled = job.settled
      /\ next.noted = job.noted /\ next.declined = job.declined
      /\ next.stirred = job.stirred \cup disturbed
  BY DEF Begun, Heard
<1>2. next \in Begun
  BY DEF Begun, Heard
<1> HIDE DEF next
<1>3. Fits(next, at, count)
  BY <1>1 DEF Fits
<1>4. ASSUME next.call \in {"set", "upload"}, NEW n \in DOMAIN next.plan,
             NEW m \in DOMAIN next.plan[n]
      PROVE  Sends(next.plan[n][m], next.stirred, heldNext)
  <2>1. job.plan \in Seq(Seq(Entry)) /\ n \in DOMAIN job.plan /\ m \in DOMAIN job.plan[n]
    BY <1>1, <1>4 DEF Fits
  <2>2. job.plan[n] \in Seq(Entry)
    BY <2>1
  <2>3. job.plan[n][m] \in Entry
    BY <2>1, <2>2
  <2>4. Sends(job.plan[n][m], job.stirred, held)
    BY <1>1, <1>4, <2>1 DEF Current
  <2> QED BY <1>1, <2>3, <2>4, KeptAlike
<1>5. \A n, m \in DOMAIN next.adj : next.adj[n].listing = next.adj[m].listing => n = m
  BY <1>1 DEF Current
<1>6. ASSUME next.stage = "apply", NEW n \in DOMAIN next.adj
      PROVE  Adjusts(next.adj[n], next.stirred, seenNext, heldNext)
  <2>1. job.adj[n] \in Adjustment
    BY <1>1 DEF Begun, ToApply
  <2>2. Adjusts(job.adj[n], job.stirred, seen, held)
    BY <1>1, <1>6 DEF Current
  <2> QED BY <1>1, <2>1, <2>2, KeptAlike
<1>7. ASSUME NEW i \in next.settled
      PROVE  /\ Of(i) # None
             /\ i \notin next.stirred \cup next.declined /\ (next.adj = <<>> \/ Alone(i)) =>
                  seenNext[i] = heldNext[Of(i)]
  <2>1. i \in Listed
    BY <1>1 DEF Begun, ToApply
  <2>2. /\ Of(i) # None
        /\ i \notin job.stirred \cup job.declined /\ (job.adj = <<>> \/ Alone(i)) =>
             seen[i] = held[Of(i)]
    BY <1>1 DEF Current
  <2> QED BY <1>1, <2>1, <2>2 DEF Kept
<1>8. ASSUME next.call = "products", NEW i \in Listed \ next.stirred, Of(i) # None
      PROVE  next.stock[Of(i)] = heldNext[Of(i)]
  <2>1. job.stock[Of(i)] = held[Of(i)]
    BY <1>1, <1>8 DEF Current
  <2> QED BY <1>1, <1>8, <2>1 DEF Kept
<1>9. ASSUME NEW a \in next.noted PROVE Adjusts(a, next.stirred, seenNext, heldNext)
  <2>1. a \in Adjustment
    BY <1>1 DEF Begun
  <2>2. Adjusts(a, job.stirred, seen, held)
    BY <1>1 DEF Current
  <2> QED BY <1>1, <2>1, <2>2, KeptAlike
<1>10. Current(next, seenNext, heldNext)
  BY <1>4, <1>5, <1>6, <1>7, <1>8, <1>9 DEF Current
<1> QED BY <1>2, <1>3, <1>10 DEF next

LEMMA UploadStirred ==
  ASSUME NEW disturbed \in SUBSET Listed, NEW seen, NEW held, NEW seenNext, NEW heldNext,
         Kept(disturbed, seen, held, seenNext, heldNext),
         NEW upload \in Upload, CarriedOut(upload, seen, held)
  PROVE  LET next == Heard(upload, disturbed)
         IN  next \in Upload /\ CarriedOut(next, seenNext, heldNext)
<1> DEFINE next == Heard(upload, disturbed)
<1>1. /\ next.items = upload.items /\ next.status = upload.status /\ next.told = upload.told
      /\ next.stirred = upload.stirred \cup disturbed
  BY DEF Upload, Heard
<1>2. next \in Upload
  BY DEF Upload, Heard
<1> HIDE DEF next
<1>3. ASSUME NEW n \in DOMAIN next.items
      PROVE  /\ Sends(next.items[n], next.stirred, heldNext)
             /\ next.status = "DONE" /\ next.items[n].listing \notin next.stirred =>
                  seenNext[next.items[n].listing] = next.items[n].here
  <2>1. upload.items[n] \in Entry
    BY <1>1 DEF Upload
  <2>2. upload.items[n].listing \in Listed
    BY <2>1 DEF Entry
  <2>3. /\ Sends(upload.items[n], upload.stirred, held)
        /\ upload.status = "DONE" /\ upload.items[n].listing \notin upload.stirred =>
             seen[upload.items[n].listing] = upload.items[n].here
    BY <1>1 DEF CarriedOut
  <2>4. Sends(next.items[n], next.stirred, heldNext)
    <3>1. PICK e \in Entry, stirred \in SUBSET Listed :
                 e = upload.items[n] /\ stirred = upload.stirred
      BY <2>1 DEF Upload
    <3>2. Sends(e, stirred, held) => Sends(e, stirred \cup disturbed, heldNext)
      BY KeptAlike
    <3> QED BY <1>1, <2>3, <3>1, <3>2
  <2> QED BY <1>1, <2>2, <2>3, <2>4 DEF Kept
<1>4. CarriedOut(next, seenNext, heldNext)
  BY <1>1, <1>3 DEF CarriedOut
<1> QED BY <1>2, <1>4 DEF next

LEMMA IdleIsNot == Idle \notin Begun
BY DEF Idle, Begun

LEMMA CountGrows ==
  ASSUME NEW job, NEW at, NEW m \in Nat, NEW n \in Nat, m <= n, Fits(job, at, m)
  PROVE  Fits(job, at, n)
BY DEF Fits

LEMMA JobsGoOn ==
  ASSUME MarketTyped, MarketInv, NEW others \in SUBSET Jobs, NEW disturbed \in SUBSET Listed,
         NEW js \in [Jobs -> {Idle} \cup Begun], \A k \in others : js[k] = jobs[k],
         NEW seen, NEW held, NEW count \in Nat, Len(tickets) <= count,
         Kept(disturbed, listed, stock, seen, held),
         \A k \in Jobs \ others : js[k] # Idle =>
            Fits(js[k], shop, count) /\ Current(js[k], seen, held)
  PROVE  LET next == Stir(js, others, disturbed)
         IN  /\ next \in [Jobs -> {Idle} \cup Begun]
             /\ \A k \in Jobs : next[k] # Idle =>
                  Fits(next[k], shop, count) /\ Current(next[k], seen, held)
<1> DEFINE next == Stir(js, others, disturbed)
<1>0. Len(tickets) \in Nat
  BY DEF MarketTyped
<1>1. ASSUME NEW k \in Jobs
      PROVE  /\ next[k] \in {Idle} \cup Begun
             /\ next[k] # Idle => Fits(next[k], shop, count) /\ Current(next[k], seen, held)
  <2>1. CASE k \in others /\ js[k] # Idle
    <3>1. next[k] = Heard(js[k], disturbed)
      BY <2>1 DEF Stir, Heard
    <3>2. js[k] = jobs[k] /\ js[k] \in Begun
      BY <2>1
    <3>3. Fits(js[k], shop, Len(tickets)) /\ Current(js[k], listed, stock)
      BY <2>1, <3>2 DEF MarketTyped, MarketInv
    <3>4. Fits(js[k], shop, count)
      BY <1>0, <3>3, CountGrows
    <3> HIDE DEF next
    <3>5. PICK job \in Begun : job = js[k]
      BY <3>2
    <3>6. Fits(job, shop, count) /\ Current(job, listed, stock)
      BY <3>3, <3>4, <3>5
    <3>7. /\ Heard(job, disturbed) \in Begun /\ Fits(Heard(job, disturbed), shop, count)
          /\ Current(Heard(job, disturbed), seen, held)
      BY <3>6, StirredCurrent
    <3> QED BY <3>1, <3>5, <3>7
  <2>2. CASE ~ (k \in others /\ js[k] # Idle)
    <3>1. next[k] = js[k]
      BY <2>2 DEF Stir
    <3> HIDE DEF next
    <3> QED BY <2>2, <3>1
  <2> QED BY <2>1, <2>2
<1>2. next \in [Jobs -> {Idle} \cup Begun]
  BY <1>1 DEF Stir
<1> QED BY <1>1, <1>2

LEMMA UploadsGoOn ==
  ASSUME MarketTyped, MarketInv, NEW ts \in Seq(Upload),
         NEW others, NEW disturbed \in SUBSET Listed,
         NEW seen, NEW held, Kept(disturbed, listed, stock, seen, held),
         \A t \in DOMAIN ts :
            IF t \in others THEN t \in DOMAIN tickets /\ ts[t] = tickets[t]
            ELSE CarriedOut(ts[t], seen, held)
  PROVE  LET next == StirTickets(ts, others, disturbed)
         IN  /\ next \in Seq(Upload) /\ Len(next) = Len(ts)
             /\ \A t \in DOMAIN next : CarriedOut(next[t], seen, held)
<1> DEFINE next == StirTickets(ts, others, disturbed)
<1>1. ASSUME NEW t \in DOMAIN ts PROVE next[t] \in Upload /\ CarriedOut(next[t], seen, held)
  <2>0. ts[t] \in Upload
    OBVIOUS
  <2>1. CASE t \in others
    <3>1. next[t] = Heard(ts[t], disturbed)
      BY <2>1 DEF StirTickets, Heard
    <3>2. CarriedOut(ts[t], listed, stock)
      BY <2>1 DEF MarketInv
    <3> HIDE DEF next
    <3> QED BY <2>0, <3>1, <3>2, UploadStirred
  <2>2. CASE t \notin others
    <3>1. next[t] = ts[t]
      BY <2>2 DEF StirTickets
    <3> HIDE DEF next
    <3> QED BY <2>0, <2>2, <3>1
  <2> QED BY <2>1, <2>2
<1>2. DOMAIN next = DOMAIN ts /\ DOMAIN ts = 1 .. Len(ts) /\ Len(ts) \in Nat
  BY DEF StirTickets
<1>3. next \in [1 .. Len(ts) -> Upload]
  BY <1>1, <1>2 DEF StirTickets
<1>4. next \in Seq(Upload) /\ Len(next) = Len(ts)
  BY <1>2, <1>3
<1> QED BY <1>1, <1>2, <1>4

(***************************************************************************)
(* How a job begins, and how it goes on after a call.                      *)
(***************************************************************************)
LEMMA Widen ==
  ASSUME NEW plan \in Seq(Seq(Entry))
  PROVE  plan \in Plans
<1>1. Seq(Entry) \subseteq Seq(Entry \cup [ticket : Nat])
  OBVIOUS
<1> QED BY <1>1 DEF Plans

Unstaged ==
  [stage : {"new", "ask", "token", "try", "apply", "end"},
   op : {"push", "pull", "resolve", "reconcile", "orders", "poll"},
   call : {"set", "upload", "none", "products", "orders", "ticket"},
   plan : Plans, adj : ToApply, tries : Nat,
   stock : Held,
   resolution : {"stockops_wins", "shop_wins"},
   settled : SUBSET Listed, noted : SUBSET Adjustment,
   stirred : SUBSET Listed, declined : SUBSET Listed]

Over(job) == [job EXCEPT !.stage = "end"]

(* What is true of a job that has nothing to do is true when it takes up   *)
(* what it has, if its adjustments are right.                              *)
LEMMA Staged ==
  ASSUME NEW job \in Unstaged, NEW at, NEW count, NEW seen, NEW held,
         Fits(Over(job), at, count), Current(Over(job), seen, held),
         job.plan = <<>> => \A n \in DOMAIN job.adj : Adjusts(job.adj[n], job.stirred, seen, held)
  PROVE  /\ NextStage(job) \in Begun /\ Fits(NextStage(job), at, count)
         /\ Current(NextStage(job), seen, held)
         /\ NextStage(job).stage \notin {"token", "try"}
<1> DEFINE next == NextStage(job)
<1>1. /\ next.call = job.call /\ next.plan = job.plan /\ next.adj = job.adj
      /\ next.stock = job.stock /\ next.settled = job.settled /\ next.stirred = job.stirred
      /\ next.noted = job.noted /\ next.declined = job.declined
      /\ next.stage = IF job.plan # <<>> THEN "ask" ELSE IF job.adj # <<>> THEN "apply" ELSE "end"
  BY DEF Unstaged, NextStage
<1>2. next \in Begun
  BY DEF Unstaged, Begun, NextStage
<1>3. /\ Over(job).call = job.call /\ Over(job).plan = job.plan /\ Over(job).adj = job.adj
      /\ Over(job).stock = job.stock /\ Over(job).settled = job.settled
      /\ Over(job).stirred = job.stirred /\ Over(job).noted = job.noted
      /\ Over(job).declined = job.declined
  BY DEF Unstaged, Over
<1> HIDE DEF next
<1>4. Fits(next, at, count)
  BY <1>1, <1>3 DEF Fits
<1>5. Current(next, seen, held)
  <2>1. next.stage = "apply" => job.plan = <<>>
    BY <1>1
  <2> QED BY <1>1, <1>3, <2>1 DEF Current
<1> QED BY <1>1, <1>2, <1>4, <1>5 DEF next

LEMMA NewIsUnstaged ==
  ASSUME NEW op \in {"push", "pull", "resolve", "reconcile", "orders", "poll"},
         NEW call \in {"set", "upload", "none", "products", "orders", "ticket"},
         NEW plan \in Plans, NEW adj \in ToApply, NEW known \in Held,
         NEW resolution \in {"stockops_wins", "shop_wins"}
  PROVE  /\ New(op, call, plan, adj, known, resolution) \in Unstaged
         /\ New(op, call, plan, adj, known, resolution).call = call
         /\ New(op, call, plan, adj, known, resolution).plan = plan
         /\ New(op, call, plan, adj, known, resolution).adj = adj
         /\ New(op, call, plan, adj, known, resolution).stock = known
         /\ New(op, call, plan, adj, known, resolution).settled = {}
         /\ New(op, call, plan, adj, known, resolution).noted = {}
         /\ New(op, call, plan, adj, known, resolution).stirred = {}
         /\ New(op, call, plan, adj, known, resolution).declined = {}
BY DEF New, Unstaged

LEMMA NewBegins ==
  ASSUME MarketTyped, NEW op \in {"push", "pull", "resolve", "reconcile", "orders", "poll"},
         NEW call \in {"set", "upload", "none", "products", "orders", "ticket"},
         NEW plan \in Plans, NEW adj, Adjusting(adj), NEW known \in Held,
         NEW resolution \in {"stockops_wins", "shop_wins"},
         plan # <<>> => adj = <<>>,
         call \in {"set", "upload"} => Batched(plan, stock),
         call = "set" => shop # "hepsiburada",
         call = "upload" => shop = "hepsiburada",
         call = "products" => /\ plan # <<>> /\ known = stock
                              /\ shop \in {"shopify", "woocommerce"},
         call = "ticket" =>
           /\ shop = "hepsiburada"
           /\ \A n \in DOMAIN plan : plan[n] # <<>> /\ plan[n][1].ticket \in 1 .. Len(tickets)
  PROVE  LET job == NextStage(New(op, call, plan, adj, known, resolution))
         IN  /\ job \in Begun /\ Fits(job, shop, Len(tickets)) /\ Current(job, listed, stock)
<1>1. adj \in ToApply
  BY DEF Adjusting, ToApply
<1>2. PICK new : new = New(op, call, plan, adj, known, resolution)
  OBVIOUS
<1>3. /\ new \in Unstaged /\ new.call = call /\ new.plan = plan /\ new.adj = adj
      /\ new.stock = known /\ new.settled = {} /\ new.stirred = {}
      /\ new.noted = {} /\ new.declined = {}
  BY <1>1, <1>2, NewIsUnstaged
<1>4. PICK over : over = Over(new)
  OBVIOUS
<1>5. /\ over.stage = "end" /\ over.call = call /\ over.plan = plan /\ over.adj = adj
      /\ over.stock = known /\ over.settled = {} /\ over.stirred = {}
      /\ over.noted = {} /\ over.declined = {}
  BY <1>3, <1>4 DEF Over, Unstaged
<1>6. stock \in [Products -> Int]
  BY DEF MarketTyped
<1>7. Fits(over, shop, Len(tickets))
  BY <1>5, <1>6 DEF Fits, Batched
<1>8. Current(over, listed, stock)
  <2>1. call \in {"set", "upload"} =>
          \A n \in DOMAIN plan : \A m \in DOMAIN plan[n] : Sends(plan[n][m], {}, stock)
    BY DEF Batched, Sends
  <2>2. \A n, m \in DOMAIN adj : adj[n].listing = adj[m].listing => n = m
    BY DEF Adjusting
  <2> QED BY <1>5, <2>1, <2>2 DEF Current
<1>9. \A n \in DOMAIN new.adj : Adjusts(new.adj[n], new.stirred, listed, stock)
  BY <1>3 DEF Adjusting
<1> QED BY <1>2, <1>3, <1>4, <1>7, <1>8, <1>9, Staged

LEMMA JobBegins ==
  ASSUME MarketTyped, NEW op \in {"push", "pull", "resolve", "reconcile", "orders", "poll"},
         NEW call \in {"set", "upload", "none", "orders", "ticket"},
         NEW plan \in Plans, NEW adj, Adjusting(adj),
         plan # <<>> => adj = <<>>,
         call \in {"set", "upload"} => Batched(plan, stock),
         call = "set" => shop # "hepsiburada",
         call = "upload" => shop = "hepsiburada",
         call = "ticket" =>
           /\ shop = "hepsiburada"
           /\ \A n \in DOMAIN plan : plan[n] # <<>> /\ plan[n][1].ticket \in 1 .. Len(tickets)
  PROVE  LET job == Job(op, call, plan, adj)
         IN  /\ job \in Begun /\ Fits(job, shop, Len(tickets)) /\ Current(job, listed, stock)
<1>1. <<>> \in Held
  BY DEF Held
<1> QED BY <1>1, NewBegins DEF Job

(* A call ends, well or not.  What was set is settled, and what a          *)
(* reconciliation leaves upstream is noted.                                *)
LEMMA AfterGoesOn ==
  ASSUME MarketTyped, NEW job \in Begun, job.stage \in {"ask", "token", "try"},
         NEW count, Fits(job, shop, count), NEW seen, NEW held, Current(job, seen, held),
         NEW ok \in BOOLEAN,
         job.call = "products" => seen = listed,
         ok /\ job.call = "set" =>
           \A m \in DOMAIN Head(job.plan) :
              Head(job.plan)[m].listing \notin job.stirred \cup job.declined =>
                seen[Head(job.plan)[m].listing] = Head(job.plan)[m].here
  PROVE  /\ After(job, ok) \in Begun /\ Fits(After(job, ok), shop, count)
         /\ Current(After(job, ok), seen, held)
         /\ After(job, ok).stage \notin {"token", "try"}
<1>0. /\ job.plan # <<>> /\ job.adj = <<>> /\ job.noted = {}
      /\ job.plan \in Plans
  BY DEF Fits, Begun
<1>1. CASE job.call = "products"
  <2> DEFINE plan == IF ok THEN Repairs(job) ELSE <<>>
             left == IF ok THEN LeftUpstream(job) ELSE {}
             new == [job EXCEPT !.call = "set", !.tries = 0, !.plan = plan, !.noted = left]
             o == Over(new)
  <2>1. /\ Batched(plan, job.stock) /\ shop # "hepsiburada"
        /\ left \in SUBSET Adjustment /\ \A a \in left : Adjusts(a, {}, seen, job.stock)
        /\ left # {} => plan = <<>>
    <3>1. job.stock \in [Products -> Int] /\ shop \in {"shopify", "woocommerce"}
      BY <1>1 DEF Fits
    <3>2. /\ Batched(Repairs(job), job.stock)
          /\ LeftUpstream(job) \in SUBSET Adjustment
          /\ \A a \in LeftUpstream(job) : Adjusts(a, {}, seen, job.stock)
          /\ LeftUpstream(job) # {} => Repairs(job) = <<>>
      BY <1>1, <3>1, RepairsBatched
    <3>3. Batched(<<>>, job.stock)
      BY DEF Batched
    <3> QED BY <3>1, <3>2, <3>3
  <2>2. plan \in Seq(Seq(Entry)) /\ plan \in Plans
    BY <2>1, Widen DEF Batched
  <2> HIDE DEF plan, left
  <2>3. new \in Unstaged
    BY <2>1, <2>2 DEF Begun, Unstaged
  <2>4. /\ o.stage = "end" /\ o.call = "set" /\ o.plan = plan /\ o.adj = <<>>
        /\ o.settled = job.settled /\ o.stirred = job.stirred
        /\ o.noted = left /\ o.declined = job.declined
        /\ new.adj = <<>>
    BY <1>0 DEF Over, Begun
  <2>5. After(job, ok) = NextStage(new)
    BY <1>1 DEF After, plan, left
  <2> HIDE DEF new, o
  <2>6. Fits(o, shop, count)
    BY <2>1, <2>2, <2>4 DEF Fits
  <2>7. ASSUME NEW n \in DOMAIN plan, NEW m \in DOMAIN plan[n]
        PROVE  Sends(plan[n][m], job.stirred, held)
    <3>1. plan[n][m] \in Entry
      BY <2>2
    <3>2. /\ plan[n][m].product = Of(plan[n][m].listing)
          /\ plan[n][m].here = job.stock[plan[n][m].product]
      BY <2>1 DEF Batched
    <3>3. plan[n][m].listing \in Listed /\ plan[n][m].product # None
      BY <3>1, OfKnown DEF Entry
    <3>4. plan[n][m].listing \notin job.stirred =>
            job.stock[Of(plan[n][m].listing)] = held[Of(plan[n][m].listing)]
      BY <1>1, <3>2, <3>3 DEF Current
    <3> QED BY <3>2, <3>4 DEF Sends
  <2>8. ASSUME NEW a \in left PROVE Adjusts(a, job.stirred, seen, held)
    <3>1. a \in Adjustment /\ Adjusts(a, {}, seen, job.stock)
      BY <2>1
    <3>2. a.listing \in Listed /\ a.product # None /\ a.product = Of(a.listing)
      BY <3>1, OfKnown DEF Adjustment, Adjusts
    <3>3. a.listing \notin job.stirred => job.stock[Of(a.listing)] = held[Of(a.listing)]
      BY <1>1, <3>2 DEF Current
    <3> QED BY <3>1, <3>2, <3>3 DEF Adjusts
  <2>9. Current(o, seen, held)
    <3>1. \A i \in job.settled :
            /\ Of(i) # None
            /\ i \notin job.stirred \cup job.declined => seen[i] = held[Of(i)]
      BY <1>0 DEF Current
    <3> QED BY <2>4, <2>7, <2>8, <3>1 DEF Current
  <2> QED BY <2>3, <2>4, <2>5, <2>6, <2>9, Staged DEF o
<1>2. CASE job.call # "products"
  <2> DEFINE done == IF ok /\ job.call = "set" THEN {e.listing : e \in ToSet(Head(job.plan))} ELSE {}
             new == [job EXCEPT !.plan = Tail(@), !.tries = 0, !.settled = @ \cup done]
             o == Over(new)
  <2>1. /\ Tail(job.plan) \in Plans
        /\ DOMAIN Tail(job.plan) = 1 .. (Len(job.plan) - 1) /\ Len(job.plan) \in Nat
        /\ \A n \in DOMAIN Tail(job.plan) :
             Tail(job.plan)[n] = job.plan[n + 1] /\ n + 1 \in DOMAIN job.plan
        /\ 1 \in DOMAIN job.plan /\ Head(job.plan) = job.plan[1]
    BY <1>0 DEF Plans
  <2>2. ASSUME NEW i \in done
        PROVE  /\ i \in Listed /\ Of(i) # None
               /\ i \notin job.stirred \cup job.declined => seen[i] = held[Of(i)]
    <3>1. ok /\ job.call = "set"
      BY <2>2
    <3>2. PICK m \in DOMAIN Head(job.plan) : i = Head(job.plan)[m].listing
      BY <2>2, <3>1 DEF ToSet
    <3>3. PICK e : e = Head(job.plan)[m]
      OBVIOUS
    <3>4. e \in Entry
      <4>1. job.plan \in Seq(Seq(Entry))
        BY <3>1 DEF Fits
      <4>2. Head(job.plan) \in Seq(Entry)
        BY <2>1, <4>1
      <4> QED BY <3>3, <4>2
    <3>5. Sends(e, job.stirred, held)
      BY <2>1, <3>1, <3>2, <3>3 DEF Current
    <3>6. e.listing \in Listed /\ e.product # None
      BY <3>4, OfKnown DEF Entry
    <3>7. i \notin job.stirred \cup job.declined => seen[i] = e.here
      BY <3>1, <3>2, <3>3
    <3> QED BY <3>2, <3>3, <3>5, <3>6, <3>7 DEF Sends
  <2> HIDE DEF done
  <2>3. new \in Unstaged
    <3>1. job.settled \cup done \in SUBSET Listed
      BY <2>2 DEF Begun
    <3>2. PICK tail : tail = Tail(job.plan) /\ tail \in Plans
      BY <2>1
    <3>3. new = [job EXCEPT !.plan = tail, !.tries = 0, !.settled = job.settled \cup done]
      BY <3>2 DEF Begun
    <3> HIDE DEF new
    <3> QED BY <3>1, <3>2, <3>3 DEF Begun, Unstaged
  <2>4. /\ o.stage = "end" /\ o.call = job.call /\ o.plan = Tail(job.plan) /\ o.adj = <<>>
        /\ o.settled = job.settled \cup done /\ o.stirred = job.stirred
        /\ o.noted = {} /\ o.declined = job.declined
        /\ o.stock = job.stock /\ new.adj = <<>>
    BY <1>0 DEF Over, Begun
  <2>5. After(job, ok) = NextStage(new)
    BY <1>2 DEF After, done
  <2> HIDE DEF new, o
  <2>6. Fits(o, shop, count)
    <3>1. job.call \in {"set", "upload"} => Tail(job.plan) \in Seq(Seq(Entry))
      <4> SUFFICES ASSUME job.call \in {"set", "upload"} PROVE Tail(job.plan) \in Seq(Seq(Entry))
        OBVIOUS
      <4>1. job.plan \in Seq(Seq(Entry))
        BY DEF Fits
      <4> QED BY <1>0, <4>1
    <3>2. job.call = "ticket" =>
            \A n \in DOMAIN Tail(job.plan) :
               Tail(job.plan)[n] # <<>> /\ Tail(job.plan)[n][1].ticket \in 1 .. count
      BY <2>1 DEF Fits
    <3> QED BY <1>2, <2>4, <3>1, <3>2 DEF Fits
  <2>7. Current(o, seen, held)
    <3>1. job.call \in {"set", "upload"} =>
            \A n \in DOMAIN Tail(job.plan) : \A m \in DOMAIN Tail(job.plan)[n] :
              Sends(Tail(job.plan)[n][m], job.stirred, held)
      BY <2>1 DEF Current
    <3>2. \A i \in job.settled :
            /\ Of(i) # None
            /\ i \notin job.stirred \cup job.declined => seen[i] = held[Of(i)]
      BY <1>0 DEF Current
    <3> QED BY <1>2, <2>2, <2>4, <3>1, <3>2 DEF Current
  <2> QED BY <2>3, <2>4, <2>5, <2>6, <2>7, Staged DEF o
<1> QED BY <1>1, <1>2

(***************************************************************************)
(* Steps.  Most move one job and nothing else; the others stir those whose *)
(* listings they touch.                                                    *)
(***************************************************************************)
SyncInvariant == MarketTyped /\ MarketInv

(* The marketplace stays the same one, so a listing keeps its product.     *)
LEMMA SameMarket ==
  ASSUME shop' = shop
  PROVE  /\ (\A j \in Jobs : jobs'[j] # Idle => Current(jobs'[j], listed', stock')) /\
            (\A t \in DOMAIN tickets' : CarriedOut(tickets'[t], listed', stock'))
              => MarketInv'
BY DEF MarketInv, Current, CarriedOut, Sends, Adjusts, Alone, Of

LEMMA MarketMoves ==
  ASSUME SyncInvariant, shop' = shop, stock' \in [Products -> Int], listed' \in [Listed -> Int],
         NEW disturbed \in SUBSET Listed, Kept(disturbed, listed, stock, listed', stock'),
         NEW others \in SUBSET Jobs, NEW js \in [Jobs -> {Idle} \cup Begun],
         \A k \in others : js[k] = jobs[k],
         NEW ts \in Seq(Upload), NEW these, Len(tickets) <= Len(ts),
         \A k \in Jobs \ others : js[k] # Idle =>
            Fits(js[k], shop, Len(ts)) /\ Current(js[k], listed', stock'),
         \A t \in DOMAIN ts :
            IF t \in these THEN t \in DOMAIN tickets /\ ts[t] = tickets[t]
            ELSE CarriedOut(ts[t], listed', stock'),
         jobs' = Stir(js, others, disturbed), tickets' = StirTickets(ts, these, disturbed)
  PROVE  SyncInvariant'
<1>1. Len(ts) \in Nat
  OBVIOUS
<1>2. PICK seen, held : seen = listed' /\ held = stock'
  OBVIOUS
<1>3. Kept(disturbed, listed, stock, seen, held)
  BY <1>2
<1>4. \A k \in Jobs \ others : js[k] # Idle =>
        Fits(js[k], shop, Len(ts)) /\ Current(js[k], seen, held)
  BY <1>2
<1>5. \A t \in DOMAIN ts :
        IF t \in these THEN t \in DOMAIN tickets /\ ts[t] = tickets[t]
        ELSE CarriedOut(ts[t], seen, held)
  BY <1>2
<1>6. MarketTyped /\ MarketInv
  BY DEF SyncInvariant
<1>7. /\ jobs' \in [Jobs -> {Idle} \cup Begun]
      /\ \A k \in Jobs : jobs'[k] # Idle =>
           Fits(jobs'[k], shop, Len(ts)) /\ Current(jobs'[k], seen, held)
  BY <1>1, <1>3, <1>4, <1>6, JobsGoOn
<1>8. /\ tickets' \in Seq(Upload) /\ Len(tickets') = Len(ts)
      /\ \A t \in DOMAIN tickets' : CarriedOut(tickets'[t], seen, held)
  BY <1>3, <1>5, <1>6, UploadsGoOn
<1>9. MarketTyped'
  BY <1>6, <1>7, <1>8 DEF MarketTyped
<1>10. MarketInv'
  BY <1>2, <1>7, <1>8, SameMarket
<1> QED BY <1>9, <1>10 DEF SyncInvariant

LEMMA NobodyStirred ==
  /\ \A js \in [Jobs -> {Idle} \cup Begun] : Stir(js, {}, {}) = js
  /\ \A ts \in Seq(Upload) : StirTickets(ts, {}, {}) = ts
<1>1. \A js \in [Jobs -> {Idle} \cup Begun] : Stir(js, {}, {}) = js
  BY DEF Stir
<1>2. ASSUME NEW ts \in Seq(Upload) PROVE StirTickets(ts, {}, {}) = ts
  <2>1. DOMAIN ts = 1 .. Len(ts) /\ ts = [t \in 1 .. Len(ts) |-> ts[t]]
    OBVIOUS
  <2>2. StirTickets(ts, {}, {}) = [t \in DOMAIN ts |-> ts[t]]
    BY DEF StirTickets
  <2> QED BY <2>1, <2>2
<1> QED BY <1>1, <1>2

LEMMA OneMoves ==
  ASSUME SyncInvariant, UNCHANGED <<shop, stock, listed, tickets>>,
         NEW j \in Jobs, NEW mine \in Begun, Fits(mine, shop, Len(tickets)),
         Current(mine, listed, stock), jobs' = [jobs EXCEPT ![j] = mine]
  PROVE  SyncInvariant'
<1>1. /\ jobs \in [Jobs -> {Idle} \cup Begun] /\ tickets \in Seq(Upload)
      /\ stock \in [Products -> Int] /\ listed \in [Listed -> Int]
      /\ \A k \in Jobs : jobs[k] # Idle =>
           Fits(jobs[k], shop, Len(tickets)) /\ Current(jobs[k], listed, stock)
      /\ \A t \in DOMAIN tickets : CarriedOut(tickets[t], listed, stock)
  BY DEF SyncInvariant, MarketTyped, MarketInv
<1>2. jobs' \in [Jobs -> {Idle} \cup Begun]
  BY <1>1
<1>3. \A k \in Jobs : jobs'[k] # Idle =>
        Fits(jobs'[k], shop, Len(tickets)) /\ Current(jobs'[k], listed, stock)
  <2> TAKE k \in Jobs
  <2>1. CASE k = j
    <3>1. jobs'[k] = mine
      BY <1>1, <2>1
    <3> QED BY <3>1
  <2>2. CASE k # j
    <3>1. jobs'[k] = jobs[k]
      BY <1>1, <2>2
    <3> QED BY <1>1, <3>1
  <2> QED BY <2>1, <2>2
<1>4. MarketInv'
  BY <1>1, <1>3, SameMarket
<1> QED BY <1>1, <1>2, <1>3, <1>4 DEF SyncInvariant, MarketTyped

LEMMA WorldStands ==
  ASSUME SyncInvariant, UNCHANGED <<shop, stock, listed, tickets, jobs>>
  PROVE  SyncInvariant'
<1>1. MarketInv'
  BY SameMarket DEF SyncInvariant, MarketInv
<1> QED BY <1>1 DEF SyncInvariant, MarketTyped

(* Who is at work has begun. *)
LEMMA AtWork ==
  ASSUME SyncInvariant, NEW j \in Jobs, jobs[j].stage \in {"ask", "token", "try", "apply", "end"}
  PROVE  /\ jobs[j] \in Begun /\ Fits(jobs[j], shop, Len(tickets))
         /\ Current(jobs[j], listed, stock)
<1>1. jobs[j] # Idle
  BY DEF Idle
<1> QED BY <1>1 DEF SyncInvariant, MarketTyped, MarketInv

-----------------------------------------------------------------------------
(* Beginnings. *)
LEMMA PushKeeps ==
  ASSUME SyncInvariant, NEW j \in Jobs, Push(j)
  PROVE  SyncInvariant'
<1>1. PICK size \in Sizes :
        Begin(j, Job("push", IF shop = "hepsiburada" THEN "upload" ELSE "set", PushPlan(size), <<>>))
  BY DEF Push
<1>2. MarketTyped
  BY DEF SyncInvariant
<1>3. Batched(PushPlan(size), stock) /\ Adjusting(<<>>)
  BY <1>2, PushBatched, PullAdjusts
<1>4. PICK plan : plan = PushPlan(size)
  OBVIOUS
<1>5. plan \in Plans
  BY <1>3, <1>4, Widen DEF Batched
<1>6. PICK call \in {"set", "upload"} :
        /\ call = IF shop = "hepsiburada" THEN "upload" ELSE "set"
        /\ call = "set" => shop # "hepsiburada"
        /\ call = "upload" => shop = "hepsiburada"
  OBVIOUS
<1>7. PICK mine : mine = Job("push", call, plan, <<>>)
  OBVIOUS
<1>8. mine \in Begun /\ Fits(mine, shop, Len(tickets)) /\ Current(mine, listed, stock)
  BY <1>2, <1>3, <1>4, <1>5, <1>6, <1>7, JobBegins
<1>9. jobs' = [jobs EXCEPT ![j] = mine] /\ UNCHANGED <<shop, stock, listed, tickets>>
  BY <1>1, <1>4, <1>6, <1>7 DEF Begin, world
<1> QED BY <1>8, <1>9, OneMoves

LEMMA PullKeeps ==
  ASSUME SyncInvariant, NEW j \in Jobs, Pull(j)
  PROVE  SyncInvariant'
<1>1. MarketTyped
  BY DEF SyncInvariant
<1>2. PICK adj : adj = PullPlan
  OBVIOUS
<1>3. Adjusting(adj)
  BY <1>1, <1>2, PullAdjusts
<1>4. <<>> \in Plans
  BY DEF Plans
<1>5. PICK mine : mine = Job("pull", "none", <<>>, adj)
  OBVIOUS
<1>6. mine \in Begun /\ Fits(mine, shop, Len(tickets)) /\ Current(mine, listed, stock)
  BY <1>1, <1>3, <1>4, <1>5, JobBegins
<1>7. jobs' = [jobs EXCEPT ![j] = mine] /\ UNCHANGED <<shop, stock, listed, tickets>>
  BY <1>2, <1>5 DEF Pull, Begin, world
<1> QED BY <1>6, <1>7, OneMoves

LEMMA ResolveKeeps ==
  ASSUME SyncInvariant, NEW j \in Jobs, Resolve(j)
  PROVE  SyncInvariant'
<1>1. MarketTyped /\ shop = "shopify"
  BY DEF SyncInvariant, Resolve
<1>2. PICK resolution \in {"stockops_wins", "newest_wins", "shop_wins"} :
        LET c == ShopifyConflicts(listed, stock, resolution)
        IN  Begin(j, Job("resolve", "set",
                         At(c.push, {n \in DOMAIN c.push : Listings[c.push[n][1].listing].item}),
                         c.pull))
  BY DEF Resolve
<1>3. PICK c : c = ShopifyConflicts(listed, stock, resolution)
  OBVIOUS
<1>4. PICK places : places = {n \in DOMAIN c.push : Listings[c.push[n][1].listing].item}
  OBVIOUS
<1>5. PICK plan : plan = At(c.push, places)
  OBVIOUS
<1>6. /\ Batched(plan, stock) /\ Adjusting(c.pull)
      /\ plan # <<>> => c.pull = <<>>
  BY <1>1, <1>3, <1>4, <1>5, ConflictsSplit
<1>7. plan \in Plans
  BY <1>6, Widen DEF Batched
<1>8. PICK mine : mine = Job("resolve", "set", plan, c.pull)
  OBVIOUS
<1>9. mine \in Begun /\ Fits(mine, shop, Len(tickets)) /\ Current(mine, listed, stock)
  BY <1>1, <1>6, <1>7, <1>8, JobBegins
<1>10. jobs' = [jobs EXCEPT ![j] = mine] /\ UNCHANGED <<shop, stock, listed, tickets>>
  BY <1>2, <1>3, <1>4, <1>5, <1>8 DEF Begin, world
<1> QED BY <1>9, <1>10, OneMoves

LEMMA ReconciliationKeeps ==
  ASSUME SyncInvariant, NEW j \in Jobs, RunReconciliation(j)
  PROVE  SyncInvariant'
<1>1. MarketTyped /\ shop \in {"shopify", "woocommerce"}
  BY DEF SyncInvariant, RunReconciliation
<1>2. PICK resolution \in {"stockops_wins", "shop_wins"} :
        Begin(j, NextStage(New("reconcile", "products", <<<<>>>>, <<>>, stock, resolution)))
  BY DEF RunReconciliation
<1>3. PICK plan : plan = <<<<>>>>
  OBVIOUS
<1>4. plan \in Plans /\ plan # <<>>
  BY <1>3 DEF Plans
<1>5. stock \in Held /\ Adjusting(<<>>)
  BY <1>1, PullAdjusts DEF MarketTyped, Held
<1>6. PICK mine : mine = NextStage(New("reconcile", "products", plan, <<>>, stock, resolution))
  OBVIOUS
<1>7. mine \in Begun /\ Fits(mine, shop, Len(tickets)) /\ Current(mine, listed, stock)
  BY <1>1, <1>4, <1>5, <1>6, NewBegins
<1>8. jobs' = [jobs EXCEPT ![j] = mine] /\ UNCHANGED <<shop, stock, listed, tickets>>
  BY <1>2, <1>3, <1>6 DEF Begin, world
<1> QED BY <1>7, <1>8, OneMoves

LEMMA GetOrdersKeeps ==
  ASSUME SyncInvariant, NEW j \in Jobs, GetOrders(j)
  PROVE  SyncInvariant'
<1>1. MarketTyped
  BY DEF SyncInvariant
<1>2. PICK plan : plan = <<<<>>>>
  OBVIOUS
<1>3. plan \in Plans
  BY <1>2 DEF Plans
<1>4. Adjusting(<<>>)
  BY <1>1, PullAdjusts
<1>5. PICK mine : mine = Job("orders", "orders", plan, <<>>)
  OBVIOUS
<1>6. mine \in Begun /\ Fits(mine, shop, Len(tickets)) /\ Current(mine, listed, stock)
  BY <1>1, <1>3, <1>4, <1>5, JobBegins
<1>7. jobs' = [jobs EXCEPT ![j] = mine] /\ UNCHANGED <<shop, stock, listed, tickets>>
  BY <1>2, <1>5 DEF GetOrders, Begin, world
<1> QED BY <1>6, <1>7, OneMoves

LEMMA PollKeeps ==
  ASSUME SyncInvariant, NEW j \in Jobs, PollAllPendingTickets(j)
  PROVE  SyncInvariant'
<1>1. MarketTyped /\ shop = "hepsiburada" /\ tickets \in Seq(Upload)
  BY DEF SyncInvariant, MarketTyped, PollAllPendingTickets
<1>2. PICK asked : asked = {t \in DOMAIN tickets : tickets[t].told = "PENDING"}
  OBVIOUS
<1>3. asked \subseteq 1 .. Len(tickets) /\ Len(tickets) \in Nat
  BY <1>1, <1>2
<1>4. IsFiniteSet(asked) /\ asked \subseteq Nat
  <2>1. PICK last \in Nat : last = Len(tickets)
    BY <1>3
  <2>2. IsFiniteSet(1 .. last)
    BY FS_Interval
  <2>3. asked \subseteq 1 .. last
    BY <1>3, <2>1
  <2>4. asked \subseteq Nat
    BY <2>3
  <2> QED BY <2>2, <2>3, <2>4, FS_Subset
<1>5. PICK pending : pending = InOrder(asked)
  OBVIOUS
<1>6. pending \in Seq(asked)
  BY <1>4, <1>5, InOrderLists
<1>7. PICK plan : plan = [n \in DOMAIN pending |-> <<[ticket |-> pending[n]]>>]
  OBVIOUS
<1>8. /\ DOMAIN plan = 1 .. Len(pending) /\ Len(pending) \in Nat
      /\ \A n \in DOMAIN plan : pending[n] \in asked /\ plan[n] = <<[ticket |-> pending[n]]>>
  BY <1>6, <1>7
<1>9. ASSUME NEW n \in DOMAIN plan
      PROVE  /\ plan[n] \in Seq(Entry \cup [ticket : Nat])
             /\ plan[n] # <<>> /\ plan[n][1].ticket \in 1 .. Len(tickets)
  <2>1. PICK t \in Nat : t = pending[n] /\ t \in 1 .. Len(tickets)
    <3>1. pending[n] \in asked
      BY <1>8
    <3> QED BY <1>3, <1>4, <3>1
  <2>2. [ticket |-> t] \in Entry \cup [ticket : Nat]
    OBVIOUS
  <2>3. plan[n] = <<[ticket |-> t]>>
    BY <1>8, <2>1
  <2>4. plan[n][1] = [ticket |-> t]
    BY <2>3
  <2> QED BY <2>1, <2>2, <2>3, <2>4
<1>10. plan \in Plans
  <2>1. plan \in [1 .. Len(pending) -> Seq(Entry \cup [ticket : Nat])]
    BY <1>7, <1>8, <1>9
  <2> QED BY <1>8, <2>1 DEF Plans
<1>11. Adjusting(<<>>)
  BY <1>1, PullAdjusts
<1>12. PICK mine : mine = Job("poll", "ticket", plan, <<>>)
  OBVIOUS
<1>13. mine \in Begun /\ Fits(mine, shop, Len(tickets)) /\ Current(mine, listed, stock)
  BY <1>1, <1>9, <1>10, <1>11, <1>12, JobBegins
<1>14. jobs' = [jobs EXCEPT ![j] = mine] /\ UNCHANGED <<shop, stock, listed, tickets>>
  BY <1>2, <1>5, <1>7, <1>12 DEF PollAllPendingTickets, Begin, world
<1> QED BY <1>13, <1>14, OneMoves

-----------------------------------------------------------------------------
(* Requests.                                                               *)
(* What another attempt leaves, and a request that is let through.         *)
LEMMA MovesOn ==
  ASSUME NEW job \in Begun, job.stage \in {"ask", "token", "try"},
         NEW at, NEW count, Fits(job, at, count), NEW seen, NEW held, Current(job, seen, held)
  PROVE  /\ \A stage \in {"token", "try"} :
              LET mine == [job EXCEPT !.stage = stage]
              IN  mine \in Begun /\ Fits(mine, at, count) /\ Current(mine, seen, held)
         /\ LET mine == [job EXCEPT !.tries = @ + 1]
            IN  mine \in Begun /\ Fits(mine, at, count) /\ Current(mine, seen, held)
<1>1. ASSUME NEW stage \in {"token", "try"}
      PROVE  LET mine == [job EXCEPT !.stage = stage]
             IN  mine \in Begun /\ Fits(mine, at, count) /\ Current(mine, seen, held)
  <2> DEFINE mine == [job EXCEPT !.stage = stage]
  <2>1. /\ mine.stage = stage /\ mine.call = job.call /\ mine.plan = job.plan /\ mine.adj = job.adj
        /\ mine.stock = job.stock /\ mine.settled = job.settled /\ mine.stirred = job.stirred
        /\ mine.noted = job.noted /\ mine.declined = job.declined
    BY DEF Begun
  <2>2. mine \in Begun
    BY DEF Begun
  <2> HIDE DEF mine
  <2>3. Fits(mine, at, count)
    BY <2>1 DEF Fits
  <2>4. Current(mine, seen, held)
    BY <2>1 DEF Current
  <2> QED BY <2>2, <2>3, <2>4 DEF mine
<1>2. LET mine == [job EXCEPT !.tries = @ + 1]
      IN  mine \in Begun /\ Fits(mine, at, count) /\ Current(mine, seen, held)
  <2> DEFINE mine == [job EXCEPT !.tries = @ + 1]
  <2>1. /\ mine.stage = job.stage /\ mine.call = job.call /\ mine.plan = job.plan
        /\ mine.adj = job.adj /\ mine.stock = job.stock /\ mine.settled = job.settled
        /\ mine.stirred = job.stirred /\ mine.noted = job.noted /\ mine.declined = job.declined
    BY DEF Begun
  <2>2. mine \in Begun
    BY DEF Begun
  <2> HIDE DEF mine
  <2>3. Fits(mine, at, count)
    BY <2>1 DEF Fits
  <2>4. Current(mine, seen, held)
    BY <2>1 DEF Current
  <2> QED BY <2>2, <2>3, <2>4 DEF mine
<1> QED BY <1>1, <1>2

LEMMA AskKeeps ==
  ASSUME SyncInvariant, NEW j \in Jobs, Ask(j)
  PROVE  SyncInvariant'
<1>1. MarketTyped /\ jobs[j].stage = "ask"
  BY DEF SyncInvariant, Ask
<1>2. PICK job \in Begun : job = jobs[j]
  BY <1>1, AtWork
<1>3. job.stage = "ask" /\ Fits(job, shop, Len(tickets)) /\ Current(job, listed, stock)
  BY <1>1, <1>2, AtWork
<1>4. PICK mine : mine = IF breaker'.state = "OPEN" THEN After(job, FALSE)
                         ELSE [job EXCEPT !.stage = IF shop = "pazarama" THEN "token" ELSE "try"]
  OBVIOUS
<1>5. After(job, FALSE) \in Begun /\ Fits(After(job, FALSE), shop, Len(tickets))
      /\ Current(After(job, FALSE), listed, stock)
  BY <1>1, <1>3, AfterGoesOn
<1>6. \A stage \in {"token", "try"} :
        LET next == [job EXCEPT !.stage = stage]
        IN  next \in Begun /\ Fits(next, shop, Len(tickets)) /\ Current(next, listed, stock)
  BY <1>3, MovesOn
<1>7. mine \in Begun /\ Fits(mine, shop, Len(tickets)) /\ Current(mine, listed, stock)
  BY <1>4, <1>5, <1>6
<1>8. jobs' = [jobs EXCEPT ![j] = mine] /\ UNCHANGED <<shop, stock, listed, tickets>>
  BY <1>2, <1>4 DEF Ask, world
<1> QED BY <1>7, <1>8, OneMoves

LEMMA GetTokenKeeps ==
  ASSUME SyncInvariant, NEW j \in Jobs, GetToken(j)
  PROVE  SyncInvariant'
<1>1. MarketTyped /\ jobs[j].stage = "token"
  BY DEF SyncInvariant, GetToken
<1>2. PICK job \in Begun : job = jobs[j]
  BY <1>1, AtWork
<1>3. job.stage = "token" /\ Fits(job, shop, Len(tickets)) /\ Current(job, listed, stock)
  BY <1>1, <1>2, AtWork
<1>4. PICK renewed \in BOOLEAN :
        jobs' = [jobs EXCEPT ![j] =
                   IF EnsureValidToken(token, renewed) = "try" THEN [@ EXCEPT !.stage = "try"]
                   ELSE After(@, FALSE)]
  BY DEF GetToken
<1>5. PICK mine : mine = IF EnsureValidToken(token, renewed) = "try"
                         THEN [job EXCEPT !.stage = "try"] ELSE After(job, FALSE)
  OBVIOUS
<1>6. After(job, FALSE) \in Begun /\ Fits(After(job, FALSE), shop, Len(tickets))
      /\ Current(After(job, FALSE), listed, stock)
  BY <1>1, <1>3, AfterGoesOn
<1>7. LET next == [job EXCEPT !.stage = "try"]
      IN  next \in Begun /\ Fits(next, shop, Len(tickets)) /\ Current(next, listed, stock)
  BY <1>3, MovesOn
<1>8. mine \in Begun /\ Fits(mine, shop, Len(tickets)) /\ Current(mine, listed, stock)
  BY <1>5, <1>6, <1>7
<1>9. jobs' = [jobs EXCEPT ![j] = mine] /\ UNCHANGED <<shop, stock, listed, tickets>>
  BY <1>2, <1>4, <1>5 DEF GetToken, world
<1> QED BY <1>8, <1>9, OneMoves

(* A call fits the marketplace, so what it does is known by its name.      *)
LEMMA Effects ==
  ASSUME MarketTyped, NEW job, NEW count, Fits(job, shop, count)
  PROVE  /\ Effect(job.call) = "level" <=> job.call = "set"
         /\ Effect(job.call) = "ticket" <=> job.call = "upload"
         /\ Effect(job.call) = "status" <=> job.call = "ticket"
<1>1. shop \in {"shopify", "woocommerce", "trendyol", "hepsiburada", "pazarama"}
  BY ShopAssumption DEF MarketTyped
<1>2. CASE shop = "hepsiburada"
  <2>1. Effect(job.call) = HBEffect(job.call) /\ job.call # "set"
    BY <1>2 DEF Effect, Fits
  <2> QED BY <2>1 DEF HBEffect
<1>3. CASE shop # "hepsiburada"
  <2>1. Effect(job.call) = IF job.call = "set" THEN "level" ELSE "none"
    <3>1. CASE shop = "shopify"
      BY <3>1 DEF Effect, ShopifyEffect
    <3>2. CASE shop = "woocommerce"
      BY <3>2 DEF Effect, WooEffect
    <3>3. CASE shop = "trendyol"
      BY <3>3 DEF Effect, TrendyolEffect
    <3>4. CASE shop = "pazarama"
      BY <3>4 DEF Effect, PazaramaEffect
    <3> QED BY <1>1, <1>3, <3>1, <3>2, <3>3, <3>4
  <2>2. job.call \notin {"upload", "ticket"}
    BY <1>3 DEF Fits
  <2> QED BY <2>1, <2>2
<1> QED BY <1>2, <1>3

Ends == {"done", "failed", "again", "uncounted"}

LEMMA Outcomes ==
  ASSUME MarketTyped, NEW job, NEW answer \in Answers
  PROVE  /\ Outcome(job, answer) \in Ends
         /\ Outcome(job, answer) = "done" => answer \in {"ok", "declined"}
<1>1. shop \in {"shopify", "woocommerce", "trendyol", "hepsiburada", "pazarama"}
  BY ShopAssumption DEF MarketTyped
<1>2. /\ Retried(answer, job.tries) \in Ends
      /\ Retried(answer, job.tries) = "done" => answer \in {"ok", "declined"}
  BY DEF Retried, Answers, Ends
<1>3. /\ ShopifyAttempt(job.call, answer, job.tries) \in Ends
      /\ ShopifyAttempt(job.call, answer, job.tries) = "done" => answer \in {"ok", "declined"}
  BY <1>2 DEF ShopifyAttempt, Ends
<1>4. \/ Outcome(job, answer) = ShopifyAttempt(job.call, answer, job.tries)
      \/ Outcome(job, answer) = Retried(answer, job.tries)
  <2>1. CASE shop = "shopify"
    BY <2>1 DEF Outcome
  <2>2. CASE shop = "woocommerce"
    BY <2>2 DEF Outcome, WooAttempt
  <2>3. CASE shop = "trendyol"
    BY <2>3 DEF Outcome, TrendyolAttempt
  <2>4. CASE shop = "hepsiburada"
    BY <2>4 DEF Outcome, HBAttempt
  <2>5. CASE shop = "pazarama"
    BY <2>5 DEF Outcome, PazaramaAttempt
  <2> QED BY <1>1, <2>1, <2>2, <2>3, <2>4, <2>5
<1> QED BY <1>2, <1>3, <1>4

(* The listings a batch names, and what they are set to.                   *)
ListedIn(entries) == {e.listing : e \in ToSet(entries)}

LEMMA SetsBatch ==
  ASSUME MarketTyped, NEW batch \in Seq(Entry), NEW stirred,
         \A m \in DOMAIN batch : Sends(batch[m], stirred, stock)
  PROVE  /\ ListedIn(batch) \in SUBSET Listed
         /\ Sets(batch) \in [Listed -> Int]
         /\ \A i \in Listed \ ListedIn(batch) : Sets(batch)[i] = listed[i]
         /\ \A i \in ListedIn(batch) : Of(i) # None
         /\ \A i \in ListedIn(batch) \ stirred : Sets(batch)[i] = stock[Of(i)]
         /\ \A m \in DOMAIN batch : batch[m].listing \notin stirred =>
              Sets(batch)[batch[m].listing] = batch[m].here
<1>1. \A e \in ToSet(batch) : e \in Entry /\ Sends(e, stirred, stock)
  BY DEF ToSet
<1>2. \A m \in DOMAIN batch : batch[m] \in ToSet(batch)
  BY DEF ToSet
<1>3. ListedIn(batch) \in SUBSET Listed
  BY <1>1 DEF ListedIn, Entry
<1>4. listed \in [Listed -> Int]
  BY DEF MarketTyped
<1>5. ASSUME NEW i \in ListedIn(batch)
      PROVE  /\ i \in Listed /\ Of(i) # None
             /\ Sets(batch)[i] \in Int
             /\ i \notin stirred => Sets(batch)[i] = stock[Of(i)]
  <2>1. \E e \in ToSet(batch) : e.listing = i
    BY DEF ListedIn
  <2>2. PICK e : e = CHOOSE x \in ToSet(batch) : x.listing = i
    OBVIOUS
  <2>3. e \in ToSet(batch) /\ e.listing = i
    BY <2>1, <2>2
  <2>4. e \in Entry /\ Sends(e, stirred, stock)
    BY <1>1, <2>3
  <2>5. i \in Listed
    BY <1>3
  <2>6. Sets(batch)[i] = e.here
    BY <2>1, <2>2, <2>5 DEF Sets
  <2>7. e.here \in Int /\ e.product \in Products
    BY <2>4 DEF Entry
  <2> QED BY <2>3, <2>4, <2>5, <2>6, <2>7, OfKnown DEF Sends
<1>6. ASSUME NEW i \in Listed \ ListedIn(batch) PROVE Sets(batch)[i] = listed[i]
  BY DEF Sets, ListedIn
<1>7. Sets(batch) \in [Listed -> Int]
  <2>1. \A i \in Listed : Sets(batch)[i] \in Int
    BY <1>4, <1>5, <1>6
  <2>2. Sets(batch) = [i \in Listed |-> Sets(batch)[i]]
    BY DEF Sets
  <2> QED BY <2>1, <2>2
<1>8. ASSUME NEW m \in DOMAIN batch, batch[m].listing \notin stirred
      PROVE  Sets(batch)[batch[m].listing] = batch[m].here
  <2>1. PICK e : e = batch[m]
    OBVIOUS
  <2>2. e \in Entry /\ Sends(e, stirred, stock) /\ e.listing \in ListedIn(batch)
    BY <1>1, <1>2, <2>1 DEF ListedIn
  <2> QED BY <1>5, <1>8, <2>1, <2>2 DEF Sends
<1> QED BY <1>3, <1>5, <1>6, <1>7, <1>8

LEMMA SetsKept ==
  ASSUME NEW seen, NEW disturbed \in SUBSET Listed, \A i \in Listed \ disturbed : seen[i] = listed[i]
  PROVE  Kept(disturbed, listed, stock, seen, stock)
BY DEF Kept

LEMMA NothingKept == Kept({}, listed, stock, listed, stock)
BY DEF Kept

(* Setting what a job sends leaves what the job knows as it was.           *)
LEMMA SetsCurrent ==
  ASSUME MarketTyped, NEW job \in Begun, Current(job, listed, stock), job.stage # "apply",
         job.noted = {},
         NEW batch \in Seq(Entry), \A m \in DOMAIN batch : Sends(batch[m], job.stirred, stock)
  PROVE  Current(job, Sets(batch), stock)
<1>1. ASSUME NEW i \in job.settled
      PROVE  /\ Of(i) # None
             /\ i \notin job.stirred \cup job.declined /\ (job.adj = <<>> \/ Alone(i)) =>
                  Sets(batch)[i] = stock[Of(i)]
  <2>1. /\ i \in Listed /\ Of(i) # None
        /\ i \notin job.stirred \cup job.declined /\ (job.adj = <<>> \/ Alone(i)) =>
             listed[i] = stock[Of(i)]
    BY DEF Current, Begun
  <2>2. /\ \A k \in Listed \ ListedIn(batch) : Sets(batch)[k] = listed[k]
        /\ \A k \in ListedIn(batch) \ job.stirred : Sets(batch)[k] = stock[Of(k)]
    BY SetsBatch
  <2> QED BY <2>1, <2>2
<1> QED BY <1>1 DEF Current

(* What the marketplace declines is remembered, and nothing else changes.  *)
Told(job, answer) ==
  IF answer # "declined" THEN job
  ELSE [job EXCEPT !.declined = @ \cup {e.listing : e \in ToSet(Head(job.plan))}]

LEMMA ToldCurrent ==
  ASSUME NEW job \in Begun, NEW at, NEW count, Fits(job, at, count),
         NEW seen, NEW held, Current(job, seen, held), NEW answer,
         answer = "declined" => ListedIn(Head(job.plan)) \in SUBSET Listed
  PROVE  LET told == Told(job, answer)
         IN  /\ told \in Begun /\ Fits(told, at, count) /\ Current(told, seen, held)
             /\ told.stage = job.stage /\ told.call = job.call /\ told.plan = job.plan
             /\ told.stirred = job.stirred
             /\ job.declined \subseteq told.declined
             /\ answer = "declined" => ListedIn(Head(job.plan)) \subseteq told.declined
<1> DEFINE told == Told(job, answer)
<1>1. CASE answer # "declined"
  BY <1>1 DEF Told
<1>2. CASE answer = "declined"
  <2>1. PICK more \in SUBSET Listed : more = ListedIn(Head(job.plan))
    BY <1>2
  <2>2. told = [job EXCEPT !.declined = job.declined \cup more]
    BY <1>2, <2>1 DEF Told, ListedIn
  <2>3. /\ told.stage = job.stage /\ told.call = job.call /\ told.plan = job.plan
        /\ told.adj = job.adj /\ told.stock = job.stock /\ told.settled = job.settled
        /\ told.noted = job.noted /\ told.stirred = job.stirred
        /\ told.declined = job.declined \cup more
    BY <2>2 DEF Begun
  <2>4. told \in Begun
    BY <2>1, <2>2 DEF Begun
  <2> HIDE DEF told
  <2>5. Fits(told, at, count)
    BY <2>3 DEF Fits
  <2>6. Current(told, seen, held)
    BY <2>3 DEF Current
  <2> QED BY <2>1, <2>3, <2>4, <2>5, <2>6 DEF told
<1> QED BY <1>1, <1>2

(* Once the world is as it is after the attempt, the job goes on with it.  *)
LEMMA AttemptGoesOn ==
  ASSUME MarketTyped, NEW job \in Begun, job.stage = "try", NEW count, Fits(job, shop, count),
         NEW seen, Current(job, seen, stock), NEW outcome \in Ends, NEW answer,
         answer = "declined" => ListedIn(Head(job.plan)) \in SUBSET Listed,
         job.call = "products" => seen = listed,
         outcome = "done" /\ job.call = "set" /\ answer # "declined" =>
           \A m \in DOMAIN Head(job.plan) :
              Head(job.plan)[m].listing \notin job.stirred =>
                seen[Head(job.plan)[m].listing] = Head(job.plan)[m].here
  PROVE  LET mine == IF outcome = "again" THEN [job EXCEPT !.tries = @ + 1]
                     ELSE After(Told(job, answer), outcome = "done")
         IN  mine \in Begun /\ Fits(mine, shop, count) /\ Current(mine, seen, stock)
<1>1. CASE outcome = "again"
  BY <1>1, MovesOn
<1>2. CASE outcome # "again"
  <2>1. PICK ok \in BOOLEAN : ok <=> outcome = "done"
    OBVIOUS
  <2>2. (outcome = "done") = ok
    BY <2>1
  <2>3. PICK told \in Begun : told = Told(job, answer)
    BY ToldCurrent
  <2>4. /\ Fits(told, shop, count) /\ Current(told, seen, stock)
        /\ told.stage = job.stage /\ told.call = job.call /\ told.plan = job.plan
        /\ told.stirred = job.stirred /\ job.declined \subseteq told.declined
        /\ answer = "declined" => ListedIn(Head(job.plan)) \subseteq told.declined
    BY <2>3, ToldCurrent
  <2>5. ASSUME ok, told.call = "set", NEW m \in DOMAIN Head(told.plan),
               Head(told.plan)[m].listing \notin told.stirred \cup told.declined
        PROVE  seen[Head(told.plan)[m].listing] = Head(told.plan)[m].here
    <3>1. PICK batch : batch = Head(job.plan)
      OBVIOUS
    <3>2. batch[m].listing \in ListedIn(batch)
      BY <2>4, <2>5, <3>1 DEF ListedIn, ToSet
    <3>3. answer # "declined"
      BY <2>4, <2>5, <3>1, <3>2
    <3> QED BY <2>1, <2>4, <2>5, <3>3
  <2>6. /\ After(told, ok) \in Begun /\ Fits(After(told, ok), shop, count)
        /\ Current(After(told, ok), seen, stock)
    BY <2>4, <2>5, AfterGoesOn
  <2> QED BY <1>2, <2>2, <2>3, <2>6
<1> QED BY <1>1, <1>2

LEMMA AttemptKeeps ==
  ASSUME SyncInvariant, NEW j \in Jobs, Attempt(j)
  PROVE  SyncInvariant'
<1>1. /\ MarketTyped /\ MarketInv /\ jobs[j].stage = "try"
      /\ shop' = shop /\ stock' = stock
  BY DEF SyncInvariant, Attempt
<1>2. PICK job \in Begun : job = jobs[j]
  BY <1>1, AtWork
<1>3. job.stage = "try" /\ Fits(job, shop, Len(tickets)) /\ Current(job, listed, stock)
  BY <1>1, <1>2, AtWork
<1>4. PICK answer \in Answers :
        LET outcome == Outcome(job, answer)
            served == answer \in {"ok", "lost"}
            mine == IF outcome = "again" THEN [job EXCEPT !.tries = @ + 1]
                    ELSE After(Told(job, answer), outcome = "done")
            disturbed == IF served /\ Effect(job.call) = "level" THEN ListedIn(Head(job.plan)) ELSE {}
        IN  /\ MayAnswer(job, answer)
            /\ IF served THEN Serves(j, job, answer) ELSE UNCHANGED <<listed, tickets>>
            /\ jobs' = Stir([jobs EXCEPT ![j] = mine], Jobs \ {j}, disturbed)
  BY <1>2 DEF Attempt, ListedIn, Told
<1>5. PICK outcome : outcome = Outcome(job, answer)
  OBVIOUS
<1>6. outcome \in Ends /\ (outcome = "done" => answer \in {"ok", "declined"})
  BY <1>1, <1>5, Outcomes
<1>7. /\ Effect(job.call) = "level" <=> job.call = "set"
      /\ Effect(job.call) = "ticket" <=> job.call = "upload"
      /\ Effect(job.call) = "status" <=> job.call = "ticket"
  BY <1>1, <1>3, Effects
<1>8. PICK mine : mine = IF outcome = "again" THEN [job EXCEPT !.tries = @ + 1]
                         ELSE After(Told(job, answer), outcome = "done")
  OBVIOUS
<1>9. /\ jobs \in [Jobs -> {Idle} \cup Begun] /\ tickets \in Seq(Upload)
      /\ stock \in [Products -> Int] /\ listed \in [Listed -> Int] /\ Len(tickets) \in Nat
      /\ \A t \in DOMAIN tickets : CarriedOut(tickets[t], listed, stock)
  BY <1>1 DEF MarketTyped, MarketInv
<1>10. PICK js : js = [jobs EXCEPT ![j] = mine]
  OBVIOUS
<1>11. \A k \in Jobs \ {j} : js[k] = jobs[k]
  BY <1>9, <1>10
<1>12. js[j] = mine
  BY <1>9, <1>10
<1>13. mine \in Begun => js \in [Jobs -> {Idle} \cup Begun]
  BY <1>9, <1>10
<1>14. PICK batch : batch = Head(job.plan)
  OBVIOUS
<1>15. /\ job.plan # <<>> /\ job.noted = {}
       /\ job.call \in {"set", "upload"} =>
            batch \in Seq(Entry) /\ \A m \in DOMAIN batch : Sends(batch[m], job.stirred, stock)
  <2>1. job.plan # <<>> /\ job.noted = {}
    BY <1>3 DEF Fits
  <2>2. ASSUME job.call \in {"set", "upload"}
        PROVE  batch \in Seq(Entry) /\ \A m \in DOMAIN batch : Sends(batch[m], job.stirred, stock)
    <3>1. job.plan \in Seq(Seq(Entry))
      BY <1>3, <2>2 DEF Fits
    <3>2. 1 \in DOMAIN job.plan /\ batch = job.plan[1] /\ batch \in Seq(Entry)
      BY <1>14, <2>1, <3>1
    <3> QED BY <1>3, <2>2, <3>2 DEF Current
  <2> QED BY <2>1, <2>2
<1>16. CASE answer \in {"ok", "lost"} /\ job.call = "set"
  <2>1. /\ listed' = Sets(batch) /\ tickets' = StirTickets(tickets, DOMAIN tickets, ListedIn(batch))
        /\ jobs' = Stir(js, Jobs \ {j}, ListedIn(batch))
    <3>1. Serves(j, job, answer) /\ jobs' = Stir(js, Jobs \ {j}, ListedIn(batch))
      BY <1>4, <1>5, <1>7, <1>8, <1>10, <1>14, <1>16
    <3> QED BY <1>7, <1>14, <1>16, <3>1 DEF Serves, ListedIn
  <2>2. /\ batch \in Seq(Entry)
        /\ \A m \in DOMAIN batch : Sends(batch[m], job.stirred, stock)
    BY <1>15, <1>16
  <2>3. /\ ListedIn(batch) \in SUBSET Listed /\ Sets(batch) \in [Listed -> Int]
        /\ \A i \in Listed \ ListedIn(batch) : Sets(batch)[i] = listed[i]
        /\ \A m \in DOMAIN batch : batch[m].listing \notin job.stirred =>
             Sets(batch)[batch[m].listing] = batch[m].here
    BY <1>1, <2>2, SetsBatch
  <2>4. PICK seen : seen = Sets(batch)
    OBVIOUS
  <2>5. Current(job, seen, stock)
    BY <1>1, <1>3, <1>15, <2>2, <2>4, SetsCurrent
  <2>6. mine \in Begun /\ Fits(mine, shop, Len(tickets)) /\ Current(mine, seen, stock)
    BY <1>1, <1>3, <1>6, <1>8, <1>14, <1>16, <2>3, <2>4, <2>5, AttemptGoesOn
  <2>7. Kept(ListedIn(batch), listed, stock, listed', stock')
    BY <1>1, <2>1, <2>3, SetsKept
  <2>8. stock' \in [Products -> Int] /\ listed' \in [Listed -> Int] /\ listed' = seen
    BY <1>1, <1>9, <2>1, <2>3, <2>4
  <2>9. \A k \in Jobs \ (Jobs \ {j}) : js[k] # Idle =>
          Fits(js[k], shop, Len(tickets)) /\ Current(js[k], listed', stock')
    BY <1>1, <1>12, <2>6, <2>8
  <2>10. \A t \in DOMAIN tickets : IF t \in DOMAIN tickets
           THEN t \in DOMAIN tickets /\ tickets[t] = tickets[t]
           ELSE CarriedOut(tickets[t], listed', stock')
    OBVIOUS
  <2> HIDE DEF SyncInvariant
  <2>11. PICK others \in SUBSET Jobs : others = Jobs \ {j}
    OBVIOUS
  <2>12. PICK disturbed \in SUBSET Listed : disturbed = ListedIn(batch)
    BY <2>3
  <2>13. PICK these : these = DOMAIN tickets
    OBVIOUS
  <2>14. PICK ts \in Seq(Upload) : ts = tickets /\ Len(tickets) <= Len(ts)
    BY <1>9
  <2> QED BY <1>1, <1>11, <1>13, <2>1, <2>6, <2>7, <2>8, <2>9, <2>10, <2>11, <2>12, <2>13, <2>14,
             MarketMoves
<1>17. CASE ~ (answer \in {"ok", "lost"} /\ job.call = "set")
  <2>1. listed' = listed /\ jobs' = Stir(js, Jobs \ {j}, {})
    <3>1. jobs' = Stir(js, Jobs \ {j}, {})
      BY <1>4, <1>5, <1>7, <1>8, <1>10, <1>17
    <3>2. listed' = listed
      <4>1. CASE answer \in {"ok", "lost"}
        <5>1. Serves(j, job, answer) /\ Effect(job.call) # "level"
          BY <1>4, <1>7, <1>17, <4>1
        <5> QED BY <5>1 DEF Serves
      <4>2. CASE answer \notin {"ok", "lost"}
        BY <1>4, <4>2
      <4> QED BY <4>1, <4>2
    <3> QED BY <3>1, <3>2
  <2>2. /\ outcome = "done" => job.call # "set" \/ answer = "declined"
        /\ answer = "declined" => ListedIn(Head(job.plan)) \in SUBSET Listed
    <3>1. answer = "declined" => job.call = "set"
      BY <1>4 DEF MayAnswer
    <3> QED BY <1>1, <1>6, <1>14, <1>15, <1>17, <3>1, SetsBatch
  <2>3. mine \in Begun /\ Fits(mine, shop, Len(tickets)) /\ Current(mine, listed, stock)
    BY <1>1, <1>3, <1>6, <1>8, <2>2, AttemptGoesOn
  <2>4. /\ tickets' \in Seq(Upload) /\ Len(tickets) <= Len(tickets')
        /\ \A t \in DOMAIN tickets' : CarriedOut(tickets'[t], listed, stock)
    <3>1. CASE answer \in {"ok", "lost"} /\ job.call = "upload"
      <4>1. PICK new : new = [items |-> batch, status |-> "PROCESSING",
                              told |-> IF answer = "ok" THEN "PENDING" ELSE "UNSAVED",
                              stirred |-> job.stirred]
        OBVIOUS
      <4>2. Serves(j, job, answer) /\ Effect(job.call) = "ticket"
        BY <1>4, <1>7, <3>1
      <4>3. tickets' = Append(tickets, new)
        BY <1>14, <4>1, <4>2 DEF Serves
      <4>4. batch \in Seq(Entry) /\ \A m \in DOMAIN batch : Sends(batch[m], job.stirred, stock)
        BY <1>15, <3>1
      <4>5. new \in Upload
        BY <4>1, <4>4 DEF Upload, Begun
      <4>6. CarriedOut(new, listed, stock)
        BY <4>1, <4>4 DEF CarriedOut
      <4>7. /\ tickets' \in Seq(Upload) /\ Len(tickets') = Len(tickets) + 1
            /\ \A t \in DOMAIN tickets' :
                 tickets'[t] = new \/ (t \in DOMAIN tickets /\ tickets'[t] = tickets[t])
        BY <1>9, <4>3, <4>5
      <4> QED BY <1>9, <4>6, <4>7
    <3>2. CASE answer = "ok" /\ job.call = "ticket"
      <4>1. PICK x : x = Head(job.plan)[1].ticket
        OBVIOUS
      <4>2. x \in DOMAIN tickets
        <5>1. job.plan \in Plans
          BY DEF Begun
        <5>2. 1 \in DOMAIN job.plan /\ Head(job.plan) = job.plan[1]
          BY <1>15, <5>1 DEF Plans
        <5>3. x \in 1 .. Len(tickets)
          BY <1>3, <3>2, <4>1, <5>2 DEF Fits
        <5> QED BY <1>9, <5>3
      <4>3. Serves(j, job, answer) /\ Effect(job.call) = "status"
        BY <1>4, <1>7, <3>2
      <4>4. PICK told : told = PollTicketStatus(tickets[x].status)
        OBVIOUS
      <4>5. tickets' = [tickets EXCEPT ![x].told = told]
        BY <3>2, <4>1, <4>3, <4>4 DEF Serves
      <4>6. PICK old \in Upload : old = tickets[x]
        BY <1>9, <4>2
      <4>7. told \in {"PENDING", "SUCCESS", "FAILED"} /\ (told = "SUCCESS" => old.status = "DONE")
        BY <4>4, <4>6 DEF PollTicketStatus, Upload
      <4>8. PICK new : new = [old EXCEPT !.told = told]
        OBVIOUS
      <4>9. /\ new \in Upload /\ new.items = old.items /\ new.status = old.status
            /\ new.stirred = old.stirred /\ new.told = told
        BY <4>7, <4>8 DEF Upload
      <4>10. CarriedOut(old, listed, stock)
        BY <1>9, <4>2, <4>6
      <4>11. CarriedOut(new, listed, stock)
        BY <4>7, <4>9, <4>10 DEF CarriedOut
      <4>12. tickets' = [tickets EXCEPT ![x] = new]
        BY <4>5, <4>6, <4>8
      <4>13. /\ tickets' \in Seq(Upload) /\ Len(tickets') = Len(tickets)
             /\ \A t \in DOMAIN tickets' :
                  tickets'[t] = new \/ (t \in DOMAIN tickets /\ tickets'[t] = tickets[t])
        BY <1>9, <4>2, <4>9, <4>12
      <4> QED BY <1>9, <4>11, <4>13
    <3>3. CASE /\ ~ (answer \in {"ok", "lost"} /\ job.call = "upload")
               /\ ~ (answer = "ok" /\ job.call = "ticket")
      <4>1. tickets' = tickets
        <5>1. CASE answer \in {"ok", "lost"}
          <6>1. /\ Serves(j, job, answer) /\ Effect(job.call) \notin {"level", "ticket"}
                /\ ~ (Effect(job.call) = "status" /\ answer = "ok")
            BY <1>4, <1>7, <1>17, <3>3, <5>1
          <6> QED BY <6>1 DEF Serves
        <5>2. CASE answer \notin {"ok", "lost"}
          BY <1>4, <5>2
        <5> QED BY <5>1, <5>2
      <4> QED BY <1>9, <4>1
    <3> QED BY <3>1, <3>2, <3>3
  <2>5. PICK ts \in Seq(Upload) : ts = tickets'
    BY <2>4
  <2>6. /\ Len(tickets) <= Len(ts) /\ Len(ts) \in Nat
        /\ \A t \in DOMAIN ts : CarriedOut(ts[t], listed', stock')
        /\ StirTickets(ts, {}, {}) = ts
    BY <1>1, <2>1, <2>4, <2>5, NobodyStirred
  <2>7. Fits(mine, shop, Len(ts))
    BY <1>9, <2>3, <2>6, CountGrows
  <2>8. \A k \in Jobs \ (Jobs \ {j}) : js[k] # Idle =>
          Fits(js[k], shop, Len(ts)) /\ Current(js[k], listed', stock')
    BY <1>1, <1>12, <2>1, <2>3, <2>7
  <2>9. Kept({}, listed, stock, listed', stock')
    BY <1>1, <2>1, NothingKept
  <2>10. stock' \in [Products -> Int] /\ listed' \in [Listed -> Int]
    BY <1>1, <1>9, <2>1
  <2>11. PICK others \in SUBSET Jobs : others = Jobs \ {j}
    OBVIOUS
  <2>12. PICK none \in SUBSET Listed : none = {}
    OBVIOUS
  <2>13. \A t \in DOMAIN ts : IF t \in none THEN t \in DOMAIN tickets /\ ts[t] = tickets[t]
           ELSE CarriedOut(ts[t], listed', stock')
    BY <2>6, <2>12
  <2> QED BY <1>1, <1>11, <1>13, <2>1, <2>3, <2>5, <2>6, <2>8, <2>9, <2>10, <2>11, <2>12, <2>13,
             MarketMoves
<1> QED BY <1>16, <1>17

-----------------------------------------------------------------------------
(* The caller applies the adjustments.  A product whose only listing is    *)
(* adjusted is changed by that adjustment.                                 *)
ChangeOf(job, p) ==
  SumFunction([n \in {m \in DOMAIN job.adj : job.adj[m].product = p} |-> job.adj[n].change])

LEMMA ChangedOnce ==
  ASSUME NEW job \in Begun, job.stage = "apply", NEW seen, NEW held, Current(job, seen, held)
  PROVE  /\ \A p \in Products : ChangeOf(job, p) \in Int
         /\ \A n \in DOMAIN job.adj : Alone(job.adj[n].listing) =>
              ChangeOf(job, job.adj[n].product) = job.adj[n].change
         /\ \A p \in Products :
              (\A n \in DOMAIN job.adj : job.adj[n].product # p) => ChangeOf(job, p) = 0
<1>1. /\ \A n \in DOMAIN job.adj : job.adj[n] \in Adjustment
      /\ IsFiniteSet(DOMAIN job.adj)
  <2>1. job.adj \in Seq(Adjustment)
    BY DEF Begun, ToApply
  <2>2. PICK count \in Nat : DOMAIN job.adj = 1 .. count
    BY <2>1
  <2>3. IsFiniteSet(1 .. count)
    BY FS_Interval
  <2> QED BY <2>1, <2>2, <2>3
<1>2. ASSUME NEW n \in DOMAIN job.adj, Alone(job.adj[n].listing), NEW m \in DOMAIN job.adj,
             job.adj[n].product = job.adj[m].product
      PROVE  n = m
  <2>1. PICK a, b : a = job.adj[n] /\ b = job.adj[m]
    OBVIOUS
  <2>2. a \in Adjustment /\ b \in Adjustment /\ a.product = Of(a.listing) /\ b.product = Of(b.listing)
    BY <1>1, <2>1 DEF Current, Adjusts
  <2>3. a.listing = b.listing
    BY <1>2, <2>1, <2>2 DEF Adjustment, Alone
  <2> QED BY <2>1, <2>3 DEF Current
<1>3. ASSUME NEW n \in DOMAIN job.adj, Alone(job.adj[n].listing)
      PROVE  ChangeOf(job, job.adj[n].product) = job.adj[n].change
  <2> DEFINE S == {m \in DOMAIN job.adj : job.adj[m].product = job.adj[n].product}
             f == [m \in S |-> job.adj[m].change]
  <2>1. S = {n}
    BY <1>2, <1>3
  <2>2. f[n] = job.adj[n].change /\ f[n] \in Int /\ DOMAIN f = {n}
    BY <1>1, <2>1 DEF Adjustment
  <2>3. ChangeOf(job, job.adj[n].product) = SumFunctionOnSet(f, {n})
    BY <2>2 DEF ChangeOf, SumFunction
  <2> HIDE DEF S, f
  <2>4. IsFiniteSet({n}) /\ {n} \ {n} = {}
    BY FS_Singleton
  <2>5. \A x \in {n} : f[x] \in Int
    BY <2>2
  <2>6. SumFunctionOnSet(f, {n}) = f[n] + SumFunctionOnSet(f, {n} \ {n})
    BY <2>4, <2>5, SumRemove
  <2>7. SumFunctionOnSet(f, {n} \ {n}) = 0
    BY <2>4, SumEmpty
  <2> QED BY <2>2, <2>3, <2>6, <2>7
<1>4. ASSUME NEW p \in Products, \A n \in DOMAIN job.adj : job.adj[n].product # p
      PROVE  ChangeOf(job, p) = 0
  <2> DEFINE f == [n \in {m \in DOMAIN job.adj : job.adj[m].product = p} |-> job.adj[n].change]
  <2>1. DOMAIN f = {}
    BY <1>4
  <2>2. ChangeOf(job, p) = SumFunctionOnSet(f, {})
    BY <2>1 DEF ChangeOf, SumFunction
  <2> HIDE DEF f
  <2> QED BY <2>2, SumEmpty
<1>5. ASSUME NEW p \in Products PROVE ChangeOf(job, p) \in Int
  <2> DEFINE S == {m \in DOMAIN job.adj : job.adj[m].product = p}
             f == [n \in S |-> job.adj[n].change]
  <2>1. IsFiniteSet(S)
    BY <1>1, FS_Subset
  <2>2. DOMAIN f = S /\ \A n \in S : f[n] \in Int
    BY <1>1 DEF Adjustment
  <2>3. ChangeOf(job, p) = SumFunction(f)
    BY DEF ChangeOf
  <2> HIDE DEF S, f
  <2> QED BY <2>1, <2>2, <2>3, SumFunctionInt
<1> QED BY <1>3, <1>4, <1>5

LEMMA ApplyKeeps ==
  ASSUME SyncInvariant, NEW j \in Jobs, Apply(j)
  PROVE  SyncInvariant'
<1>1. MarketTyped /\ MarketInv /\ jobs[j].stage = "apply" /\ shop' = shop /\ listed' = listed
  BY DEF SyncInvariant, Apply
<1>2. PICK job \in Begun : job = jobs[j]
  BY <1>1, AtWork
<1>3. job.stage = "apply" /\ Fits(job, shop, Len(tickets)) /\ Current(job, listed, stock)
  BY <1>1, <1>2, AtWork
<1>4. PICK adjusted : adjusted = {a.listing : a \in ToSet(job.adj)}
  OBVIOUS
<1>5. PICK mine : mine = [job EXCEPT !.stage = "end", !.settled = @ \cup adjusted]
  OBVIOUS
<1>6. PICK js : js = [jobs EXCEPT ![j] = mine]
  OBVIOUS
<1>0. PICK disturbed \in SUBSET Listed : disturbed = ListedOf({a.product : a \in ToSet(job.adj)})
  BY DEF ListedOf
<1>7. /\ jobs' = Stir(js, Jobs \ {j}, disturbed)
      /\ tickets' = StirTickets(tickets, DOMAIN tickets, disturbed)
  BY <1>0, <1>2, <1>4, <1>5, <1>6 DEF Apply
<1>8. PICK next : next = [p \in Products |-> stock[p] + ChangeOf(job, p)]
  OBVIOUS
<1>9. stock' = next
  BY <1>2, <1>8 DEF Apply, ChangeOf
<1>10. /\ jobs \in [Jobs -> {Idle} \cup Begun] /\ tickets \in Seq(Upload)
       /\ stock \in [Products -> Int] /\ listed \in [Listed -> Int] /\ Len(tickets) \in Nat
  BY <1>1 DEF MarketTyped
<1>11. /\ \A p \in Products : ChangeOf(job, p) \in Int
       /\ \A n \in DOMAIN job.adj : Alone(job.adj[n].listing) =>
            ChangeOf(job, job.adj[n].product) = job.adj[n].change
       /\ \A p \in Products :
            (\A n \in DOMAIN job.adj : job.adj[n].product # p) => ChangeOf(job, p) = 0
  BY <1>3, ChangedOnce
<1>12. next \in [Products -> Int] /\ \A p \in Products : next[p] = stock[p] + ChangeOf(job, p)
  BY <1>8, <1>10, <1>11
<1>13. \A n \in DOMAIN job.adj :
         /\ job.adj[n] \in Adjustment /\ job.adj[n].listing \in adjusted
         /\ Adjusts(job.adj[n], job.stirred, listed, stock)
  <2>1. \A n \in DOMAIN job.adj : job.adj[n] \in Adjustment /\ job.adj[n] \in ToSet(job.adj)
    BY DEF Begun, ToApply, ToSet
  <2> QED BY <1>3, <1>4, <2>1 DEF Current
<1>14. \A i \in adjusted : \E n \in DOMAIN job.adj : i = job.adj[n].listing
  BY <1>4 DEF ToSet
<1>15. adjusted \in SUBSET Listed
  BY <1>13, <1>14 DEF Adjustment
<1>16. ASSUME NEW i \in Listed, Of(i) # None, \A n \in DOMAIN job.adj : job.adj[n].product # Of(i)
       PROVE  next[Of(i)] = stock[Of(i)]
  <2>1. Of(i) \in Products
    BY <1>16, OfKnown
  <2>2. ChangeOf(job, Of(i)) = 0
    BY <1>11, <1>16, <2>1
  <2> QED BY <1>10, <1>12, <2>1, <2>2
<1>17. ASSUME NEW i \in adjusted
       PROVE  Of(i) # None /\ (i \notin job.stirred /\ Alone(i) => next[Of(i)] = listed[i])
  <2>1. PICK n \in DOMAIN job.adj : i = job.adj[n].listing
    BY <1>14
  <2>2. PICK a : a = job.adj[n]
    OBVIOUS
  <2>3. /\ a \in Adjustment /\ a.listing = i /\ a.product = Of(i)
        /\ i \notin job.stirred => stock[a.product] + a.change = listed[i]
    BY <1>13, <2>1, <2>2 DEF Adjusts
  <2>4. a.product \in Products /\ (Alone(i) => next[a.product] = stock[a.product] + a.change)
    BY <1>11, <1>12, <2>1, <2>2, <2>3 DEF Adjustment
  <2> QED BY <2>3, <2>4, OfKnown
<1>18. /\ mine.stage = "end" /\ mine.call = job.call /\ mine.plan = job.plan /\ mine.adj = job.adj
       /\ mine.stock = job.stock /\ mine.settled = job.settled \cup adjusted
       /\ mine.noted = job.noted /\ mine.declined = job.declined
       /\ mine.stirred = job.stirred /\ mine \in Begun
  <2>1. job.settled \cup adjusted \in SUBSET Listed
    BY <1>15 DEF Begun
  <2>2. PICK settled : settled = job.settled \cup adjusted
    OBVIOUS
  <2>3. mine = [job EXCEPT !.stage = "end", !.settled = settled]
    BY <1>5, <2>2 DEF Begun
  <2> QED BY <2>1, <2>2, <2>3 DEF Begun
<1>19. Fits(mine, shop, Len(tickets))
  BY <1>3, <1>18 DEF Fits
<1>20. Current(mine, listed, next)
  <2>1. job.adj = <<>> => \A p \in Products : next[p] = stock[p]
    <3> SUFFICES ASSUME job.adj = <<>>, NEW p \in Products PROVE next[p] = stock[p]
      OBVIOUS
    <3>1. DOMAIN job.adj = {}
      OBVIOUS
    <3>2. ChangeOf(job, p) = 0
      BY <1>11, <3>1
    <3> QED BY <1>10, <1>12, <3>2
  <2>2. ASSUME job.call \in {"set", "upload"}, NEW n \in DOMAIN job.plan,
               NEW m \in DOMAIN job.plan[n]
        PROVE  Sends(job.plan[n][m], job.stirred, next)
    <3>1. job.plan \in Seq(Seq(Entry)) /\ job.plan # <<>> /\ job.adj = <<>>
      BY <1>3, <2>2 DEF Fits
    <3>2. PICK e : e = job.plan[n][m]
      OBVIOUS
    <3>3. e \in Entry /\ Sends(e, job.stirred, stock)
      BY <1>3, <2>2, <3>1, <3>2 DEF Current
    <3> QED BY <2>1, <3>1, <3>2, <3>3 DEF Sends, Entry
  <2>3. \A n, m \in DOMAIN job.adj : job.adj[n].listing = job.adj[m].listing => n = m
    BY <1>3 DEF Current
  <2>4. ASSUME NEW i \in job.settled \cup adjusted
        PROVE  /\ Of(i) # None
               /\ i \notin job.stirred \cup job.declined /\ (job.adj = <<>> \/ Alone(i)) =>
                    listed[i] = next[Of(i)]
    <3>1. CASE i \in adjusted
      <4>1. job.adj # <<>>
        BY <1>14, <3>1
      <4>2. Of(i) # None /\ (i \notin job.stirred /\ Alone(i) => next[Of(i)] = listed[i])
        BY <1>17, <3>1
      <4> QED BY <4>1, <4>2
    <3>2. CASE i \notin adjusted
      <4>1. /\ i \in Listed /\ Of(i) # None
            /\ i \notin job.stirred \cup job.declined /\ (job.adj = <<>> \/ Alone(i)) =>
                 listed[i] = stock[Of(i)]
        BY <1>3, <3>2 DEF Current, Begun
      <4>2. ASSUME Alone(i) PROVE \A n \in DOMAIN job.adj : job.adj[n].product # Of(i)
        <5> SUFFICES ASSUME NEW n \in DOMAIN job.adj, job.adj[n].product = Of(i) PROVE FALSE
          OBVIOUS
        <5>1. PICK a : a = job.adj[n]
          OBVIOUS
        <5>2. a \in Adjustment /\ a.listing \in adjusted /\ a.product = Of(a.listing)
          BY <1>13, <5>1 DEF Adjusts
        <5>3. a.listing = i
          BY <4>2, <5>1, <5>2 DEF Adjustment, Alone
        <5> QED BY <3>2, <5>2, <5>3
      <4>3. job.adj = <<>> \/ Alone(i) => next[Of(i)] = stock[Of(i)]
        BY <1>16, <2>1, <4>1, <4>2, OfKnown
      <4> QED BY <4>1, <4>3
    <3> QED BY <3>1, <3>2
  <2>5. ASSUME NEW a \in job.noted PROVE Adjusts(a, job.stirred, listed, next)
    <3>1. job.adj = <<>>
      BY <1>3, <2>5 DEF Fits
    <3>2. a \in Adjustment /\ Adjusts(a, job.stirred, listed, stock)
      BY <1>3 DEF Begun, Current
    <3>3. next[a.product] = stock[a.product]
      BY <2>1, <3>1, <3>2 DEF Adjustment
    <3> QED BY <3>2, <3>3 DEF Adjusts
  <2>6. ASSUME job.call = "products", NEW i \in Listed \ job.stirred, Of(i) # None
        PROVE  job.stock[Of(i)] = next[Of(i)]
    <3>1. job.adj = <<>> /\ Of(i) \in Products
      BY <1>3, <2>6, OfKnown DEF Fits
    <3>2. job.stock[Of(i)] = stock[Of(i)]
      BY <1>3, <2>6 DEF Current
    <3> QED BY <2>1, <3>1, <3>2
  <2> QED BY <1>18, <2>2, <2>3, <2>4, <2>5, <2>6 DEF Current
<1>21. Kept(disturbed, listed, stock, listed', stock')
  <2>1. ASSUME NEW i \in Listed \ disturbed, Of(i) # None PROVE next[Of(i)] = stock[Of(i)]
    <3>1. \A n \in DOMAIN job.adj : job.adj[n].product # Of(i)
      BY <1>0, <2>1 DEF ListedOf, ToSet
    <3> QED BY <1>16, <2>1, <3>1
  <2> QED BY <1>1, <1>9, <2>1 DEF Kept
<1>22. PICK others \in SUBSET Jobs : others = Jobs \ {j}
  OBVIOUS
<1>23. js \in [Jobs -> {Idle} \cup Begun] /\ js[j] = mine /\ \A k \in others : js[k] = jobs[k]
  BY <1>6, <1>10, <1>18, <1>22
<1>24. \A k \in Jobs \ others : js[k] # Idle =>
         Fits(js[k], shop, Len(tickets)) /\ Current(js[k], listed', stock')
  BY <1>1, <1>9, <1>19, <1>20, <1>22, <1>23
<1>25. PICK these : these = DOMAIN tickets
  OBVIOUS
<1>26. PICK ts \in Seq(Upload) : ts = tickets /\ Len(tickets) <= Len(ts)
  BY <1>10
<1>27. \A t \in DOMAIN ts : IF t \in these THEN t \in DOMAIN tickets /\ ts[t] = tickets[t]
         ELSE CarriedOut(ts[t], listed', stock')
  BY <1>25, <1>26
<1>28. stock' \in [Products -> Int] /\ listed' \in [Listed -> Int]
  BY <1>1, <1>9, <1>10, <1>12
<1> QED BY <1>1, <1>7, <1>21, <1>22, <1>23, <1>24, <1>25, <1>26, <1>27, <1>28, MarketMoves

-----------------------------------------------------------------------------
(* The rest of the world stirs every job and every upload it is about.     *)
LEMMA OthersMove ==
  ASSUME SyncInvariant, shop' = shop, NEW disturbed \in SUBSET Listed,
         stock' \in [Products -> Int], listed' \in [Listed -> Int],
         Kept(disturbed, listed, stock, listed', stock'),
         jobs' = Stir(jobs, Jobs, disturbed),
         tickets' = StirTickets(tickets, DOMAIN tickets, disturbed)
  PROVE  SyncInvariant'
<1>1. PICK js \in [Jobs -> {Idle} \cup Begun] : js = jobs
  BY DEF SyncInvariant, MarketTyped
<1>2. PICK ts \in Seq(Upload) : ts = tickets /\ Len(tickets) <= Len(ts)
  BY DEF SyncInvariant, MarketTyped
<1>3. PICK these : these = DOMAIN tickets
  OBVIOUS
<1>4. PICK others \in SUBSET Jobs : others = Jobs
  OBVIOUS
<1>5. \A t \in DOMAIN ts : IF t \in these THEN t \in DOMAIN tickets /\ ts[t] = tickets[t]
        ELSE CarriedOut(ts[t], listed', stock')
  BY <1>2, <1>3
<1>6. \A k \in Jobs \ others : js[k] # Idle =>
        Fits(js[k], shop, Len(ts)) /\ Current(js[k], listed', stock')
  BY <1>4
<1> QED BY <1>1, <1>2, <1>3, <1>4, <1>5, <1>6, MarketMoves

LEMMA SellKeeps ==
  ASSUME SyncInvariant, NEW i \in Listed, Sell(i)
  PROVE  SyncInvariant'
<1>1. stock \in [Products -> Int] /\ listed \in [Listed -> Int]
  BY DEF SyncInvariant, MarketTyped
<1>2. /\ shop' = shop /\ stock' = stock /\ listed' = [listed EXCEPT ![i] = @ - 1]
      /\ jobs' = Stir(jobs, Jobs, {i}) /\ tickets' = StirTickets(tickets, DOMAIN tickets, {i})
  BY DEF Sell
<1>3. PICK disturbed \in SUBSET Listed : disturbed = {i}
  OBVIOUS
<1>4. Kept(disturbed, listed, stock, listed', stock')
  BY <1>1, <1>2, <1>3 DEF Kept
<1>5. stock' \in [Products -> Int] /\ listed' \in [Listed -> Int]
  BY <1>1, <1>2
<1> QED BY <1>2, <1>3, <1>4, <1>5, OthersMove

LEMMA ShipKeeps ==
  ASSUME SyncInvariant, NEW p \in Products, Ship(p)
  PROVE  SyncInvariant'
<1>1. stock \in [Products -> Int] /\ listed \in [Listed -> Int]
  BY DEF SyncInvariant, MarketTyped
<1>2. PICK disturbed \in SUBSET Listed : disturbed = ListedOf({p})
  BY DEF ListedOf
<1>3. /\ shop' = shop /\ listed' = listed /\ stock' = [stock EXCEPT ![p] = @ - 1]
      /\ jobs' = Stir(jobs, Jobs, disturbed)
      /\ tickets' = StirTickets(tickets, DOMAIN tickets, disturbed)
  BY <1>2 DEF Ship
<1>4. Kept(disturbed, listed, stock, listed', stock')
  <2>1. ASSUME NEW i \in Listed \ disturbed, Of(i) # None PROVE stock'[Of(i)] = stock[Of(i)]
    <3>1. Of(i) # p /\ Of(i) \in Products
      BY <1>2, <2>1, OfKnown DEF ListedOf
    <3> QED BY <1>1, <1>3, <3>1
  <2> QED BY <1>3, <2>1 DEF Kept
<1>5. stock' \in [Products -> Int] /\ listed' \in [Listed -> Int]
  BY <1>1, <1>3
<1> QED BY <1>3, <1>4, <1>5, OthersMove

LEMMA ProcessKeeps ==
  ASSUME SyncInvariant, NEW t \in DOMAIN tickets, Process(t)
  PROVE  SyncInvariant'
<1>1. /\ MarketTyped /\ MarketInv /\ shop' = shop /\ stock' = stock
      /\ tickets[t].status = "PROCESSING"
  BY DEF SyncInvariant, Process
<1>2. /\ jobs \in [Jobs -> {Idle} \cup Begun] /\ tickets \in Seq(Upload)
      /\ stock \in [Products -> Int] /\ listed \in [Listed -> Int] /\ Len(tickets) \in Nat
      /\ \A k \in DOMAIN tickets : CarriedOut(tickets[k], listed, stock)
  BY <1>1 DEF MarketTyped, MarketInv
<1>3. PICK old \in Upload : old = tickets[t]
  BY <1>2
<1>4. CarriedOut(old, listed, stock) /\ old.status = "PROCESSING"
  BY <1>1, <1>2, <1>3
<1>5. PICK disturbed : disturbed = ListedIn(old.items)
  OBVIOUS
<1>6. old.items \in Seq(Entry) /\ \A m \in DOMAIN old.items : Sends(old.items[m], old.stirred, stock)
  BY <1>4 DEF CarriedOut, Upload
<1>7. /\ disturbed \in SUBSET Listed /\ Sets(old.items) \in [Listed -> Int]
      /\ \A i \in Listed \ disturbed : Sets(old.items)[i] = listed[i]
      /\ \A m \in DOMAIN old.items : old.items[m].listing \notin old.stirred =>
           Sets(old.items)[old.items[m].listing] = old.items[m].here
  BY <1>1, <1>5, <1>6, SetsBatch
<1>8. CASE /\ listed' = Sets(tickets[t].items)
           /\ tickets' = StirTickets([tickets EXCEPT ![t].status = "DONE"],
                                     DOMAIN tickets \ {t}, disturbed)
           /\ jobs' = Stir(jobs, Jobs, disturbed)
  <2>1. PICK new : new = [old EXCEPT !.status = "DONE"]
    OBVIOUS
  <2>2. /\ new \in Upload /\ new.items = old.items /\ new.status = "DONE"
        /\ new.stirred = old.stirred /\ new.told = old.told
    BY <2>1 DEF Upload
  <2>3. PICK seen : seen = Sets(old.items)
    OBVIOUS
  <2>4. CarriedOut(new, seen, stock)
    BY <1>6, <1>7, <2>2, <2>3 DEF CarriedOut
  <2>5. PICK ts : ts = [tickets EXCEPT ![t] = new]
    OBVIOUS
  <2>6. ts = [tickets EXCEPT ![t].status = "DONE"]
    BY <1>3, <2>1, <2>5
  <2>7. /\ ts \in Seq(Upload) /\ Len(ts) = Len(tickets) /\ DOMAIN ts = DOMAIN tickets
        /\ ts[t] = new /\ \A k \in DOMAIN tickets \ {t} : ts[k] = tickets[k]
    BY <1>2, <2>2, <2>5
  <2>8. PICK these : these = DOMAIN tickets \ {t}
    OBVIOUS
  <2>9. /\ jobs' = Stir(jobs, Jobs, disturbed) /\ tickets' = StirTickets(ts, these, disturbed)
        /\ listed' = seen
    BY <1>3, <1>8, <2>3, <2>6, <2>8
  <2>10. \A k \in DOMAIN ts : IF k \in these THEN k \in DOMAIN tickets /\ ts[k] = tickets[k]
           ELSE CarriedOut(ts[k], listed', stock')
    BY <1>1, <2>4, <2>7, <2>8, <2>9
  <2>11. PICK js \in [Jobs -> {Idle} \cup Begun] : js = jobs
    BY <1>2
  <2>12. PICK others \in SUBSET Jobs : others = Jobs
    OBVIOUS
  <2>13. \A k \in Jobs \ others : js[k] # Idle =>
           Fits(js[k], shop, Len(ts)) /\ Current(js[k], listed', stock')
    BY <2>12
  <2>14. Kept(disturbed, listed, stock, listed', stock')
    BY <1>1, <1>7, <2>3, <2>9, SetsKept
  <2>15. stock' \in [Products -> Int] /\ listed' \in [Listed -> Int]
    BY <1>1, <1>2, <1>7, <2>3, <2>9
  <2>16. Len(tickets) <= Len(ts)
    BY <1>2, <2>7
  <2>17. \A k \in others : js[k] = jobs[k]
    BY <2>11
  <2>18. jobs' = Stir(js, others, disturbed)
    BY <2>9, <2>11, <2>12
  <2>19. PICK moved \in SUBSET Listed : moved = disturbed
    BY <1>7
  <2> QED BY <1>1, <2>7, <2>9, <2>10, <2>11, <2>13, <2>14, <2>15, <2>16, <2>17, <2>18, <2>19,
             MarketMoves
<1>9. CASE tickets' = [tickets EXCEPT ![t].status = "FAILED"] /\ UNCHANGED <<listed, jobs>>
  <2>1. PICK new : new = [old EXCEPT !.status = "FAILED"]
    OBVIOUS
  <2>2. /\ new \in Upload /\ new.items = old.items /\ new.status = "FAILED"
        /\ new.stirred = old.stirred /\ new.told = old.told
    BY <2>1 DEF Upload
  <2>3. CarriedOut(new, listed, stock)
    BY <1>4, <2>2 DEF CarriedOut
  <2>4. tickets' = [tickets EXCEPT ![t] = new]
    BY <1>3, <1>9, <2>1
  <2>5. /\ tickets' \in Seq(Upload) /\ Len(tickets') = Len(tickets)
        /\ \A k \in DOMAIN tickets' :
             tickets'[k] = new \/ (k \in DOMAIN tickets /\ tickets'[k] = tickets[k])
    BY <1>2, <2>2, <2>4
  <2>6. MarketTyped'
    BY <1>1, <1>9, <2>5 DEF MarketTyped
  <2>7. MarketInv'
    BY <1>1, <1>9, <2>3, <2>5, SameMarket DEF MarketInv
  <2> QED BY <2>6, <2>7 DEF SyncInvariant
<1> QED BY <1>3, <1>5, <1>8, <1>9 DEF Process, ListedIn

-----------------------------------------------------------------------------
LEMMA SyncInit == MarketInit => SyncInvariant
<1> SUFFICES ASSUME MarketInit PROVE SyncInvariant
  OBVIOUS
<1>1. /\ shop \in Shops /\ stock \in [Products -> Int] /\ listed \in [Listed -> Int]
      /\ tickets = <<>> /\ \A j \in Jobs : jobs[j] = Idle
      /\ jobs \in [Jobs -> {Idle} \cup Begun]
  BY ShopAssumption DEF MarketInit
<1>2. tickets \in Seq(Upload) /\ DOMAIN tickets = {}
  BY <1>1
<1> QED BY <1>1, <1>2 DEF SyncInvariant, MarketTyped, MarketInv

LEMMA SyncStep ==
  ASSUME SyncInvariant, [MarketNext]_marketVars
  PROVE  SyncInvariant'
<1>1. CASE UNCHANGED marketVars
  BY <1>1, WorldStands DEF marketVars, world
<1>2. ASSUME NEW j \in Jobs,
             \/ Push(j) \/ Pull(j) \/ Resolve(j) \/ RunReconciliation(j) \/ GetOrders(j)
             \/ PollAllPendingTickets(j) \/ Ask(j) \/ GetToken(j) \/ Attempt(j) \/ Apply(j)
      PROVE  SyncInvariant'
  <2>1. CASE Push(j) \/ Pull(j) \/ Resolve(j) \/ RunReconciliation(j) \/ GetOrders(j)
    BY <2>1, PushKeeps, PullKeeps, ResolveKeeps, ReconciliationKeeps, GetOrdersKeeps
  <2>2. CASE PollAllPendingTickets(j) \/ Ask(j) \/ GetToken(j) \/ Attempt(j) \/ Apply(j)
    BY <2>2, PollKeeps, AskKeeps, GetTokenKeeps, AttemptKeeps, ApplyKeeps
  <2> QED BY <1>2, <2>1, <2>2
<1>3. CASE (\E i \in Listed : Sell(i)) \/ (\E p \in Products : Ship(p))
           \/ (\E t \in DOMAIN tickets : Process(t))
  BY <1>3, SellKeeps, ShipKeeps, ProcessKeeps
<1>4. CASE Cool \/ TokenEnds
  <2>1. UNCHANGED <<shop, stock, listed, tickets, jobs>>
    BY <1>4 DEF Cool, TokenEnds, world
  <2> QED BY <2>1, WorldStands
<1> QED BY <1>1, <1>2, <1>3, <1>4 DEF MarketNext

(* For any catalogue, listings, jobs and batches, whatever requests fail,  *)
(* are lost or are declined, however often they are tried, and whenever    *)
(* the marketplace sells: what a job reports as settled agrees unless      *)
(* somebody else changed it since or the marketplace did not do what it    *)
(* answered it did, and what a reconciliation only notes still differs by  *)
(* what it noted.                                                          *)
THEOREM SettledListingsAgree == MarketSpec => []SettledAgrees
<1>1. MarketInit => SyncInvariant
  BY SyncInit
<1>2. SyncInvariant /\ [MarketNext]_marketVars => SyncInvariant'
  BY SyncStep
<1>3. SyncInvariant => SettledAgrees
  <2> SUFFICES ASSUME SyncInvariant PROVE SettledAgrees
    OBVIOUS
  <2>1. MarketTyped /\ MarketInv
    BY DEF SyncInvariant
  <2>2. ASSUME NEW j \in Jobs, jobs[j].stage = "end"
        PROVE  /\ \A i \in jobs[j].settled \ (jobs[j].stirred \cup jobs[j].declined) :
                    (jobs[j].adj = <<>> \/ Alone(i)) => listed[i] = stock[Of(i)]
               /\ \A a \in jobs[j].noted :
                    a.listing \notin jobs[j].stirred => listed[a.listing] = stock[a.product] + a.change
    <3>1. Current(jobs[j], listed, stock)
      BY <2>2, AtWork
    <3> QED BY <3>1 DEF Current, Adjusts
  <2>3. ASSUME NEW t \in DOMAIN tickets, tickets[t].told = "SUCCESS",
               NEW e \in ToSet(tickets[t].items), e.listing \notin tickets[t].stirred
        PROVE  listed[e.listing] = stock[Of(e.listing)]
    <3>1. PICK x \in Upload : x = tickets[t]
      BY <2>1 DEF MarketTyped
    <3>2. CarriedOut(x, listed, stock) /\ x.told = "SUCCESS"
      BY <2>1, <2>3, <3>1 DEF MarketInv
    <3>3. PICK n \in DOMAIN x.items : e = x.items[n]
      BY <2>3, <3>1 DEF ToSet
    <3> QED BY <2>3, <3>1, <3>2, <3>3 DEF CarriedOut, Sends
  <2> QED BY <2>2, <2>3 DEF SettledAgrees
<1> QED BY <1>1, <1>2, <1>3, PTL DEF MarketSpec

(***************************************************************************)
(* The breaker.                                                            *)
(***************************************************************************)
LEMMA OneMoreEnds ==
  ASSUME NEW b \in Breaker, NEW ends \in Seq(Requests), NEW rested,
         Remembers(b, ends, rested), NEW outcome \in Requests,
         NEW next, next = IF outcome = "done" THEN OnSuccess(b) ELSE OnFailure(b),
         NEW after, after = LET all == Append(ends, outcome)
                            IN  IF Len(all) > Threshold THEN Tail(all) ELSE all,
         NEW still, still <=> rested /\ outcome # "failed"
  PROVE  next \in Breaker /\ after \in Seq(Requests) /\ Remembers(next, after, still)
<1>1. PICK L \in Nat : L = Len(ends) /\ L <= Threshold
  BY DEF Remembers
<1>2. PICK T \in Nat : T = Threshold /\ T >= 1
  BY LimitAssumption
<1>3. PICK s \in Nat : (s = 0 \/ s = 1) /\ (s = 1 <=> L = T)
  <2>1. CASE L = T
    BY <2>1
  <2>2. CASE L # T
    BY <2>2
  <2> QED BY <2>1, <2>2
<1>4. PICK f \in Nat : f = b.failures
  BY DEF Breaker
<1>5. PICK all : all = Append(ends, outcome)
  OBVIOUS
<1>6. /\ all \in Seq(Requests) /\ Len(all) = L + 1
      /\ \A n \in 1 .. L : all[n] = ends[n]
      /\ all[L + 1] = outcome
  BY <1>1, <1>5
<1>7. after = IF L + 1 > T THEN Tail(all) ELSE all
  BY <1>2, <1>5, <1>6
<1>8. /\ after \in Seq(Requests) /\ Len(after) = L + 1 - s
      /\ \A n \in 1 .. (L + 1 - s) : after[n] = all[n + s]
  <2>1. CASE s = 1
    <3>1. after = Tail(all) /\ all # <<>>
      BY <1>1, <1>2, <1>3, <1>6, <1>7, <2>1
    <3>2. after \in Seq(Requests) /\ Len(after) = Len(all) - 1
          /\ \A n \in 1 .. (Len(all) - 1) : after[n] = all[n + 1]
      <4>1. \A x \in Seq(Requests) : x # <<>> =>
              /\ Tail(x) \in Seq(Requests) /\ Len(Tail(x)) = Len(x) - 1
              /\ \A n \in 1 .. (Len(x) - 1) : Tail(x)[n] = x[n + 1]
        OBVIOUS
      <4> QED BY <1>6, <3>1, <4>1
    <3> QED BY <1>6, <2>1, <3>2
  <2>2. CASE s = 0
    <3>1. after = all
      BY <1>1, <1>2, <1>3, <1>7, <2>2
    <3>2. L + 1 - s = L + 1 /\ \A n \in 1 .. (L + 1) : n + s = n
      BY <2>2
    <3> QED BY <1>6, <3>1, <3>2
  <2> QED BY <1>3, <2>1, <2>2
<1>9. \A n \in 1 .. (L + 1 - s) : after[n] = IF n + s = L + 1 THEN outcome ELSE ends[n + s]
  BY <1>6, <1>8
<1>10. Len(after) <= Threshold
  BY <1>1, <1>2, <1>3, <1>8
<1>11. DOMAIN after = 1 .. (L + 1 - s) /\ DOMAIN ends = 1 .. L
  BY <1>1, <1>8
<1>12. CASE outcome = "done"
  <2>1. /\ next = [b EXCEPT !.failures = 0, !.state = "CLOSED"]
        /\ next \in Breaker /\ next.failures = 0 /\ next.state = "CLOSED"
    BY <1>12 DEF OnSuccess, Breaker
  <2>2. InARow(after, 0)
    BY <1>8, <1>11 DEF InARow
  <2>3. after[Len(after)] = "done"
    BY <1>2, <1>3, <1>8, <1>9, <1>12
  <2>4. ~ (next.failures >= Threshold) /\ next.failures <= Len(after)
    BY <1>2, <1>3, <1>8, <2>1
  <2>5. Len(after) - 0 = Len(after)
    BY <1>8
  <2> QED BY <1>8, <1>10, <2>1, <2>2, <2>3, <2>4, <2>5 DEF Remembers
<1>13. CASE outcome = "failed"
  <2>1. next = [state |-> IF f + 1 >= T THEN "OPEN" ELSE b.state,
                failures |-> f + 1, cooled |-> FALSE]
    BY <1>2, <1>4, <1>13 DEF OnFailure
  <2>2. /\ next \in Breaker /\ next.failures = f + 1 /\ next.cooled = FALSE
        /\ next.state = IF f + 1 >= T THEN "OPEN" ELSE b.state
    <3>1. b.state \in {"CLOSED", "OPEN", "HALF_OPEN"} /\ f + 1 \in Nat
      BY DEF Breaker
    <3>2. PICK state \in {"CLOSED", "OPEN", "HALF_OPEN"} :
            state = IF f + 1 >= T THEN "OPEN" ELSE b.state
      BY <3>1
    <3>3. next = [state |-> state, failures |-> f + 1, cooled |-> FALSE]
      BY <2>1, <3>2
    <3>4. next \in Breaker
      <4>1. PICK cooled \in BOOLEAN : cooled = FALSE
        OBVIOUS
      <4>2. next = [state |-> state, failures |-> f + 1, cooled |-> cooled]
        BY <3>3, <4>1
      <4> QED BY <3>1, <4>2 DEF Breaker
    <3>5. next.failures = f + 1 /\ next.state = state
      BY <3>3
    <3>6. next.cooled = FALSE
      BY <3>3
    <3> QED BY <3>2, <3>4, <3>5, <3>6
  <2>3. CASE f + 1 >= T
    <3>1. /\ T - 1 <= L
          /\ \A n \in 1 .. L : n > L - (T - 1) => ends[n] = "failed"
      <4>1. CASE f >= T
        <5>1. L = T /\ InARow(ends, T)
          BY <1>1, <1>2, <1>4, <4>1 DEF Remembers
        <5> QED BY <1>1, <1>11, <5>1 DEF InARow
      <4>2. CASE f = T - 1
        <5>1. ~ (b.failures >= Threshold)
          BY <1>2, <1>4, <4>2
        <5>2. f <= L /\ InARow(ends, f)
          BY <1>1, <1>4, <5>1 DEF Remembers
        <5> QED BY <1>1, <1>11, <4>2, <5>2 DEF InARow
      <4> QED BY <2>3, <4>1, <4>2
    <3>2. Len(after) = T
      BY <1>1, <1>2, <1>3, <1>8, <3>1
    <3>3. \A n \in 1 .. T : after[n] = "failed"
      <4> TAKE n \in 1 .. T
      <4>1. n \in 1 .. (L + 1 - s)
        BY <1>8, <3>2
      <4>2. CASE n + s = L + 1
        BY <1>9, <1>13, <4>1, <4>2
      <4>3. CASE n + s # L + 1
        <5>1. n + s \in 1 .. L /\ n + s > L - (T - 1)
          <6>1. T = L + 1 - s
            BY <1>8, <3>2
          <6>2. L - (T - 1) = s
            BY <6>1
          <6> QED BY <4>1, <4>3, <6>2
        <5> QED BY <1>9, <3>1, <4>1, <4>3, <5>1
      <4> QED BY <4>2, <4>3
    <3>4. InARow(after, Threshold)
      BY <1>8, <1>11, <3>2, <3>3 DEF InARow
    <3>5. next.failures >= Threshold /\ next.state = "OPEN"
      BY <1>2, <2>2, <2>3
    <3>6. ~ still
      BY <1>13
    <3> QED BY <1>2, <1>8, <1>10, <2>2, <3>2, <3>4, <3>5, <3>6 DEF Remembers
  <2>4. CASE f + 1 < T
    <3>1. ~ (b.failures >= Threshold)
      BY <1>2, <1>4, <2>4
    <3>2. /\ b.state = "CLOSED" /\ f <= L /\ InARow(ends, f)
          /\ f < L => ends[L - f] = "done"
      BY <1>1, <1>4, <3>1 DEF Remembers
    <3>3. f + 1 <= L + 1 - s
      BY <1>3, <2>4, <3>2
    <3>4. InARow(after, f + 1)
      <4> SUFFICES ASSUME NEW n \in 1 .. (L + 1 - s), n > L + 1 - s - (f + 1)
                   PROVE  after[n] = "failed"
        BY <1>8, <1>11 DEF InARow
      <4>1. CASE n + s = L + 1
        BY <1>9, <1>13, <4>1
      <4>2. CASE n + s # L + 1
        <5>1. n + s \in 1 .. L /\ n + s > L - f
          BY <1>3, <4>2
        <5> QED BY <1>1, <1>9, <1>11, <3>2, <4>2, <5>1 DEF InARow
      <4> QED BY <4>1, <4>2
    <3>5. f + 1 < L + 1 - s => after[L + 1 - s - (f + 1)] = "done"
      <4> SUFFICES ASSUME f + 1 < L + 1 - s PROVE after[L + 1 - s - (f + 1)] = "done"
        OBVIOUS
      <4>1. PICK n \in 1 .. (L + 1 - s) : n = L + 1 - s - (f + 1)
        BY <1>3
      <4>2. n + s = L - f /\ f < L /\ n + s # L + 1
        BY <1>3, <4>1
      <4> QED BY <1>9, <3>2, <4>1, <4>2
    <3>6. next.state = "CLOSED" /\ ~ (next.failures >= Threshold)
      BY <1>2, <2>2, <2>4, <3>2
    <3>7. PICK m \in Nat : m = L + 1 - s /\ m = Len(after)
      BY <1>3, <1>8
    <3>8. /\ next.failures <= m /\ InARow(after, next.failures)
          /\ next.failures < m => after[m - next.failures] = "done"
      BY <2>2, <3>3, <3>4, <3>5, <3>7
    <3> QED BY <1>8, <1>10, <2>2, <3>6, <3>7, <3>8 DEF Remembers
  <2> QED BY <1>2, <1>8, <2>2, <2>3, <2>4
<1> QED BY <1>12, <1>13 DEF Requests

LEMMA BreakerInit == MarketInit => BreakerInv
<1> SUFFICES ASSUME MarketInit PROVE BreakerInv
  OBVIOUS
<1>1. breaker = Closed /\ recent = <<>> /\ waited = FALSE /\ news = 0
  BY DEF MarketInit
<1>2. breaker \in Breaker /\ breaker.failures = 0 /\ breaker.state = "CLOSED"
  BY <1>1 DEF Closed, Breaker
<1>3. recent \in Seq(Requests) /\ Len(recent) = 0 /\ DOMAIN recent = {}
  BY <1>1
<1>4. Remembers(breaker, recent, waited)
  BY <1>2, <1>3, LimitAssumption DEF Remembers, InARow
<1> QED BY <1>1, <1>2, <1>3, <1>4 DEF BreakerInv

LEMMA BreakerStep ==
  ASSUME MarketTyped, BreakerInv, [MarketNext]_marketVars
  PROVE  BreakerInv'
<1>1. CASE UNCHANGED <<breaker, recent, waited>> /\ news' \in Nat
  BY <1>1 DEF BreakerInv
<1>2. ASSUME NEW j \in Jobs, Ask(j) PROVE BreakerInv'
  <2>1. breaker' = GetCircuitState(breaker) /\ UNCHANGED <<recent, waited, news>>
    BY <1>2 DEF Ask, history
  <2>2. CASE breaker.state = "OPEN" /\ breaker.cooled
    <3>1. breaker' = [breaker EXCEPT !.state = "HALF_OPEN"]
      BY <2>1, <2>2 DEF GetCircuitState
    <3>2. /\ breaker' \in Breaker /\ breaker'.state = "HALF_OPEN"
          /\ breaker'.failures = breaker.failures
      BY <3>1 DEF BreakerInv, Breaker
    <3>3. breaker.failures >= Threshold /\ waited
      BY <2>2 DEF BreakerInv, Remembers
    <3>4. Remembers(breaker', recent, waited)
      BY <3>2, <3>3 DEF BreakerInv, Remembers
    <3> QED BY <2>1, <3>2, <3>4 DEF BreakerInv
  <2>3. CASE ~ (breaker.state = "OPEN" /\ breaker.cooled)
    <3>1. breaker' = breaker
      BY <2>1, <2>3 DEF GetCircuitState
    <3> QED BY <1>1, <2>1, <3>1 DEF BreakerInv
  <2> QED BY <2>2, <2>3
<1>3. ASSUME NEW j \in Jobs, Attempt(j) PROVE BreakerInv'
  <2>1. PICK answer \in Answers :
          LET outcome == Outcome(jobs[j], answer)
          IN  /\ breaker' = CASE outcome = "done" -> OnSuccess(breaker)
                              [] outcome = "failed" -> OnFailure(breaker)
                              [] OTHER -> breaker
              /\ recent' = IF outcome \in {"again", "uncounted"} THEN recent
                           ELSE LET all == Append(recent, outcome)
                                IN  IF Len(all) > Threshold THEN Tail(all) ELSE all
              /\ waited' = (waited /\ outcome # "failed")
    BY <1>3 DEF Attempt
  <2>2. news' = news
    BY <1>3 DEF Attempt
  <2>3. PICK outcome \in Ends : outcome = Outcome(jobs[j], answer)
    BY Outcomes
  <2>4. CASE outcome \in {"again", "uncounted"}
    <3>1. breaker' = breaker /\ recent' = recent /\ (waited' <=> waited) /\ waited' \in BOOLEAN
      BY <2>1, <2>3, <2>4
    <3>2. waited' = waited
      BY <3>1 DEF BreakerInv
    <3> QED BY <1>1, <2>2, <3>1, <3>2 DEF BreakerInv
  <2>5. CASE outcome \in Requests
    <3>1. breaker' = IF outcome = "done" THEN OnSuccess(breaker) ELSE OnFailure(breaker)
      BY <2>1, <2>3, <2>5 DEF Requests
    <3>2. recent' = LET all == Append(recent, outcome)
                    IN  IF Len(all) > Threshold THEN Tail(all) ELSE all
      BY <2>1, <2>3, <2>5 DEF Requests
    <3>3. waited' = (waited /\ outcome # "failed")
      BY <2>1, <2>3
    <3>4. PICK next, after : next = breaker' /\ after = recent'
      OBVIOUS
    <3>5. /\ breaker \in Breaker /\ recent \in Seq(Requests) /\ waited \in BOOLEAN
          /\ Remembers(breaker, recent, waited)
      BY DEF BreakerInv
    <3>7. PICK b, ends : b = breaker /\ ends = recent
      OBVIOUS
    <3>8. next = IF outcome = "done" THEN OnSuccess(b) ELSE OnFailure(b)
      BY <3>1, <3>4, <3>7
    <3>9. after = LET all == Append(ends, outcome)
                  IN  IF Len(all) > Threshold THEN Tail(all) ELSE all
      BY <3>2, <3>4, <3>7
    <3>10. waited' <=> waited /\ outcome # "failed"
      BY <3>3
    <3>11. /\ next \in Breaker /\ after \in Seq(Requests)
           /\ Remembers(next, after, waited')
      BY <2>5, <3>5, <3>7, <3>8, <3>9, <3>10, OneMoreEnds
    <3>6. waited' \in BOOLEAN
      BY <3>3
    <3> QED BY <2>2, <3>4, <3>6, <3>11 DEF BreakerInv
  <2> QED BY <2>4, <2>5 DEF Requests, Ends
<1>4. CASE Cool
  <2>1. /\ breaker.state = "OPEN" /\ breaker' = [breaker EXCEPT !.cooled = TRUE]
        /\ waited' = TRUE /\ UNCHANGED <<recent, news>>
    BY <1>4 DEF Cool
  <2>2. /\ breaker' \in Breaker /\ breaker'.state = "OPEN" /\ breaker'.cooled
        /\ breaker'.failures = breaker.failures
    BY <2>1 DEF BreakerInv, Breaker
  <2>3. Remembers(breaker', recent, waited')
    BY <2>1, <2>2 DEF BreakerInv, Remembers
  <2> QED BY <2>1, <2>2, <2>3 DEF BreakerInv
<1>5. ASSUME NEW j \in Jobs,
             \/ Push(j) \/ Pull(j) \/ Resolve(j) \/ RunReconciliation(j) \/ GetOrders(j)
             \/ PollAllPendingTickets(j)
      PROVE  BreakerInv'
  <2>1. UNCHANGED <<breaker, recent, waited, news>>
    BY <1>5 DEF Push, Pull, Resolve, RunReconciliation, GetOrders, PollAllPendingTickets, Begin,
                client, history
  <2> QED BY <1>1, <2>1 DEF BreakerInv
<1>6. ASSUME NEW j \in Jobs, GetToken(j) \/ Apply(j) PROVE BreakerInv'
  BY <1>1, <1>6 DEF GetToken, Apply, client, history, BreakerInv
<1>7. ASSUME \/ \E i \in Listed : Sell(i)
             \/ \E p \in Products : Ship(p)
             \/ \E t \in DOMAIN tickets : Process(t)
      PROVE  BreakerInv'
  <2>1. UNCHANGED <<breaker, recent, waited>> /\ (news' = news \/ news' = news + 1)
    <3>1. CASE \E i \in Listed : Sell(i)
      BY <3>1 DEF Sell, client, history
    <3>2. CASE \E p \in Products : Ship(p)
      BY <3>2 DEF Ship, client, history
    <3>3. CASE \E t \in DOMAIN tickets : Process(t)
      BY <3>3 DEF Process, client, history
    <3> QED BY <1>7, <3>1, <3>2, <3>3
  <2> QED BY <1>1, <2>1 DEF BreakerInv
<1>8. CASE TokenEnds \/ UNCHANGED marketVars
  BY <1>1, <1>8 DEF TokenEnds, marketVars, client, history, BreakerInv
<1> QED BY <1>2, <1>3, <1>4, <1>5, <1>6, <1>7, <1>8 DEF MarketNext

LEMMA OthersAsk ==
  ASSUME MarketTyped, NEW j \in Jobs, jobs[j].stage = "ask",
         NEW js, js[j] = jobs[j], NEW others, NEW disturbed,
         jobs' = Stir(js, others, disturbed), jobs'[j].stirred = jobs[j].stirred
  PROVE  jobs'[j] = jobs[j]
<1>1. jobs[j] # Idle
  BY DEF Idle
<1>2. PICK job \in Begun : job = jobs[j]
  BY <1>1 DEF MarketTyped
<1>3. CASE j \in others
  <2>1. jobs'[j] = [job EXCEPT !.stirred = @ \cup disturbed]
    BY <1>1, <1>2, <1>3 DEF Stir
  <2>2. jobs'[j].stirred = job.stirred \cup disturbed
    BY <2>1 DEF Begun
  <2>3. job.stirred \cup disturbed = job.stirred
    BY <1>2, <2>2
  <2>4. [job EXCEPT !.stirred = job.stirred] = job
    BY DEF Begun
  <2> QED BY <1>2, <2>1, <2>3, <2>4
<1>4. CASE j \notin others
  BY <1>4 DEF Stir
<1> QED BY <1>3, <1>4

(* The breaker is open to a request exactly when it should be.             *)
LEMMA OpenExactly ==
  ASSUME BreakerInv
  PROVE  GetCircuitState(breaker).state = "OPEN" <=>
           /\ Len(recent) = Threshold /\ \A n \in DOMAIN recent : recent[n] = "failed"
           /\ ~ waited
<1>1. /\ breaker \in Breaker /\ recent \in Seq(Requests) /\ Remembers(breaker, recent, waited)
      /\ waited \in BOOLEAN
  BY DEF BreakerInv
<1>2. GetCircuitState(breaker).state = "OPEN" <=> breaker.state = "OPEN" /\ ~ breaker.cooled
  BY <1>1 DEF GetCircuitState, Breaker
<1>3. PICK L \in Nat : L = Len(recent) /\ DOMAIN recent = 1 .. L
  BY <1>1
<1>4. PICK f \in Nat : f = breaker.failures
  BY <1>1 DEF Breaker
<1>5. CASE f >= Threshold
  <2>1. /\ L = Threshold /\ InARow(recent, Threshold) /\ breaker.state # "CLOSED"
        /\ breaker.state = "OPEN" => (breaker.cooled <=> waited)
        /\ breaker.state = "HALF_OPEN" => waited
    BY <1>1, <1>3, <1>4, <1>5 DEF Remembers
  <2>2. \A n \in DOMAIN recent : recent[n] = "failed"
    BY <1>3, <2>1 DEF InARow
  <2>3. breaker.state \in {"CLOSED", "OPEN", "HALF_OPEN"}
    BY <1>1 DEF Breaker
  <2> QED BY <1>2, <1>3, <2>1, <2>2, <2>3
<1>6. CASE ~ (f >= Threshold)
  <2>1. breaker.state = "CLOSED" /\ f <= L /\ (f < L => recent[L - f] = "done")
    BY <1>1, <1>3, <1>4, <1>6 DEF Remembers
  <2>2. ASSUME L = Threshold, \A n \in DOMAIN recent : recent[n] = "failed" PROVE FALSE
    <3>1. f < L
      BY <1>6, <2>1, <2>2, LimitAssumption
    <3>2. L - f \in 1 .. L /\ recent[L - f] = "done"
      BY <2>1, <3>1
    <3> QED BY <1>3, <2>2, <3>2
  <2> QED BY <1>2, <1>3, <2>1, <2>2
<1> QED BY <1>5, <1>6

LEMMA RefusedStep ==
  ASSUME SyncInvariant, BreakerInv, MarketNext, NEW j \in Jobs,
         jobs[j].stage = "ask", jobs'[j] # jobs[j], news' = news,
         jobs'[j].stirred = jobs[j].stirred
  PROVE  jobs'[j].stage \in {"token", "try"} <=>
           ~ (/\ Len(recent) = Threshold /\ \A n \in DOMAIN recent : recent[n] = "failed"
              /\ ~ waited)
<1>1. MarketTyped /\ jobs \in [Jobs -> {Idle} \cup Begun]
  BY DEF SyncInvariant, MarketTyped
<1>2. CASE Ask(j)
  <2>1. PICK job \in Begun : job = jobs[j]
    BY <1>2, AtWork
  <2>2. job.stage = "ask" /\ Fits(job, shop, Len(tickets)) /\ Current(job, listed, stock)
    BY <2>1, AtWork
  <2>3. After(job, FALSE).stage \notin {"token", "try"}
    BY <1>1, <2>2, AfterGoesOn
  <2>4. PICK let : let = IF shop = "pazarama" THEN "token" ELSE "try"
    OBVIOUS
  <2>5. PICK passed : passed = [job EXCEPT !.stage = let]
    OBVIOUS
  <2>6. passed.stage \in {"token", "try"}
    BY <2>4, <2>5 DEF Begun
  <2>7. breaker' = GetCircuitState(breaker)
        /\ jobs'[j] = IF breaker'.state = "OPEN" THEN After(job, FALSE) ELSE passed
    BY <1>1, <1>2, <2>1, <2>4, <2>5 DEF Ask
  <2> QED BY <2>3, <2>6, <2>7, OpenExactly
<1>3. ASSUME NEW k \in Jobs, k # j, Ask(k) \/ GetToken(k) PROVE FALSE
  <2>1. CASE Ask(k)
    BY <1>1, <1>3, <2>1 DEF Ask
  <2>2. CASE GetToken(k)
    BY <1>1, <1>3, <2>2 DEF GetToken
  <2> QED BY <1>3, <2>1, <2>2
<1>4. ASSUME NEW k \in Jobs, NEW job, Begin(k, job) PROVE FALSE
  <2>1. jobs[k] = Idle /\ jobs' = [jobs EXCEPT ![k] = job]
    BY <1>4 DEF Begin
  <2>2. k # j
    BY <2>1 DEF Idle
  <2> QED BY <1>1, <2>1, <2>2
<1>5. ASSUME NEW k \in Jobs, Attempt(k) \/ Apply(k) PROVE FALSE
  <2>1. jobs[k].stage \in {"try", "apply"}
    BY <1>5 DEF Attempt, Apply
  <2>2. k # j
    BY <2>1
  <2>3. \E mine, others, disturbed : jobs' = Stir([jobs EXCEPT ![k] = mine], others, disturbed)
    <3>1. CASE Attempt(k)
      <4>1. PICK answer \in Answers :
              LET outcome == Outcome(jobs[k], answer)
                  mine == IF outcome = "again" THEN [jobs[k] EXCEPT !.tries = @ + 1]
                          ELSE After(Told(jobs[k], answer), outcome = "done")
                  disturbed == IF answer \in {"ok", "lost"} /\ Effect(jobs[k].call) = "level"
                             THEN ListedIn(Head(jobs[k].plan)) ELSE {}
              IN  jobs' = Stir([jobs EXCEPT ![k] = mine], Jobs \ {k}, disturbed)
        BY <3>1 DEF Attempt, ListedIn, Told
      <4> QED BY <4>1
    <3>2. CASE Apply(k)
      <4>1. LET mine == [jobs[k] EXCEPT !.stage = "end",
                                        !.settled = @ \cup {a.listing : a \in ToSet(jobs[k].adj)}]
            IN  jobs' = Stir([jobs EXCEPT ![k] = mine], Jobs \ {k},
                             ListedOf({a.product : a \in ToSet(jobs[k].adj)}))
        BY <3>2 DEF Apply
      <4> QED BY <4>1
    <3> QED BY <1>5, <3>1, <3>2
  <2>4. PICK mine, others, disturbed : jobs' = Stir([jobs EXCEPT ![k] = mine], others, disturbed)
    BY <2>3
  <2>5. PICK js : js = [jobs EXCEPT ![k] = mine]
    OBVIOUS
  <2>6. js[j] = jobs[j]
    BY <1>1, <2>2, <2>5
  <2> QED BY <1>1, <2>4, <2>5, <2>6, OthersAsk
<1>6. ASSUME (\E i \in Listed : Sell(i)) \/ (\E p \in Products : Ship(p)) PROVE FALSE
  <2>1. news' = news + 1 /\ news \in Nat
    BY <1>6 DEF Sell, Ship, BreakerInv
  <2> QED BY <2>1
<1>7. ASSUME NEW t \in DOMAIN tickets, Process(t) PROVE FALSE
  <2>1. jobs' = jobs \/ \E disturbed : jobs' = Stir(jobs, Jobs, disturbed)
    BY <1>7 DEF Process
  <2>2. jobs' # jobs
    OBVIOUS
  <2>3. PICK disturbed : jobs' = Stir(jobs, Jobs, disturbed)
    BY <2>1, <2>2
  <2> QED BY <1>1, <2>3, OthersAsk
<1>8. ASSUME NEW k \in Jobs,
             \/ Push(k) \/ Pull(k) \/ Resolve(k) \/ RunReconciliation(k) \/ GetOrders(k)
             \/ PollAllPendingTickets(k)
      PROVE  FALSE
  <2>1. \E job : Begin(k, job)
    BY <1>8 DEF Push, Pull, Resolve, RunReconciliation, GetOrders, PollAllPendingTickets
  <2> QED BY <1>4, <2>1
<1>9. GetToken(j) => FALSE
  BY DEF GetToken
<1>10. Cool \/ TokenEnds => FALSE
  BY DEF Cool, TokenEnds
<1> QED BY <1>2, <1>3, <1>5, <1>6, <1>7, <1>8, <1>9, <1>10 DEF MarketNext

(* For any number of jobs and failures and any threshold: a request is     *)
(* refused unsent exactly when as many as the threshold failed last, of    *)
(* those the client counts, and the reset time has not passed since.       *)
THEOREM BreakerRefusesExactly == MarketSpec => RefusedExactly
<1>1. MarketInit => SyncInvariant /\ BreakerInv
  BY SyncInit, BreakerInit
<1>2. SyncInvariant /\ BreakerInv /\ [MarketNext]_marketVars => (SyncInvariant /\ BreakerInv)'
  BY SyncStep, BreakerStep DEF SyncInvariant
<1>3. SyncInvariant /\ BreakerInv /\ [MarketNext]_marketVars =>
        [\A j \in Jobs :
           jobs[j].stage = "ask" /\ jobs'[j] # jobs[j] /\ news' = news
             /\ jobs'[j].stirred = jobs[j].stirred
           => (jobs'[j].stage \in {"token", "try"}
               <=> ~(/\ Len(recent) = Threshold /\ \A n \in DOMAIN recent : recent[n] = "failed"
                     /\ ~waited))]_marketVars
  BY RefusedStep
<1> QED BY <1>1, <1>2, <1>3, PTL DEF MarketSpec, RefusedExactly
=============================================================================
