------------------------ MODULE StockReconciliation ------------------------
(***************************************************************************)
(* The three writers of the stock tables of one database: the API, which   *)
(* posts to the ledger and to the balance rows in one transaction; the     *)
(* server actions of the web application, which post to the ledger only;   *)
(* and the API's reconciliation, which compares the two and, with autoFix, *)
(* overwrites the balance rows.                                            *)
(*                                                                         *)
(* An API posting is one step here: StockTransactions shows that its       *)
(* transactions change the tables as StockBook does.  The web handlers and *)
(* the reconciliation take no row lock between their queries, so each of   *)
(* their queries is a step of its own.                                     *)
(***************************************************************************)
EXTENDS Integers, FiniteSets

CONSTANTS Api, Web, Run,   \* requests: API postings, web postings, reconciliations
          Key,             \* tuples (product, warehouse)
          Stocked,         \* the tuples with a balance row at the start
          Opening,         \* the stock at the start, by tuple
          Quantity         \* the quantities a posting may name

ASSUME RequestAssumption ==
  /\ Api \cap (Web \cup Run) = {}
  /\ Web \cap Run = {}
ASSUME StockAssumption ==
  /\ Stocked \subseteq Key
  /\ Opening \in [Key -> Nat]
  /\ \A k \in Key \ Stocked : Opening[k] = 0
  /\ Quantity \subseteq Nat \ {0}

VARIABLES balance,   \* the StockBalance rows, by tuple
          ledger,    \* sum of the StockMovement rows of each tuple
          pc,        \* where each request is
          posting,   \* the changes a web request has checked
          fixes,     \* whether a reconciliation runs with autoFix
          sums,      \* the ledger sums it has read
          rows,      \* the tuples whose balance row it has read
          todo,      \* the mismatches it has not handled yet
          touched    \* history: the tuples others wrote since it read the ledger

snapshots == <<fixes, sums, rows, todo>>
vars == <<balance, ledger, pc, posting, fixes, sums, rows, todo, touched>>

Row == [onHand : Int, reserved : Int, available : Int]
Change == [Key -> Int]
Request == Api \cup Web \cup Run

TypeOK ==
  /\ \E S \in SUBSET Key : Stocked \subseteq S /\ balance \in [S -> Row]
  /\ ledger \in Change
  /\ pc \in [Request -> {"new", "checked", "summed", "repair", "done", "error", "crashed"}]
  /\ posting \in [Web -> Change]
  /\ fixes \in [Run -> BOOLEAN]
  /\ sums \in [Run -> Change]
  /\ rows \in [Run -> SUBSET Key]
  /\ todo \in [Run -> SUBSET Key]
  /\ touched \in [Run -> SUBSET Key]

NoChange == [k \in Key |-> 0]

Init ==
  /\ balance = [k \in Stocked |-> [onHand |-> Opening[k], reserved |-> 0,
                                   available |-> Opening[k]]]
  /\ ledger = Opening
  /\ pc = [p \in Request |-> "new"]
  /\ posting = [w \in Web |-> NoChange]
  /\ fixes = [r \in Run |-> FALSE]
  /\ sums = [r \in Run |-> NoChange]
  /\ rows = [r \in Run |-> {}]
  /\ todo = [r \in Run |-> {}]
  /\ touched = [r \in Run |-> {}]

-----------------------------------------------------------------------------
(* What a request posts: a movement, or a transfer between two warehouses. *)

Movement(k, q) == [NoChange EXCEPT ![k] = q]
Transfer(from, to, q) == [k \in Key |-> IF k = from THEN -q ELSE IF k = to THEN q ELSE 0]

Changes ==
  {Movement(k, q) : k \in Key, q \in Quantity \cup {-x : x \in Quantity}}
    \cup {Transfer(x[1], x[2], x[3]) : x \in {y \in Key \X Key \X Quantity : y[1] # y[2]}}

Named(change) == {k \in Key : change[k] # 0}

Add(change) == ledger' = [k \in Key |-> ledger[k] + change[k]]

(* Every reconciliation but r has from now on an old view of the tuples S. *)
Touch(S, r) == touched' = [s \in Run |-> IF s = r THEN touched[s] ELSE touched[s] \cup S]

Finish(p, outcome) == pc' = [pc EXCEPT ![p] = outcome]

-----------------------------------------------------------------------------
(* apps/api: the movements and the balance rows in one transaction.  A     *)
(* sale also reserves what it takes; a stocktake is not probed.            *)

RowOf(k) == IF k \in DOMAIN balance THEN balance[k]
            ELSE [onHand |-> 0, reserved |-> 0, available |-> 0]

Adjusted(r, delta, hold) ==
  [onHand |-> r.onHand + delta, reserved |-> r.reserved + hold,
   available |-> (r.onHand + delta) - (r.reserved + hold)]

ApiPost(a) ==
  /\ pc[a] = "new"
  /\ \E change \in Changes, kind \in {"movement", "sale", "stocktake"} :
       /\ kind = "sale" => \A k \in Named(change) : change[k] < 0
       /\ kind # "stocktake" => \A k \in Named(change) :
                                 change[k] < 0 => RowOf(k).available >= -change[k]
       /\ Add(change)
       /\ balance' = [k \in DOMAIN balance \cup Named(change) |->
                        IF k \in Named(change)
                        THEN Adjusted(RowOf(k), change[k],
                                      IF kind = "sale" THEN -change[k] ELSE 0)
                        ELSE balance[k]]
       /\ Touch(Named(change), a)
  /\ Finish(a, "done")
  /\ UNCHANGED <<posting, snapshots>>

-----------------------------------------------------------------------------
(* apps/web: sum the movements of the tuples to take from                  *)
(* (assertEnoughStock), then insert movements.  No balance row is written. *)

WebCheck(w) ==
  /\ pc[w] = "new"
  /\ \E change \in Changes :
       /\ \A k \in Named(change) : change[k] < 0 => ledger[k] >= -change[k]
       /\ posting' = [posting EXCEPT ![w] = change]
  /\ Finish(w, "checked")
  /\ UNCHANGED <<balance, ledger, snapshots, touched>>

WebPost(w) ==
  /\ pc[w] = "checked"
  /\ Add(posting[w])
  /\ Touch(Named(posting[w]), w)
  /\ Finish(w, "done")
  /\ UNCHANGED <<balance, posting, snapshots>>

-----------------------------------------------------------------------------
(* runReconciliation.  A tuple without a row counts as zero on hand, one   *)
(* without movements as a ledger total of zero.                            *)

LedgerTotals == ledger

ReadLedger(r) ==
  /\ pc[r] = "new"
  /\ \E fix \in BOOLEAN : fixes' = [fixes EXCEPT ![r] = fix]
  /\ sums' = [sums EXCEPT ![r] = LedgerTotals]
  /\ touched' = [touched EXCEPT ![r] = {}]
  /\ Finish(r, "summed")
  /\ UNCHANGED <<balance, ledger, posting, rows, todo>>

OnHand(k) == RowOf(k).onHand

ReadBalances(r) ==
  /\ pc[r] = "summed"
  /\ rows' = [rows EXCEPT ![r] = DOMAIN balance]
  /\ todo' = [todo EXCEPT ![r] = {k \in Key : sums[r][k] # OnHand(k)}]
  /\ Finish(r, "repair")
  /\ UNCHANGED <<balance, ledger, posting, fixes, sums, touched>>

(* Mutant: "available" is set to the ledger total, as in the branch that   *)
(* inserts a row.                                                          *)
ForgetReserved(r, total) == [onHand |-> total, reserved |-> r.reserved, available |-> total]

(* UPDATE ... SET "onHand" = $1, "available" = $1 - "reserved"             *)
Overwritten(r, total) ==
  [onHand |-> total, reserved |-> r.reserved, available |-> total - r.reserved]

(* Mutant: the difference is applied to the row instead of the total.      *)
RepairByDelta(r) ==
  /\ pc[r] = "repair" /\ fixes[r]
  /\ \E k \in todo[r] \cap rows[r] :
       /\ balance' = [balance EXCEPT ![k] = Overwritten(@, sums[r][k] - @.onHand)]
       /\ todo' = [todo EXCEPT ![r] = @ \ {k}]
       /\ Touch({k}, r)
  /\ UNCHANGED <<ledger, pc, posting, fixes, sums, rows>>

(* The rows that were read come first, in the order the query gave.        *)
Repair(r) ==
  /\ pc[r] = "repair" /\ fixes[r]
  /\ \E k \in todo[r] \cap rows[r] :
       /\ balance' = [balance EXCEPT ![k] = Overwritten(@, sums[r][k])]
       /\ todo' = [todo EXCEPT ![r] = @ \ {k}]
       /\ Touch({k}, r)
  /\ UNCHANGED <<ledger, pc, posting, fixes, sums, rows>>

(* Then the tuples with movements and no row.  Their INSERT names a        *)
(* conflict target without a unique index (the migration of phase 9 and 10 *)
(* drops the one it was written for), so the database refuses it and the   *)
(* request ends there: no record is written, the repairs stay.             *)
RepairMissingRow(r) ==
  /\ pc[r] = "repair" /\ fixes[r]
  /\ todo[r] \cap rows[r] = {}
  /\ todo[r] # {}
  /\ Finish(r, "error")
  /\ UNCHANGED <<balance, ledger, posting, snapshots, touched>>

Record(r) ==
  /\ pc[r] = "repair"
  /\ fixes[r] => todo[r] = {}
  /\ Finish(r, "done")
  /\ UNCHANGED <<balance, ledger, posting, snapshots, touched>>

(* The API process dies between two queries.                               *)
Crash(r) ==
  /\ pc[r] \in {"summed", "repair"}
  /\ Finish(r, "crashed")
  /\ UNCHANGED <<balance, ledger, posting, snapshots, touched>>

-----------------------------------------------------------------------------
Reconcile(r) ==
  ReadLedger(r) \/ ReadBalances(r) \/ Repair(r) \/ RepairMissingRow(r) \/ Record(r)

Next ==
  \/ \E a \in Api : ApiPost(a)
  \/ \E w \in Web : WebCheck(w) \/ WebPost(w)
  \/ \E r \in Run : Reconcile(r) \/ Crash(r)

Spec == Init /\ [][Next]_vars

-----------------------------------------------------------------------------
(* Properties. *)

(* A row that a reconciliation has compared, and has found equal or has    *)
(* repaired, agrees with the ledger, unless somebody else wrote its tuple  *)
(* after the run read the ledger.  Neither the order of the repairs nor    *)
(* writes to other tuples matter, and a run that dies half way leaves what *)
(* it has repaired.                                                        *)
SettledRowsAgree ==
  \A r \in Run : \A k \in rows[r] \ (todo[r] \cup touched[r]) :
    balance[k].onHand = ledger[k]

(* An overwritten row still offers for sale only what is not reserved,     *)
(* also when the reservation was made after the run read the tables.       *)
AvailableExcludesReserved ==
  \A k \in DOMAIN balance : balance[k].available = balance[k].onHand - balance[k].reserved

(* The balance table is in sync with the ledger at all times.  With the    *)
(* web application as a second writer it is not (README, section 5); no    *)
(* run claims it.                                                          *)
LedgerMatchesBalance == \A k \in Key : OnHand(k) = ledger[k]

=============================================================================
