---------------------------- MODULE IdempotentSync ----------------------------
(***************************************************************************)
(* The offline queue of the web application (apps/web/src/utils/           *)
(* sync-queue.ts) and the interceptor of the API that its Idempotency-Key  *)
(* is meant for (apps/api/src/security/idempotency.interceptor.ts).        *)
(*                                                                         *)
(* An action waits in IndexedDB under its key.  A run of processSyncQueue  *)
(* takes the actions it finds, one fetch after the other; several runs may *)
(* be under way, since queueAction and every "online" event start one.  A  *)
(* call goes on at the server when its caller has given up.  The server    *)
(* looks the key up, handles the request and stores the key, in three      *)
(* steps; the key of a PUT it neither looks up nor stores.                 *)
(***************************************************************************)
EXTENDS Naturals, FiniteSets

CONSTANTS Action,     \* queued mutations, by timestamp; the key is the action
          Keyed,      \* those sent with POST, PATCH or DELETE; the others with PUT
          Run,        \* runs of processSyncQueue, all in one tab
          Call,       \* bound: calls the server handles at a time
          NoAction, NoRun,
          Faults      \* "offline": a fetch fails before it is sent; "network":
                      \* the run stops waiting; "answer": the answer is lost;
                      \* "server": the API process dies;
                      \* "refusal": the handler refuses; "close": the tab is
                      \* closed; "expiry": a key grows older than a day

ASSUME ActionAssumption == Action \subseteq Nat
ASSUME KeyedAssumption == Keyed \subseteq Action
ASSUME NoActionAssumption == NoAction \notin Action
ASSUME NoRunAssumption == NoRun \notin Run

VARIABLES db,          \* the status of each action in IndexedDB, or "none"
          queued,      \* the actions the user has queued so far
          phase,       \* of each run
          todo,        \* the actions a run has read and not yet handled
          current,     \* the action it is waiting for
          stage,       \* of each call at the server
          about,       \* the action of each call
          caller,      \* the run that waits for it
          keyRow,      \* the IdempotencyKey row of each action
          applied,     \* how often its mutation took effect
          refused      \* the actions the server answered with 409

client == <<db, queued, phase, todo, current>>
server == <<keyRow, applied, refused>>
calls == <<stage, about, caller>>
vars == <<client, calls, server>>

-----------------------------------------------------------------------------
Phase == {"idle", "next", "waiting", "ok", "conflict", "error"}
Stage == {"free", "arrived", "handling", "storing"}

TypeOK ==
  /\ db \in [Action -> {"none", "PENDING", "SYNCING", "FAILED"}]
  /\ queued \subseteq Action
  /\ phase \in [Run -> Phase]
  /\ todo \in [Run -> SUBSET Action]
  /\ current \in [Run -> Action \cup {NoAction}]
  /\ stage \in [Call -> Stage]
  /\ about \in [Call -> Action \cup {NoAction}]
  /\ caller \in [Call -> Run \cup {NoRun}]
  /\ keyRow \in [Action -> {"none", "valid", "expired"}]
  /\ applied \in [Action -> Nat]
  /\ refused \subseteq Action

Init ==
  /\ db = [a \in Action |-> "none"]
  /\ queued = {}
  /\ phase = [r \in Run |-> "idle"]
  /\ todo = [r \in Run |-> {}]
  /\ current = [r \in Run |-> NoAction]
  /\ stage = [c \in Call |-> "free"]
  /\ about = [c \in Call |-> NoAction]
  /\ caller = [c \in Call |-> NoRun]
  /\ keyRow = [a \in Action |-> "none"]
  /\ applied = [a \in Action |-> 0]
  /\ refused = {}

-----------------------------------------------------------------------------
(* The tab. *)

QueueAction(a) ==
  /\ a \notin queued
  /\ \A b \in queued : b < a
  /\ queued' = queued \cup {a}
  /\ db' = [db EXCEPT ![a] = "PENDING"]
  /\ UNCHANGED <<phase, todo, current, calls, server>>

(* getPendingActions, at the call of queueAction or an "online" event. *)
ProcessSyncQueue(r) ==
  /\ phase[r] = "idle"
  /\ \E a \in Action : db[a] \in {"PENDING", "FAILED"}
  /\ todo' = [todo EXCEPT ![r] = {a \in Action : db[a] \in {"PENDING", "FAILED"}}]
  /\ phase' = [phase EXCEPT ![r] = "next"]
  /\ UNCHANGED <<db, queued, current, calls, server>>

(* The actions are taken by timestamp.  The row is put as SYNCING, also    *)
(* where another run has deleted it since.                                 *)
Take(r, a, p) ==
  /\ phase[r] = "next"
  /\ a \in todo[r]
  /\ \A b \in todo[r] : a <= b
  /\ db' = [db EXCEPT ![a] = "SYNCING"]
  /\ todo' = [todo EXCEPT ![r] = @ \ {a}]
  /\ current' = [current EXCEPT ![r] = a]
  /\ phase' = [phase EXCEPT ![r] = p]
  /\ UNCHANGED <<queued, server>>

SendAction(r, a, c) ==
  /\ Take(r, a, "waiting")
  /\ stage[c] = "free"
  /\ stage' = [stage EXCEPT ![c] = "arrived"]
  /\ about' = [about EXCEPT ![c] = a]
  /\ caller' = [caller EXCEPT ![c] = r]

FetchOffline(r, a) == "offline" \in Faults /\ Take(r, a, "error") /\ UNCHANGED calls

(* The fetch is over; the run goes on. *)
Resume(r, s) ==
  /\ db' = [db EXCEPT ![current[r]] = s]
  /\ current' = [current EXCEPT ![r] = NoAction]
  /\ phase' = [phase EXCEPT ![r] = "next"]
  /\ UNCHANGED <<queued, todo, calls, server>>

(* Mutant: an answer is an answer, as in public/sw.js.                     *)
RemoveAnswered(r) == phase[r] \in {"ok", "conflict", "error"} /\ Resume(r, "none")

RemoveSynced(r) == phase[r] \in {"ok", "conflict"} /\ Resume(r, "none")

MarkFailed(r) == phase[r] = "error" /\ Resume(r, "FAILED")

EndRun(r) ==
  /\ phase[r] = "next"
  /\ todo[r] = {}
  /\ phase' = [phase EXCEPT ![r] = "idle"]
  /\ UNCHANGED <<db, queued, todo, current, calls, server>>

(* All runs end; what is in IndexedDB and at the server stays. *)
CloseTab ==
  /\ "close" \in Faults
  /\ \E r \in Run : phase[r] # "idle"
  /\ phase' = [r \in Run |-> "idle"]
  /\ todo' = [r \in Run |-> {}]
  /\ current' = [r \in Run |-> NoAction]
  /\ caller' = [c \in Call |-> NoRun]
  /\ UNCHANGED <<db, queued, stage, about, server>>

-----------------------------------------------------------------------------
(* The interceptor. *)

(* The call ends, and the run that waits for it gets the outcome. *)
Answer(c, outcome) ==
  /\ stage' = [stage EXCEPT ![c] = "free"]
  /\ about' = [about EXCEPT ![c] = NoAction]
  /\ caller' = [caller EXCEPT ![c] = NoRun]
  /\ phase' = [r \in Run |-> IF caller[c] = r THEN outcome ELSE phase[r]]
  /\ UNCHANGED <<db, queued, todo, current>>

Reach(c, s) ==
  /\ stage' = [stage EXCEPT ![c] = s]
  /\ UNCHANGED <<about, caller, client>>

(* Mutant: a row of the key is no reason not to handle the request.        *)
HandleAlways(c) == stage[c] = "arrived" /\ Reach(c, "handling") /\ UNCHANGED server

(* Mutant: the key is stored before the request is handled.                *)
ClaimKey(c) ==
  /\ stage[c] = "arrived"
  /\ IF keyRow[about[c]] = "valid"
     THEN Answer(c, "ok") /\ UNCHANGED keyRow
     ELSE Reach(c, "handling") /\ keyRow' = [keyRow EXCEPT ![about[c]] = "valid"]
  /\ UNCHANGED <<applied, refused>>

(* isUnsafeMethod, then findExisting: a row of another day does not count. *)
FindExisting(c) ==
  /\ stage[c] = "arrived"
  /\ IF about[c] \in Keyed /\ keyRow[about[c]] = "valid"
     THEN Answer(c, "ok") ELSE Reach(c, "handling")
  /\ UNCHANGED server

Handle(c) ==
  /\ stage[c] = "handling"
  /\ applied' = [applied EXCEPT ![about[c]] = @ + 1]
  /\ Reach(c, "storing")
  /\ UNCHANGED <<keyRow, refused>>

(* The handler throws: its status is not stored. *)
Refuse(c) ==
  /\ "refusal" \in Faults
  /\ stage[c] = "handling"
  /\ \/ Answer(c, "conflict") /\ refused' = refused \cup {about[c]}
     \/ Answer(c, "error") /\ UNCHANGED refused
  /\ UNCHANGED <<keyRow, applied>>

(* A row that is there already stays as it is, expired or not; a PUT       *)
(* leaves none.                                                            *)
Store(c) ==
  /\ stage[c] = "storing"
  /\ keyRow' = [keyRow EXCEPT ![about[c]] =
                  IF @ = "none" /\ about[c] \in Keyed THEN "valid" ELSE @]
  /\ \/ Answer(c, "ok")
     \/ "answer" \in Faults /\ Answer(c, "error")
  /\ UNCHANGED <<applied, refused>>

-----------------------------------------------------------------------------
(* What may go wrong between the two. *)

LoseAnswer(r) ==
  /\ "network" \in Faults
  /\ phase[r] = "waiting"
  /\ phase' = [phase EXCEPT ![r] = "error"]
  /\ caller' = [c \in Call |-> IF caller[c] = r THEN NoRun ELSE caller[c]]
  /\ UNCHANGED <<db, queued, todo, current, stage, about, server>>

ServerDies(c) ==
  /\ "server" \in Faults
  /\ stage[c] # "free"
  /\ Answer(c, "error")
  /\ UNCHANGED server

Expire(a) ==
  /\ "expiry" \in Faults
  /\ keyRow[a] = "valid"
  /\ keyRow' = [keyRow EXCEPT ![a] = "expired"]
  /\ UNCHANGED <<client, calls, applied, refused>>

Next ==
  \/ \E a \in Action : QueueAction(a) \/ Expire(a)
  \/ \E r \in Run : \/ ProcessSyncQueue(r) \/ LoseAnswer(r)
                    \/ \E a \in Action : FetchOffline(r, a) \/ \E c \in Call : SendAction(r, a, c)
                    \/ RemoveSynced(r) \/ MarkFailed(r) \/ EndRun(r)
  \/ \E c \in Call : FindExisting(c) \/ Handle(c) \/ Refuse(c) \/ Store(c) \/ ServerDies(c)
  \/ CloseTab

Spec == Init /\ [][Next]_vars

-----------------------------------------------------------------------------
(* Properties. *)

(* Whatever is lost on the way, an action leaves IndexedDB only when it    *)
(* took effect or was answered with 409.                                   *)
NothingSilentlyLost ==
  \A a \in queued : db[a] = "none" => applied[a] > 0 \/ a \in refused

(* A key answers for a request only if the request took effect; no key     *)
(* answers for a PUT.                                                      *)
KeyImpliesApplied ==
  \A a \in Action : keyRow[a] # "none" => applied[a] > 0 /\ a \in Keyed

=============================================================================
